----------------------- MODULE SweepQuarantineProofs -----------------------
(***************************************************************************)
(* What a sweep of the immutable cache promises.  First SweepQuarantine,   *)
(* for every set of entries, every sharing of payloads and any number of   *)
(* deaths, power losses, alterations and links.  Its inductive invariant   *)
(* has three layers: Sound, of the places and the names alone, whatever    *)
(* happens; AlteredInv, of the trees that somebody altered; and            *)
(* AcceptedInv, of the runs that nobody and nothing but a power loss       *)
(* disturbs.  Then ImmutableRetention, for every set of entries and what   *)
(* they refer to: its inductive invariant is RetentionInv.                 *)
(***************************************************************************)
EXTENDS MCSweep, TLAPS

\* The steps at which `cur` is quarantined or compared; at which it lies in the quarantine; at
\* which it is removed; and at which the plan's directory is gone or not yet there.
Handling == {"marker", "markerSync", "rename", "syncSource", "syncTarget", "compare",
             "verify", "verifySync"}
Moved == {"syncSource", "syncTarget", "compare", "verify", "verifySync"}
Dropping == {"dropVerified", "verifiedSync", "dropMarker", "dropSync"}
Removing == {"treeSync"} \cup Dropping
Quarantining == {"next"} \cup Handling
Unlinking == {"admit", "unlink"} \cup Removing
Emptied == {"plan", "mkbase", "mkplan", "rmplanSync", "rmbase", "rmbaseSync"}
OfWaves == {"mkbase", "mkplan", "marker", "markerSync", "rename", "syncTarget"}

Verified(e) == <<"verified", e>> \in files \cup keptFiles

\* A tree cannot come back to its key once something of it was unlinked or may be.
WholeInv ==
    /\ \A e \in Entries : place[e] \in kept[e]
    /\ \A e \in Entries : content[e] = "partial" => "canonical" \notin kept[e]
    /\ \A e \in Entries : Verified(e) => "canonical" \notin kept[e]
    /\ \A e \in fresh : place[e] # "canonical"

\* Names lie in the plan's directory, that in the base.
DirInv ==
    /\ dirs \subseteq keptDirs
    /\ files \cup keptFiles # {} => "plan" \in dirs
    /\ "plan" \in dirs => "base" \in dirs

\* What the process has done, by the step it is at: of its directories, ...
StepInv ==
    /\ proc.pc \in Handling \cup Removing => proc.cur \in Entries
    /\ proc.pc \in OfWaves => proc.kind = "sweep"
    /\ proc.pc \in {"scan", "admit"} => proc.kind = "recovery"
    /\ proc.pc \in Quarantining \cup Unlinking \cup {"rmplan"} => "plan" \in dirs
    /\ proc.pc = "mkplan" => "base" \in dirs
    /\ proc.pc \in Emptied => files = {} /\ keptFiles = {}
    /\ proc.pc \in {"rmplanSync", "rmbase", "rmbaseSync"} => "plan" \notin dirs

\* ... of the entry at hand, ...
CurInv ==
    /\ proc.pc \in Handling => proc.cur \notin proc.todo
    /\ proc.pc \in {"marker", "markerSync", "rename"} => place[proc.cur] = "canonical"
    /\ proc.pc \in Moved => place[proc.cur] = "trash"
    /\ proc.pc \in {"syncTarget", "verify", "verifySync"} \/ (proc.pc = "compare" /\ proc.kind = "sweep")
          => "canonical" \notin kept[proc.cur]
    /\ proc.pc = "treeSync" /\ place[proc.cur] = "trash" => Has("verified", proc.cur)
    /\ proc.pc \in Dropping => place[proc.cur] # "trash"
    /\ proc.pc = "markerSync" => Has("marker", proc.cur)
    /\ proc.pc = "rename" => <<"marker", proc.cur>> \in files \cap keptFiles
    /\ proc.pc = "verifySync" => Has("verified", proc.cur)

\* ... and of the others: what is to be quarantined is in the cache, and what the process is done
\* with is verified if it is in the quarantine.
BatchInv ==
    /\ proc.pc \in {"mkbase", "mkplan"} => proc.batch = proc.todo
    /\ proc.kind = "sweep" /\ proc.pc \in Quarantining \cup {"mkbase", "mkplan"}
          => \A e \in proc.todo : place[e] = "canonical"
    /\ proc.pc \in Quarantining
          => \A e \in proc.batch \ proc.todo :
                place[e] = "trash" /\ ~(proc.pc \in Handling /\ e = proc.cur) => Has("verified", e)
    /\ proc.pc \in Unlinking
          => \A e \in proc.batch : place[e] = "trash" => Has("verified", e)

ProcInv == proc # None => StepInv /\ CurInv /\ BatchInv

Sound == TypeOK /\ WholeInv /\ DirInv /\ ProcInv

AlteredInv ==
    /\ AlteredIsKept
    /\ \A e \in altered : ~Verified(e) /\ e \notin asPlanned
    /\ \A e \in Entries : <<"verified", e>> \in keptFiles \ files => place[e] = "gone"
    /\ At("verify") \/ At("verifySync") \/ AtIn("recovery", "syncSource") => proc.cur \in asPlanned

\* A wave that nobody touches the payloads of.
WaveInv ==
    /\ proc.pc \in Quarantining \cup {"mkbase", "mkplan"} => proc.todo \subseteq proc.batch
    /\ proc.kind = "sweep" /\ proc.pc \in Quarantining \cup {"mkbase", "mkplan"}
          => proc.batch \subseteq asPlanned
    /\ proc.kind = "sweep" /\ proc.pc \in Handling => proc.cur \in proc.batch
    /\ proc.kind = "sweep" /\ proc.pc \in Moved => content[proc.cur] = "whole"

Undisturbed == Untouched /\ faults.death = 0

\* What a power loss may leave in the quarantine: by name, by authority, by the state of the tree.
Recoverable ==
    /\ ~refused
    /\ \A e \in Entries : "trash" \in kept[e] => <<"marker", e>> \in files \cap keptFiles
    /\ \A e \in Entries : Verified(e) => <<"marker", e>> \in files \cap keptFiles
    /\ \A e \in Entries : "trash" \in kept[e] /\ <<"verified", e>> \notin files \cap keptFiles
          => Intact(e)
    /\ \A e \in Entries : "trash" \in kept[e] /\ place[e] # "trash" => At("treeSync") /\ proc.cur = e
    /\ \A e \in Entries : <<"verified", e>> \in files \ keptFiles => At("verifySync") /\ proc.cur = e
    /\ \A e \in Entries : <<"verified", e>> \in keptFiles \ files => At("verifiedSync") /\ proc.cur = e

RunInv ==
    /\ proc.pc \in Quarantining \cup Unlinking \cup {"rmplan"}
          => \A e \in Entries : "trash" \in kept[e]
                => e \in proc.batch \/ (proc.pc = "treeSync" /\ e = proc.cur)
    /\ proc.pc = "rmplan" => proc.batch = {}
    /\ proc.pc \in Dropping => "trash" \notin kept[proc.cur]
    /\ proc.pc \in {"dropMarker", "dropSync"} => ~Verified(proc.cur)
    /\ proc.pc = "verifiedSync" => ~Has("verified", proc.cur)
    /\ proc.kind = "recovery" /\ proc.pc = "compare" => ~Has("verified", proc.cur)

WaveHolds == Untouched /\ proc # None => WaveInv
RecoverableHolds == Undisturbed => Recoverable
RunHolds == Undisturbed /\ proc # None => RunInv

AcceptedInv == WaveHolds /\ RecoverableHolds /\ RunHolds

-----------------------------------------------------------------------------
\* The three steps that choose a tree or a batch, field by field.
Quarantines(e) ==
    /\ proc # None /\ proc.pc = "next" /\ proc.kind = "sweep" /\ proc' # None /\ proc' \in Process
    /\ proc'.kind = "sweep" /\ proc'.pc = "marker" /\ proc'.cur = e /\ e \in Entries
    /\ proc'.todo = proc.todo \ {e} /\ proc'.batch = proc.batch
    /\ UNCHANGED <<trees, names, others>>

Scans ==
    /\ proc # None /\ proc.pc = "scan" /\ proc' # None /\ proc' \in Process
    /\ proc'.kind = "recovery" /\ proc'.pc = "next" /\ proc'.todo = Marked /\ proc'.batch = Marked
    /\ Marked \subseteq Entries /\ \A e \in Entries : e \in Marked <=> Has("marker", e)
    /\ "plan" \in dirs /\ UNCHANGED <<trees, names, others>>

Removes(e) ==
    /\ proc # None /\ proc.pc = "unlink" /\ proc' # None /\ proc' \in Process
    /\ proc'.kind = proc.kind
    /\ proc'.pc = IF place[e] = "trash" THEN "treeSync"
                  ELSE IF Has("verified", e) THEN "dropVerified" ELSE "dropMarker"
    /\ proc'.cur = e /\ e \in Entries
    /\ proc'.todo = proc.todo /\ proc'.batch = proc.batch \ {e}
    /\ UNCHANGED <<trees, names, others>>

LEMMA QuarantinesOne ==
    ASSUME Sound, QuarantineNext
    PROVE  proc.todo = {} \/ \E e \in proc.todo : Quarantines(e)
<1>1. proc # None /\ proc.pc = "next" /\ proc.kind = "sweep" /\ UNCHANGED <<trees, names, others>>
  BY DEF QuarantineNext, AtIn, At
<1>2. proc \in Process  BY <1>1 DEF Sound, TypeOK
<1> SUFFICES ASSUME NEW e \in proc.todo,
                    proc' = [proc EXCEPT !.pc = "marker", !.cur = e, !.todo = @ \ {e}]
             PROVE  Quarantines(e)
  BY DEF QuarantineNext
<1>3. proc' \in Process  BY <1>2 DEF Process, Steps, Handling, Quarantining
<1>4. proc' # None  BY <1>3, NoneAssumption
<1> QED  BY <1>1, <1>2, <1>3, <1>4 DEF Quarantines, Process

LEMMA ScansMarkers ==
    ASSUME Sound, Scan
    PROVE  "plan" \notin dirs \/ Scans
<1>1. /\ proc # None /\ proc.pc = "scan" /\ UNCHANGED <<trees, names, others>>
      /\ proc.kind = "recovery"
  BY DEF Scan, At, Sound, ProcInv, StepInv
<1>2. proc \in Process  BY <1>1 DEF Sound, TypeOK
<1>3. Marked \subseteq Entries /\ \A e \in Entries : e \in Marked <=> Has("marker", e)
  BY DEF Marked
<1> SUFFICES ASSUME "plan" \in dirs PROVE Scans
  OBVIOUS
<1>4. proc' = [proc EXCEPT !.pc = "next", !.todo = Marked, !.batch = Marked]
  BY DEF Scan, Sound, DirInv
<1>5. proc' \in Process  BY <1>2, <1>3, <1>4 DEF Process, Steps, Quarantining
<1>6. proc' # None  BY <1>5, NoneAssumption
<1> QED  BY <1>1, <1>2, <1>3, <1>4, <1>5, <1>6 DEF Scans, Process

LEMMA RemovesOne ==
    ASSUME Sound, RemoveNext
    PROVE  proc.batch = {} \/ \E e \in proc.batch : Removes(e)
<1>1. proc # None /\ proc.pc = "unlink" /\ UNCHANGED <<trees, names, others>>
  BY DEF RemoveNext, At
<1>2. proc \in Process  BY <1>1 DEF Sound, TypeOK
<1> SUFFICES ASSUME NEW e \in proc.batch,
                    proc' = [proc EXCEPT !.cur = e, !.batch = @ \ {e}, !.pc =
                                   IF e \in InTrash THEN "treeSync"
                                   ELSE IF Has("verified", e) THEN "dropVerified"
                                   ELSE "dropMarker"]
             PROVE  Removes(e)
  BY DEF RemoveNext
<1>3. e \in Entries /\ (e \in InTrash <=> place[e] = "trash")  BY <1>2 DEF Process, InTrash
<1>4. proc' \in Process  BY <1>2, <1>3 DEF Process, Steps, Removing, Unlinking, Dropping
<1>5. proc' # None  BY <1>4, NoneAssumption
<1> QED  BY <1>1, <1>2, <1>3, <1>4, <1>5 DEF Removes, Process

\* Every step keeps the variables in their types.
LEMMA TypeStep ==
    ASSUME Sound, [Next]_vars
    PROVE  TypeOK'
<1>0. /\ QuarantineNext => proc.todo = {} \/ \E e \in proc.todo : Quarantines(e)
      /\ Scan => "plan" \notin dirs \/ Scans
      /\ RemoveNext => proc.batch = {} \/ \E e \in proc.batch : Removes(e)
  BY QuarantinesOne, ScansMarkers, RemovesOne
<1> USE DEF Sound, TypeOK, WholeInv, DirInv, ProcInv, StepInv, CurInv, BatchInv, Verified,
            Process, Files, Places, Steps, Handling, Moved, Dropping, Removing, Quarantining,
            Unlinking, Emptied, OfWaves, trees, names, others, At, AtIn, Goto, Has, Link,
            LinkSync, Settled, SyncPlanDirectory, SyncPlan, Drop, Move, Intact, InTrash,
            Refuse, Between
<1>1. CASE StartRun  BY <1>1 DEF StartRun
<1>2. CASE Plan  BY <1>2 DEF Plan
<1>3. CASE MakeDirectory("mkbase", "base", "mkplan")  BY <1>3 DEF MakeDirectory
<1>4. CASE MakeDirectory("mkplan", "plan", "next")  BY <1>4 DEF MakeDirectory
<1>5. CASE QuarantineNext
  <2>1. TypeOK'
    <3>1. ASSUME NEW e \in proc.todo, Quarantines(e) PROVE TypeOK'  BY <3>1 DEF Quarantines
    <3>2. CASE proc.todo = {}  BY <1>5, <3>2 DEF QuarantineNext
    <3> QED  BY <1>0, <1>5, <3>1, <3>2
  <2> QED  BY <2>1
<1>6. CASE Mark  BY <1>6 DEF Mark
<1>7. CASE MarkSync  BY <1>7 DEF MarkSync
<1>8. CASE Rename  BY <1>8 DEF Rename
<1>9. CASE SyncSource  BY <1>9 DEF SyncSource
<1>10. CASE SyncTarget  BY <1>10 DEF SyncTarget
<1>11. CASE Compare  BY <1>11 DEF Compare
<1>12. CASE BreakOff  BY <1>12 DEF BreakOff
<1>13. CASE Verify  BY <1>13 DEF Verify
<1>14. CASE VerifySync  BY <1>14 DEF VerifySync
<1>15. CASE Scan
  <2>1. TypeOK'
    <3>1. CASE "plan" \notin dirs  BY <1>15, <3>1 DEF Scan
    <3>2. CASE Scans  BY <3>2 DEF Scans
    <3> QED  BY <1>0, <1>15, <3>1, <3>2
  <2> QED  BY <2>1
<1>16. CASE CompareNext
  <2>1. TypeOK'
    <3>1. ASSUME NEW e \in proc.todo,
               proc' = [proc EXCEPT !.cur = e, !.todo = @ \ {e},
                              !.pc = IF e \in InTrash /\ ~Has("verified", e) THEN "compare" ELSE "next"]
         PROVE  TypeOK'
      BY <1>16, <3>1 DEF CompareNext
    <3>2. CASE proc.todo = {}  BY <1>16, <3>2 DEF CompareNext
    <3> QED  BY <1>16, <3>1, <3>2 DEF CompareNext
  <2> QED  BY <2>1
<1>17. CASE RefuseChanged  BY <1>17 DEF RefuseChanged
<1>18. CASE Admit
  <2>1. CASE Admissible  BY <1>18, <2>1 DEF Admit
  <2>2. CASE ~Admissible  BY <1>18, <2>2 DEF Admit
  <2> QED  BY <2>1, <2>2
<1>19. CASE RemoveNext
  <2>1. TypeOK'
    <3>1. ASSUME NEW e \in proc.batch, Removes(e) PROVE TypeOK'  BY <3>1 DEF Removes
    <3>2. CASE proc.batch = {}  BY <1>19, <3>2 DEF RemoveNext
    <3> QED  BY <1>0, <1>19, <3>1, <3>2
  <2> QED  BY <2>1
<1>20. CASE RemoveChildren  BY <1>20 DEF RemoveChildren
<1>21. CASE RemoveRoot  BY <1>21 DEF RemoveRoot
<1>22. CASE SyncRemoval  BY <1>22 DEF SyncRemoval
<1>23. CASE Drop("dropVerified", "verified", "verifiedSync")  BY <1>23
<1>24. CASE SyncPlan("verifiedSync", "dropMarker")  BY <1>24
<1>25. CASE Drop("dropMarker", "marker", "dropSync")  BY <1>25
<1>26. CASE SyncPlan("dropSync", "unlink")  BY <1>26
<1>27. CASE RemovePlan  BY <1>27 DEF RemovePlan
<1>28. CASE SyncBase  BY <1>28 DEF SyncBase
<1>29. CASE RemoveBase  BY <1>29 DEF RemoveBase
<1>30. CASE SyncParent  BY <1>30 DEF SyncParent
<1>31. CASE \E e \in Entries, linked \in BOOLEAN : Publish(e, linked)
  <2>1. faults' \in [death : 0..MaxDeaths, power : 0..MaxPowerLosses,
                  alteration : 0..MaxAlterations, link : 0..MaxLinks]
    BY <1>31, SharingAssumption DEF Publish, LinkedWith
  <2> QED  BY <1>31, <2>1 DEF Publish, LinkedWith
<1>32. CASE \E e \in Entries : Alter(e)
  <2>1. faults' \in [death : 0..MaxDeaths, power : 0..MaxPowerLosses,
                  alteration : 0..MaxAlterations, link : 0..MaxLinks]
    BY <1>32, SharingAssumption DEF Alter
  <2> QED  BY <1>32, <2>1 DEF Alter
<1>33. CASE Die
  <2>1. faults' \in [death : 0..MaxDeaths, power : 0..MaxPowerLosses,
                  alteration : 0..MaxAlterations, link : 0..MaxLinks]
    BY <1>33, SharingAssumption DEF Die
  <2> QED  BY <1>33, <2>1 DEF Die
<1>34. CASE PowerLoss
  <2>1. faults' \in [death : 0..MaxDeaths, power : 0..MaxPowerLosses,
                  alteration : 0..MaxAlterations, link : 0..MaxLinks]
    BY <1>34, SharingAssumption DEF PowerLoss
  <2> QED  BY <1>34, <2>1 DEF PowerLoss
<1>35. CASE UNCHANGED vars  BY <1>35 DEF vars
<1> HIDE DEF Sound, TypeOK, WholeInv, DirInv, ProcInv, StepInv, CurInv, BatchInv, Verified,
             Process, Files, Places, Steps, Handling, Moved, Dropping, Removing, Quarantining,
             Unlinking, Emptied, OfWaves, trees, names, others, At, AtIn, Goto, Has, Link,
             LinkSync, Settled, SyncPlanDirectory, SyncPlan, Drop, Move, Intact, InTrash, Refuse,
             Between
<1> QED
  BY <1>1, <1>2, <1>3, <1>4, <1>5, <1>6, <1>7, <1>8, <1>9, <1>10, <1>11, <1>12, <1>13,
     <1>14, <1>15, <1>16, <1>17, <1>18, <1>19, <1>20, <1>21, <1>22, <1>23, <1>24, <1>25,
     <1>26, <1>27, <1>28, <1>29, <1>30, <1>31, <1>32, <1>33, <1>34, <1>35 DEF Next, Wave,
     Recovery, Removal, DropMarkers

\* No step lets a tree come back from which something was or may be unlinked.
LEMMA WholeStep ==
    ASSUME Sound, [Next]_vars
    PROVE  WholeInv'
<1>0. /\ QuarantineNext => proc.todo = {} \/ \E e \in proc.todo : Quarantines(e)
      /\ Scan => "plan" \notin dirs \/ Scans
      /\ RemoveNext => proc.batch = {} \/ \E e \in proc.batch : Removes(e)
  BY QuarantinesOne, ScansMarkers, RemovesOne
<1> USE DEF Sound, TypeOK, WholeInv, DirInv, ProcInv, StepInv, CurInv, BatchInv, Verified,
            Process, Places, Handling, Moved, Dropping, Removing, Quarantining, Unlinking,
            Emptied, OfWaves, trees, names, others, At, AtIn, Goto, Has, Link, LinkSync,
            Settled, SyncPlanDirectory, SyncPlan, Drop, Move, Intact, InTrash, Refuse, Between
<1>1. CASE StartRun  BY <1>1 DEF StartRun
<1>2. CASE Plan  BY <1>2 DEF Plan
<1>3. CASE MakeDirectory("mkbase", "base", "mkplan")  BY <1>3 DEF MakeDirectory
<1>4. CASE MakeDirectory("mkplan", "plan", "next")  BY <1>4 DEF MakeDirectory
<1>5. CASE QuarantineNext  BY <1>5 DEF QuarantineNext
<1>6. CASE Mark  BY <1>6 DEF Mark
<1>7. CASE MarkSync  BY <1>7 DEF MarkSync
<1>8. CASE Rename  BY <1>8 DEF Rename
<1>9. CASE SyncSource  BY <1>9 DEF SyncSource
<1>10. CASE SyncTarget  BY <1>10 DEF SyncTarget
<1>11. CASE Compare  BY <1>11 DEF Compare
<1>12. CASE BreakOff  BY <1>12 DEF BreakOff
<1>13. CASE Verify  BY <1>13 DEF Verify
<1>14. CASE VerifySync  BY <1>14 DEF VerifySync
<1>15. CASE Scan  BY <1>15 DEF Scan, Marked
<1>16. CASE CompareNext  BY <1>16 DEF CompareNext
<1>17. CASE RefuseChanged  BY <1>17 DEF RefuseChanged
<1>18. CASE Admit  BY <1>18 DEF Admit, Admissible, Marked
<1>19. CASE RemoveNext  BY <1>19 DEF RemoveNext
<1>20. CASE RemoveChildren  BY <1>20 DEF RemoveChildren
<1>21. CASE RemoveRoot  BY <1>21 DEF RemoveRoot
<1>22. CASE SyncRemoval  BY <1>22 DEF SyncRemoval
<1>23. CASE Drop("dropVerified", "verified", "verifiedSync")  BY <1>23
<1>24. CASE SyncPlan("verifiedSync", "dropMarker")  BY <1>24
<1>25. CASE Drop("dropMarker", "marker", "dropSync")  BY <1>25
<1>26. CASE SyncPlan("dropSync", "unlink")  BY <1>26
<1>27. CASE RemovePlan  BY <1>27 DEF RemovePlan
<1>28. CASE SyncBase  BY <1>28 DEF SyncBase
<1>29. CASE RemoveBase  BY <1>29 DEF RemoveBase
<1>30. CASE SyncParent  BY <1>30 DEF SyncParent
<1>31. CASE \E e \in Entries, linked \in BOOLEAN : Publish(e, linked)  BY <1>31 DEF Publish, LinkedWith
<1>32. CASE \E e \in Entries : Alter(e)  BY <1>32 DEF Alter
<1>33. CASE Die  BY <1>33 DEF Die
<1>34. CASE PowerLoss  BY <1>34 DEF PowerLoss
<1>35. CASE UNCHANGED vars  BY <1>35 DEF vars
<1> HIDE DEF Sound, TypeOK, WholeInv, DirInv, ProcInv, StepInv, CurInv, BatchInv, Verified,
             Process, Places, Handling, Moved, Dropping, Removing, Quarantining, Unlinking,
             Emptied, OfWaves, trees, names, others, At, AtIn, Goto, Has, Link, LinkSync, Settled,
             SyncPlanDirectory, SyncPlan, Drop, Move, Intact, InTrash, Refuse, Between
<1> QED
  BY <1>1, <1>2, <1>3, <1>4, <1>5, <1>6, <1>7, <1>8, <1>9, <1>10, <1>11, <1>12, <1>13,
     <1>14, <1>15, <1>16, <1>17, <1>18, <1>19, <1>20, <1>21, <1>22, <1>23, <1>24, <1>25,
     <1>26, <1>27, <1>28, <1>29, <1>30, <1>31, <1>32, <1>33, <1>34, <1>35 DEF Next, Wave,
     Recovery, Removal, DropMarkers

\* Every step keeps the names in the plan's directory and that in the base.
LEMMA DirStep ==
    ASSUME Sound, [Next]_vars
    PROVE  DirInv'
<1>0. /\ QuarantineNext => proc.todo = {} \/ \E e \in proc.todo : Quarantines(e)
      /\ Scan => "plan" \notin dirs \/ Scans
      /\ RemoveNext => proc.batch = {} \/ \E e \in proc.batch : Removes(e)
  BY QuarantinesOne, ScansMarkers, RemovesOne
<1> USE DEF Sound, TypeOK, WholeInv, DirInv, ProcInv, StepInv, CurInv, BatchInv, Verified,
            Process, Handling, Moved, Dropping, Removing, Quarantining, Unlinking, Emptied,
            OfWaves, trees, names, others, At, AtIn, Goto, Has, Link, LinkSync, Settled,
            SyncPlanDirectory, SyncPlan, Drop, Move, Intact, InTrash, Refuse, Between
<1>1. CASE StartRun  BY <1>1 DEF StartRun
<1>2. CASE Plan  BY <1>2 DEF Plan
<1>3. CASE MakeDirectory("mkbase", "base", "mkplan")  BY <1>3 DEF MakeDirectory
<1>4. CASE MakeDirectory("mkplan", "plan", "next")  BY <1>4 DEF MakeDirectory
<1>5. CASE QuarantineNext  BY <1>5 DEF QuarantineNext
<1>6. CASE Mark  BY <1>6 DEF Mark
<1>7. CASE MarkSync  BY <1>7 DEF MarkSync
<1>8. CASE Rename  BY <1>8 DEF Rename
<1>9. CASE SyncSource  BY <1>9 DEF SyncSource
<1>10. CASE SyncTarget  BY <1>10 DEF SyncTarget
<1>11. CASE Compare  BY <1>11 DEF Compare
<1>12. CASE BreakOff  BY <1>12 DEF BreakOff
<1>13. CASE Verify  BY <1>13 DEF Verify
<1>14. CASE VerifySync  BY <1>14 DEF VerifySync
<1>15. CASE Scan  BY <1>15 DEF Scan, Marked
<1>16. CASE CompareNext  BY <1>16 DEF CompareNext
<1>17. CASE RefuseChanged  BY <1>17 DEF RefuseChanged
<1>18. CASE Admit  BY <1>18 DEF Admit, Admissible, Marked
<1>19. CASE RemoveNext  BY <1>19 DEF RemoveNext
<1>20. CASE RemoveChildren  BY <1>20 DEF RemoveChildren
<1>21. CASE RemoveRoot  BY <1>21 DEF RemoveRoot
<1>22. CASE SyncRemoval  BY <1>22 DEF SyncRemoval
<1>23. CASE Drop("dropVerified", "verified", "verifiedSync")  BY <1>23
<1>24. CASE SyncPlan("verifiedSync", "dropMarker")  BY <1>24
<1>25. CASE Drop("dropMarker", "marker", "dropSync")  BY <1>25
<1>26. CASE SyncPlan("dropSync", "unlink")  BY <1>26
<1>27. CASE RemovePlan  BY <1>27 DEF RemovePlan
<1>28. CASE SyncBase  BY <1>28 DEF SyncBase
<1>29. CASE RemoveBase  BY <1>29 DEF RemoveBase
<1>30. CASE SyncParent  BY <1>30 DEF SyncParent
<1>31. CASE \E e \in Entries, linked \in BOOLEAN : Publish(e, linked)  BY <1>31 DEF Publish, LinkedWith
<1>32. CASE \E e \in Entries : Alter(e)  BY <1>32 DEF Alter
<1>33. CASE Die  BY <1>33 DEF Die
<1>34. CASE PowerLoss  BY <1>34 DEF PowerLoss
<1>35. CASE UNCHANGED vars  BY <1>35 DEF vars
<1> HIDE DEF Sound, TypeOK, WholeInv, DirInv, ProcInv, StepInv, CurInv, BatchInv, Verified,
             Process, Handling, Moved, Dropping, Removing, Quarantining, Unlinking, Emptied,
             OfWaves, trees, names, others, At, AtIn, Goto, Has, Link, LinkSync, Settled,
             SyncPlanDirectory, SyncPlan, Drop, Move, Intact, InTrash, Refuse, Between
<1> QED
  BY <1>1, <1>2, <1>3, <1>4, <1>5, <1>6, <1>7, <1>8, <1>9, <1>10, <1>11, <1>12, <1>13,
     <1>14, <1>15, <1>16, <1>17, <1>18, <1>19, <1>20, <1>21, <1>22, <1>23, <1>24, <1>25,
     <1>26, <1>27, <1>28, <1>29, <1>30, <1>31, <1>32, <1>33, <1>34, <1>35 DEF Next, Wave,
     Recovery, Removal, DropMarkers

\* What the process at work knows by its step, it knows at the next one.
LEMMA ProcStep ==
    ASSUME Sound, [Next]_vars
    PROVE  ProcInv'
<1>0. /\ QuarantineNext => proc.todo = {} \/ \E e \in proc.todo : Quarantines(e)
      /\ Scan => "plan" \notin dirs \/ Scans
      /\ RemoveNext => proc.batch = {} \/ \E e \in proc.batch : Removes(e)
  BY QuarantinesOne, ScansMarkers, RemovesOne
<1> USE DEF Sound, TypeOK, WholeInv, DirInv, ProcInv, StepInv, CurInv, BatchInv, Verified,
            Process, Handling, Moved, Dropping, Removing, Quarantining, Unlinking, Emptied,
            OfWaves, trees, names, others, At, AtIn, Goto, Has, Link, LinkSync, Settled,
            SyncPlanDirectory, SyncPlan, Drop, Move, Intact, InTrash, Refuse, Between
<1>1. CASE StartRun
  BY <1>1 DEF StartRun
<1>2. CASE Plan
  BY <1>2 DEF Plan
<1>3. CASE MakeDirectory("mkbase", "base", "mkplan")
  <2>1. StepInv'  BY <1>3 DEF MakeDirectory
  <2>2. CurInv'  BY <1>3 DEF MakeDirectory
  <2>3. BatchInv'  BY <1>3 DEF MakeDirectory
  <2> QED  BY <2>1, <2>2, <2>3 DEF ProcInv
<1>4. CASE MakeDirectory("mkplan", "plan", "next")
  <2>1. StepInv'  BY <1>4 DEF MakeDirectory
  <2>2. CurInv'  BY <1>4 DEF MakeDirectory
  <2>3. BatchInv'  BY <1>4 DEF MakeDirectory
  <2> QED  BY <2>1, <2>2, <2>3 DEF ProcInv
<1>5. CASE QuarantineNext
  <2>1. StepInv'
    <3>1. ASSUME NEW e \in proc.todo, Quarantines(e) PROVE StepInv'  BY <3>1 DEF Quarantines
    <3>2. CASE proc.todo = {}  BY <1>5, <3>2 DEF QuarantineNext
    <3> QED  BY <1>0, <1>5, <3>1, <3>2
  <2>2. CurInv'
    <3>1. ASSUME NEW e \in proc.todo, Quarantines(e) PROVE CurInv'  BY <3>1 DEF Quarantines
    <3>2. CASE proc.todo = {}  BY <1>5, <3>2 DEF QuarantineNext
    <3> QED  BY <1>0, <1>5, <3>1, <3>2
  <2>3. BatchInv'
    <3>1. /\ proc \in Process /\ proc.pc = "next" /\ proc.kind = "sweep"
          /\ \A d \in proc.batch \ proc.todo : place[d] = "trash" => Has("verified", d)
          /\ \A d \in proc.todo : place[d] = "canonical"
          /\ UNCHANGED <<place, files>>
      BY <1>5 DEF QuarantineNext
    <3> HIDE DEF Sound, TypeOK, WholeInv, DirInv, ProcInv, StepInv, CurInv
    <3>2. ASSUME NEW e \in proc.todo,
                 proc' = [proc EXCEPT !.pc = "marker", !.cur = e, !.todo = @ \ {e}]
          PROVE  BatchInv'
      BY <3>1, <3>2
    <3>3. CASE proc.todo = {}  BY <1>5, <3>1, <3>3 DEF QuarantineNext
    <3> QED  BY <1>5, <3>2, <3>3 DEF QuarantineNext
  <2> QED  BY <2>1, <2>2, <2>3 DEF ProcInv
<1>6. CASE Mark
  <2>1. StepInv'  BY <1>6 DEF Mark
  <2>2. CurInv'  BY <1>6 DEF Mark
  <2>3. BatchInv'  BY <1>6 DEF Mark
  <2> QED  BY <2>1, <2>2, <2>3 DEF ProcInv
<1>7. CASE MarkSync
  <2>1. StepInv'  BY <1>7 DEF MarkSync
  <2>2. CurInv'  BY <1>7 DEF MarkSync
  <2>3. BatchInv'  BY <1>7 DEF MarkSync
  <2> QED  BY <2>1, <2>2, <2>3 DEF ProcInv
<1>8. CASE Rename
  <2>1. StepInv'  BY <1>8 DEF Rename
  <2>2. CurInv'  BY <1>8 DEF Rename
  <2>3. BatchInv'  BY <1>8 DEF Rename
  <2> QED  BY <2>1, <2>2, <2>3 DEF ProcInv
<1>9. CASE SyncSource
  <2>1. StepInv'  BY <1>9 DEF SyncSource
  <2>2. CurInv'  BY <1>9 DEF SyncSource
  <2>3. BatchInv'  BY <1>9 DEF SyncSource
  <2> QED  BY <2>1, <2>2, <2>3 DEF ProcInv
<1>10. CASE SyncTarget
  <2>1. StepInv'  BY <1>10 DEF SyncTarget
  <2>2. CurInv'  BY <1>10 DEF SyncTarget
  <2>3. BatchInv'  BY <1>10 DEF SyncTarget
  <2> QED  BY <2>1, <2>2, <2>3 DEF ProcInv
<1>11. CASE Compare
  <2>1. StepInv'  BY <1>11 DEF Compare
  <2>2. CurInv'  BY <1>11 DEF Compare
  <2>3. BatchInv'  BY <1>11 DEF Compare
  <2> QED  BY <2>1, <2>2, <2>3 DEF ProcInv
<1>12. CASE BreakOff
  BY <1>12 DEF BreakOff
<1>13. CASE Verify
  <2>1. StepInv'  BY <1>13 DEF Verify
  <2>2. CurInv'  BY <1>13 DEF Verify
  <2>3. BatchInv'  BY <1>13 DEF Verify
  <2> QED  BY <2>1, <2>2, <2>3 DEF ProcInv
<1>14. CASE VerifySync
  <2>1. StepInv'  BY <1>14 DEF VerifySync
  <2>2. CurInv'  BY <1>14 DEF VerifySync
  <2>3. BatchInv'  BY <1>14 DEF VerifySync
  <2> QED  BY <2>1, <2>2, <2>3 DEF ProcInv
<1>15. CASE Scan
  <2>1. StepInv'
    <3>1. CASE "plan" \notin dirs  BY <1>15, <3>1 DEF Scan
    <3>2. CASE Scans  BY <3>2 DEF Scans
    <3> QED  BY <1>0, <1>15, <3>1, <3>2
  <2>2. CurInv'
    <3>1. CASE "plan" \notin dirs  BY <1>15, <3>1 DEF Scan
    <3>2. CASE Scans  BY <3>2 DEF Scans
    <3> QED  BY <1>0, <1>15, <3>1, <3>2
  <2>3. BatchInv'
    <3>1. CASE "plan" \notin dirs  BY <1>15, <3>1 DEF Scan
    <3>2. CASE Scans  BY <3>2 DEF Scans
    <3> QED  BY <1>0, <1>15, <3>1, <3>2
  <2> QED  BY <2>1, <2>2, <2>3 DEF ProcInv
<1>16. CASE CompareNext
  <2>1. StepInv'
    <3>1. ASSUME NEW e \in proc.todo,
               proc' = [proc EXCEPT !.cur = e, !.todo = @ \ {e},
                              !.pc = IF e \in InTrash /\ ~Has("verified", e) THEN "compare" ELSE "next"]
         PROVE  StepInv'
      BY <1>16, <3>1 DEF CompareNext
    <3>2. CASE proc.todo = {}  BY <1>16, <3>2 DEF CompareNext
    <3> QED  BY <1>16, <3>1, <3>2 DEF CompareNext
  <2>2. CurInv'
    <3>1. ASSUME NEW e \in proc.todo,
               proc' = [proc EXCEPT !.cur = e, !.todo = @ \ {e},
                              !.pc = IF e \in InTrash /\ ~Has("verified", e) THEN "compare" ELSE "next"]
         PROVE  CurInv'
      BY <1>16, <3>1 DEF CompareNext
    <3>2. CASE proc.todo = {}  BY <1>16, <3>2 DEF CompareNext
    <3> QED  BY <1>16, <3>1, <3>2 DEF CompareNext
  <2>3. BatchInv'
    <3>1. /\ proc \in Process /\ proc.pc = "next" /\ proc.kind = "recovery"
          /\ \A d \in proc.batch \ proc.todo : place[d] = "trash" => Has("verified", d)
          /\ UNCHANGED <<place, files>>
      BY <1>16 DEF CompareNext
    <3> HIDE DEF Sound, TypeOK, WholeInv, DirInv, ProcInv, StepInv, CurInv
    <3>2. ASSUME NEW e \in proc.todo,
                 proc' = [proc EXCEPT !.cur = e, !.todo = @ \ {e},
                                !.pc = IF e \in InTrash /\ ~Has("verified", e) THEN "compare" ELSE "next"]
          PROVE  BatchInv'
      <4>1. CASE e \in InTrash /\ ~Has("verified", e)  BY <3>1, <3>2, <4>1
      <4>2. CASE ~(e \in InTrash /\ ~Has("verified", e))  BY <3>1, <3>2, <4>2
      <4> QED  BY <4>1, <4>2
    <3>3. CASE proc.todo = {}  BY <1>16, <3>1, <3>3 DEF CompareNext
    <3> QED  BY <1>16, <3>2, <3>3 DEF CompareNext
  <2> QED  BY <2>1, <2>2, <2>3 DEF ProcInv
<1>17. CASE RefuseChanged
  BY <1>17 DEF RefuseChanged
<1>18. CASE Admit
  BY <1>18 DEF Admit, Admissible, Marked
<1>19. CASE RemoveNext
  <2>1. StepInv'
    <3>1. ASSUME NEW e \in proc.batch, Removes(e) PROVE StepInv'  BY <3>1 DEF Removes
    <3>2. CASE proc.batch = {}  BY <1>19, <3>2 DEF RemoveNext
    <3> QED  BY <1>0, <1>19, <3>1, <3>2
  <2>2. CurInv'
    <3>1. ASSUME NEW e \in proc.batch, Removes(e) PROVE CurInv'  BY <3>1 DEF Removes
    <3>2. CASE proc.batch = {}  BY <1>19, <3>2 DEF RemoveNext
    <3> QED  BY <1>0, <1>19, <3>1, <3>2
  <2>3. BatchInv'
    <3>1. ASSUME NEW e \in proc.batch, Removes(e) PROVE BatchInv'  BY <3>1 DEF Removes
    <3>2. CASE proc.batch = {}  BY <1>19, <3>2 DEF RemoveNext
    <3> QED  BY <1>0, <1>19, <3>1, <3>2
  <2> QED  BY <2>1, <2>2, <2>3 DEF ProcInv
<1>20. CASE RemoveChildren
  <2>1. StepInv'  BY <1>20 DEF RemoveChildren
  <2>2. CurInv'  BY <1>20 DEF RemoveChildren
  <2>3. BatchInv'  BY <1>20 DEF RemoveChildren
  <2> QED  BY <2>1, <2>2, <2>3 DEF ProcInv
<1>21. CASE RemoveRoot
  <2>1. StepInv'  BY <1>21 DEF RemoveRoot
  <2>2. CurInv'  BY <1>21 DEF RemoveRoot
  <2>3. BatchInv'  BY <1>21 DEF RemoveRoot
  <2> QED  BY <2>1, <2>2, <2>3 DEF ProcInv
<1>22. CASE SyncRemoval
  <2>1. StepInv'  BY <1>22 DEF SyncRemoval
  <2>2. CurInv'  BY <1>22 DEF SyncRemoval
  <2>3. BatchInv'  BY <1>22 DEF SyncRemoval
  <2> QED  BY <2>1, <2>2, <2>3 DEF ProcInv
<1>23. CASE Drop("dropVerified", "verified", "verifiedSync")
  <2>1. StepInv'  BY <1>23
  <2>2. CurInv'  BY <1>23
  <2>3. BatchInv'  BY <1>23
  <2> QED  BY <2>1, <2>2, <2>3 DEF ProcInv
<1>24. CASE SyncPlan("verifiedSync", "dropMarker")
  <2>1. StepInv'  BY <1>24
  <2>2. CurInv'  BY <1>24
  <2>3. BatchInv'  BY <1>24
  <2> QED  BY <2>1, <2>2, <2>3 DEF ProcInv
<1>25. CASE Drop("dropMarker", "marker", "dropSync")
  <2>1. StepInv'  BY <1>25
  <2>2. CurInv'  BY <1>25
  <2>3. BatchInv'  BY <1>25
  <2> QED  BY <2>1, <2>2, <2>3 DEF ProcInv
<1>26. CASE SyncPlan("dropSync", "unlink")
  <2>1. StepInv'  BY <1>26
  <2>2. CurInv'  BY <1>26
  <2>3. BatchInv'  BY <1>26
  <2> QED  BY <2>1, <2>2, <2>3 DEF ProcInv
<1>27. CASE RemovePlan
  <2>1. StepInv'  BY <1>27 DEF RemovePlan
  <2>2. CurInv'  BY <1>27 DEF RemovePlan
  <2>3. BatchInv'  BY <1>27 DEF RemovePlan
  <2> QED  BY <2>1, <2>2, <2>3 DEF ProcInv
<1>28. CASE SyncBase
  <2>1. StepInv'  BY <1>28 DEF SyncBase
  <2>2. CurInv'  BY <1>28 DEF SyncBase
  <2>3. BatchInv'  BY <1>28 DEF SyncBase
  <2> QED  BY <2>1, <2>2, <2>3 DEF ProcInv
<1>29. CASE RemoveBase
  <2>1. StepInv'  BY <1>29 DEF RemoveBase
  <2>2. CurInv'  BY <1>29 DEF RemoveBase
  <2>3. BatchInv'  BY <1>29 DEF RemoveBase
  <2> QED  BY <2>1, <2>2, <2>3 DEF ProcInv
<1>30. CASE SyncParent
  <2>1. StepInv'  BY <1>30 DEF SyncParent
  <2>2. CurInv'  BY <1>30 DEF SyncParent
  <2>3. BatchInv'  BY <1>30 DEF SyncParent
  <2> QED  BY <2>1, <2>2, <2>3 DEF ProcInv
<1>31. CASE \E e \in Entries, linked \in BOOLEAN : Publish(e, linked)
  BY <1>31 DEF Publish, LinkedWith
<1>32. CASE \E e \in Entries : Alter(e)
  BY <1>32 DEF Alter
<1>33. CASE Die
  BY <1>33 DEF Die
<1>34. CASE PowerLoss
  BY <1>34 DEF PowerLoss
<1>35. CASE UNCHANGED vars  BY <1>35 DEF vars
<1> HIDE DEF Sound, TypeOK, WholeInv, DirInv, ProcInv, StepInv, CurInv, BatchInv, Verified,
             Process, Handling, Moved, Dropping, Removing, Quarantining, Unlinking, Emptied,
             OfWaves, trees, names, others, At, AtIn, Goto, Has, Link, LinkSync, Settled,
             SyncPlanDirectory, SyncPlan, Drop, Move, Intact, InTrash, Refuse, Between
<1> QED
  BY <1>1, <1>2, <1>3, <1>4, <1>5, <1>6, <1>7, <1>8, <1>9, <1>10, <1>11, <1>12, <1>13,
     <1>14, <1>15, <1>16, <1>17, <1>18, <1>19, <1>20, <1>21, <1>22, <1>23, <1>24, <1>25,
     <1>26, <1>27, <1>28, <1>29, <1>30, <1>31, <1>32, <1>33, <1>34, <1>35 DEF Next, Wave,
     Recovery, Removal, DropMarkers

\* The first layer: it holds whatever fails.
LEMMA SoundStep ==
    ASSUME Sound, [Next]_vars
    PROVE  Sound'
BY TypeStep, WholeStep, DirStep, ProcStep DEF Sound

\* The second layer: no step unlinks a tree that was altered before it was compared.
LEMMA AlteredStep ==
    ASSUME Sound, AlteredInv, [Next]_vars
    PROVE  AlteredInv'
<1>0. /\ QuarantineNext => proc.todo = {} \/ \E e \in proc.todo : Quarantines(e)
      /\ Scan => "plan" \notin dirs \/ Scans
      /\ RemoveNext => proc.batch = {} \/ \E e \in proc.batch : Removes(e)
  BY QuarantinesOne, ScansMarkers, RemovesOne
<1> USE DEF AlteredInv, AlteredIsKept, Sound, TypeOK, WholeInv, DirInv, ProcInv, StepInv,
            CurInv, BatchInv, Verified, Process, Places, Handling, Moved, Dropping, Removing,
            Quarantining, Unlinking, Emptied, OfWaves, trees, names, others, At, AtIn, Goto,
            Has, Link, LinkSync, Settled, SyncPlanDirectory, SyncPlan, Drop, Move, Intact,
            InTrash, Refuse, Between
<1>1. CASE StartRun  BY <1>1 DEF StartRun
<1>2. CASE Plan  BY <1>2 DEF Plan
<1>3. CASE MakeDirectory("mkbase", "base", "mkplan")  BY <1>3 DEF MakeDirectory
<1>4. CASE MakeDirectory("mkplan", "plan", "next")  BY <1>4 DEF MakeDirectory
<1>5. CASE QuarantineNext  BY <1>5 DEF QuarantineNext
<1>6. CASE Mark  BY <1>6 DEF Mark
<1>7. CASE MarkSync  BY <1>7 DEF MarkSync
<1>8. CASE Rename  BY <1>8 DEF Rename
<1>9. CASE SyncSource  BY <1>9 DEF SyncSource
<1>10. CASE SyncTarget  BY <1>10 DEF SyncTarget
<1>11. CASE Compare  BY <1>11 DEF Compare
<1>12. CASE BreakOff  BY <1>12 DEF BreakOff
<1>13. CASE Verify  BY <1>13 DEF Verify
<1>14. CASE VerifySync  BY <1>14 DEF VerifySync
<1>15. CASE Scan
  <2>1. AlteredInv'
    <3>1. CASE "plan" \notin dirs  BY <1>15, <3>1 DEF Scan
    <3>2. CASE Scans  BY <3>2 DEF Scans
    <3> QED  BY <1>0, <1>15, <3>1, <3>2
  <2> QED  BY <2>1
<1>16. CASE CompareNext  BY <1>16 DEF CompareNext
<1>17. CASE RefuseChanged  BY <1>17 DEF RefuseChanged
<1>18. CASE Admit  BY <1>18 DEF Admit, Admissible, Marked
<1>19. CASE RemoveNext
  <2>1. ASSUME NEW e \in proc.batch, Removes(e) PROVE AlteredInv'  BY <2>1 DEF Removes
  <2>2. CASE proc.batch = {}  BY <1>19, <2>2 DEF RemoveNext
  <2> QED  BY <1>0, <1>19, <2>1, <2>2
<1>20. CASE RemoveChildren  BY <1>20 DEF RemoveChildren
<1>21. CASE RemoveRoot  BY <1>21 DEF RemoveRoot
<1>22. CASE SyncRemoval  BY <1>22 DEF SyncRemoval
<1>23. CASE Drop("dropVerified", "verified", "verifiedSync")
  <2>1. proc.cur \in Entries /\ proc.pc = "dropVerified" /\ files' = files \ {<<"verified", proc.cur>>}
    BY <1>23
  <2>2. Has("verified", proc.cur) => place[proc.cur] = "gone"  BY <1>23, <2>1
  <2>3. \A e \in Entries : <<"verified", e>> \in keptFiles \ files' => place[e] = "gone"  BY <2>1, <2>2
  <2>4. proc' # None => proc'.pc = "verifiedSync"  BY <1>23, <2>1
  <2> QED  BY <1>23, <2>3, <2>4
<1>24. CASE SyncPlan("verifiedSync", "dropMarker")  BY <1>24
<1>25. CASE Drop("dropMarker", "marker", "dropSync")  BY <1>25
<1>26. CASE SyncPlan("dropSync", "unlink")  BY <1>26
<1>27. CASE RemovePlan  BY <1>27 DEF RemovePlan
<1>28. CASE SyncBase  BY <1>28 DEF SyncBase
<1>29. CASE RemoveBase  BY <1>29 DEF RemoveBase
<1>30. CASE SyncParent  BY <1>30 DEF SyncParent
<1>31. CASE \E e \in Entries, linked \in BOOLEAN : Publish(e, linked)  BY <1>31 DEF Publish, LinkedWith
<1>32. CASE \E e \in Entries : Alter(e)  BY <1>32 DEF Alter
<1>33. CASE Die  BY <1>33 DEF Die
<1>34. CASE PowerLoss  BY <1>34 DEF PowerLoss
<1>35. CASE UNCHANGED vars  BY <1>35 DEF vars
<1> HIDE DEF AlteredInv, AlteredIsKept, Sound, TypeOK, WholeInv, DirInv, ProcInv, StepInv, CurInv,
             BatchInv, Verified, Process, Places, Handling, Moved, Dropping, Removing,
             Quarantining, Unlinking, Emptied, OfWaves, trees, names, others, At, AtIn, Goto, Has,
             Link, LinkSync, Settled, SyncPlanDirectory, SyncPlan, Drop, Move, Intact, InTrash,
             Refuse, Between
<1> QED
  BY <1>1, <1>2, <1>3, <1>4, <1>5, <1>6, <1>7, <1>8, <1>9, <1>10, <1>11, <1>12, <1>13,
     <1>14, <1>15, <1>16, <1>17, <1>18, <1>19, <1>20, <1>21, <1>22, <1>23, <1>24, <1>25,
     <1>26, <1>27, <1>28, <1>29, <1>30, <1>31, <1>32, <1>33, <1>34, <1>35 DEF Next, Wave,
     Recovery, Removal, DropMarkers

\* The third layer: a step of a run that only power losses disturb leaves what a recovery accepts.
LEMMA AcceptedStep ==
    ASSUME Sound, AcceptedInv, [Next]_vars
    PROVE  AcceptedInv'
<1>0. /\ QuarantineNext => proc.todo = {} \/ \E e \in proc.todo : Quarantines(e)
      /\ Scan => "plan" \notin dirs \/ Scans
      /\ RemoveNext => proc.batch = {} \/ \E e \in proc.batch : Removes(e)
  BY QuarantinesOne, ScansMarkers, RemovesOne
<1> USE DEF AcceptedInv, WaveHolds, RecoverableHolds, RunHolds, WaveInv, Recoverable, RunInv,
            Undisturbed, Untouched, Sound, TypeOK, WholeInv, DirInv, ProcInv, StepInv, CurInv,
            BatchInv, Verified, Process, Files, Places, Steps, Handling, Moved, Dropping,
            Removing, Quarantining, Unlinking, Emptied, OfWaves, trees, names, others, At,
            AtIn, Goto, Has, Link, LinkSync, Settled, SyncPlanDirectory, SyncPlan, Drop, Move,
            Intact, InTrash, Refuse, Between
<1>1. CASE StartRun
  <2>1. WaveHolds'  BY <1>1 DEF StartRun
  <2>2. RecoverableHolds'  BY <1>1 DEF StartRun
  <2>3. RunHolds'  BY <1>1 DEF StartRun
  <2> QED  BY <2>1, <2>2, <2>3
<1>2. CASE Plan
  <2>1. WaveHolds'  BY <1>2 DEF Plan
  <2>2. RecoverableHolds'  BY <1>2 DEF Plan
  <2>3. RunHolds'  BY <1>2 DEF Plan
  <2> QED  BY <2>1, <2>2, <2>3
<1>3. CASE MakeDirectory("mkbase", "base", "mkplan")
  <2>1. WaveHolds'  BY <1>3 DEF MakeDirectory
  <2>2. RecoverableHolds'  BY <1>3 DEF MakeDirectory
  <2>3. RunHolds'  BY <1>3 DEF MakeDirectory
  <2> QED  BY <2>1, <2>2, <2>3
<1>4. CASE MakeDirectory("mkplan", "plan", "next")
  <2>1. WaveHolds'  BY <1>4 DEF MakeDirectory
  <2>2. RecoverableHolds'  BY <1>4 DEF MakeDirectory
  <2>3. RunHolds'  BY <1>4 DEF MakeDirectory
  <2> QED  BY <2>1, <2>2, <2>3
<1>5. CASE QuarantineNext
  <2>1. WaveHolds'
    <3>1. ASSUME NEW e \in proc.todo, Quarantines(e) PROVE WaveHolds'  BY <3>1 DEF Quarantines
    <3>2. CASE proc.todo = {}  BY <1>5, <3>2 DEF QuarantineNext
    <3> QED  BY <1>0, <1>5, <3>1, <3>2
  <2>2. RecoverableHolds'  BY <1>5 DEF QuarantineNext
  <2>3. RunHolds'
    <3>1. ASSUME NEW e \in proc.todo, Quarantines(e) PROVE RunHolds'  BY <3>1 DEF Quarantines
    <3>2. CASE proc.todo = {}  BY <1>5, <3>2 DEF QuarantineNext
    <3> QED  BY <1>0, <1>5, <3>1, <3>2
  <2> QED  BY <2>1, <2>2, <2>3
<1>6. CASE Mark
  <2>1. WaveHolds'  BY <1>6 DEF Mark
  <2>2. RecoverableHolds'  BY <1>6 DEF Mark
  <2>3. RunHolds'  BY <1>6 DEF Mark
  <2> QED  BY <2>1, <2>2, <2>3
<1>7. CASE MarkSync
  <2>1. WaveHolds'  BY <1>7 DEF MarkSync
  <2>2. RecoverableHolds'  BY <1>7 DEF MarkSync
  <2>3. RunHolds'  BY <1>7 DEF MarkSync
  <2> QED  BY <2>1, <2>2, <2>3
<1>8. CASE Rename
  <2>1. WaveHolds'  BY <1>8 DEF Rename
  <2>2. RecoverableHolds'  BY <1>8 DEF Rename
  <2>3. RunHolds'  BY <1>8 DEF Rename
  <2> QED  BY <2>1, <2>2, <2>3
<1>9. CASE SyncSource
  <2>1. WaveHolds'  BY <1>9 DEF SyncSource
  <2>2. RecoverableHolds'  BY <1>9 DEF SyncSource
  <2>3. RunHolds'  BY <1>9 DEF SyncSource
  <2> QED  BY <2>1, <2>2, <2>3
<1>10. CASE SyncTarget
  <2>1. WaveHolds'  BY <1>10 DEF SyncTarget
  <2>2. RecoverableHolds'  BY <1>10 DEF SyncTarget
  <2>3. RunHolds'  BY <1>10 DEF SyncTarget
  <2> QED  BY <2>1, <2>2, <2>3
<1>11. CASE Compare
  <2>1. WaveHolds'  BY <1>11 DEF Compare
  <2>2. RecoverableHolds'  BY <1>11 DEF Compare
  <2>3. RunHolds'  BY <1>11 DEF Compare
  <2> QED  BY <2>1, <2>2, <2>3
<1>12. CASE BreakOff
  <2>1. WaveHolds'  BY <1>12 DEF BreakOff
  <2>2. RecoverableHolds'  BY <1>12 DEF BreakOff
  <2>3. RunHolds'  BY <1>12 DEF BreakOff
  <2> QED  BY <2>1, <2>2, <2>3
<1>13. CASE Verify
  <2>1. WaveHolds'  BY <1>13 DEF Verify
  <2>2. RecoverableHolds'
    <3>1. /\ proc.cur \in Entries /\ place[proc.cur] = "trash" /\ "trash" \in kept[proc.cur]
          /\ files' = files \cup {<<"verified", proc.cur>>, <<"scratch", proc.cur>>}
          /\ proc.pc = "verify" /\ proc' = [proc EXCEPT !.pc = "verifySync"]
          /\ UNCHANGED <<trees, keptFiles, others>>
      BY <1>13, NoneAssumption DEF Verify
    <3>2. \A e \in Entries : Has("verified", e)' <=> Has("verified", e) \/ e = proc.cur  BY <3>1
    <3>3. \A e \in Entries : Has("marker", e)' <=> Has("marker", e)  BY <3>1
    <3>4. proc' \in Process /\ proc' # None /\ proc'.pc = "verifySync" /\ proc'.cur = proc.cur
      BY <1>13, <3>1, NoneAssumption DEF Verify
    <3> QED  BY <3>1, <3>2, <3>3, <3>4
  <2>3. RunHolds'  BY <1>13 DEF Verify
  <2> QED  BY <2>1, <2>2, <2>3
<1>14. CASE VerifySync
  <2>1. WaveHolds'  BY <1>14 DEF VerifySync
  <2>2. RecoverableHolds'  BY <1>14 DEF VerifySync
  <2>3. RunHolds'  BY <1>14 DEF VerifySync
  <2> QED  BY <2>1, <2>2, <2>3
<1>15. CASE Scan
  <2>1. WaveHolds'
    <3>1. CASE "plan" \notin dirs  BY <1>15, <3>1 DEF Scan
    <3>2. CASE Scans  BY <3>2 DEF Scans
    <3> QED  BY <1>0, <1>15, <3>1, <3>2
  <2>2. RecoverableHolds'
    <3>1. CASE "plan" \notin dirs  BY <1>15, <3>1 DEF Scan
    <3>2. CASE Scans  BY <3>2 DEF Scans
    <3> QED  BY <1>0, <1>15, <3>1, <3>2
  <2>3. RunHolds'
    <3>1. CASE "plan" \notin dirs  BY <1>15, <3>1 DEF Scan
    <3>2. CASE Scans  BY <3>2 DEF Scans
    <3> QED  BY <1>0, <1>15, <3>1, <3>2
  <2> QED  BY <2>1, <2>2, <2>3
<1>16. CASE CompareNext
  <2>1. WaveHolds'
    <3>1. ASSUME NEW e \in proc.todo,
               proc' = [proc EXCEPT !.cur = e, !.todo = @ \ {e},
                              !.pc = IF e \in InTrash /\ ~Has("verified", e) THEN "compare" ELSE "next"]
         PROVE  WaveHolds'
      BY <1>16, <3>1 DEF CompareNext
    <3>2. CASE proc.todo = {}  BY <1>16, <3>2 DEF CompareNext
    <3> QED  BY <1>16, <3>1, <3>2 DEF CompareNext
  <2>2. RecoverableHolds'  BY <1>16 DEF CompareNext
  <2>3. RunHolds'
    <3>1. ASSUME NEW e \in proc.todo,
               proc' = [proc EXCEPT !.cur = e, !.todo = @ \ {e},
                              !.pc = IF e \in InTrash /\ ~Has("verified", e) THEN "compare" ELSE "next"]
         PROVE  RunHolds'
      BY <1>16, <3>1 DEF CompareNext
    <3>2. CASE proc.todo = {}  BY <1>16, <3>2 DEF CompareNext
    <3> QED  BY <1>16, <3>1, <3>2 DEF CompareNext
  <2> QED  BY <2>1, <2>2, <2>3
<1>17. CASE RefuseChanged
  <2>1. WaveHolds'  BY <1>17 DEF RefuseChanged
  <2>2. RecoverableHolds'  BY <1>17 DEF RefuseChanged
  <2>3. RunHolds'  BY <1>17 DEF RefuseChanged
  <2> QED  BY <2>1, <2>2, <2>3
<1>18. CASE Admit
  <2>1. WaveHolds'  BY <1>18 DEF Admit, Admissible, Marked
  <2>2. RecoverableHolds'  BY <1>18 DEF Admit, Admissible, Marked
  <2>3. RunHolds'  BY <1>18 DEF Admit, Admissible, Marked
  <2> QED  BY <2>1, <2>2, <2>3
<1>19. CASE RemoveNext
  <2>1. WaveHolds'
    <3>1. ASSUME NEW e \in proc.batch, Removes(e) PROVE WaveHolds'  BY <3>1 DEF Removes
    <3>2. CASE proc.batch = {}  BY <1>19, <3>2 DEF RemoveNext
    <3> QED  BY <1>0, <1>19, <3>1, <3>2
  <2>2. RecoverableHolds'  BY <1>19 DEF RemoveNext
  <2>3. RunHolds'
    <3>1. ASSUME NEW e \in proc.batch, Removes(e) PROVE RunHolds'  BY <3>1 DEF Removes
    <3>2. CASE proc.batch = {}  BY <1>19, <3>2 DEF RemoveNext
    <3> QED  BY <1>0, <1>19, <3>1, <3>2
  <2> QED  BY <2>1, <2>2, <2>3
<1>20. CASE RemoveChildren
  <2>1. WaveHolds'  BY <1>20 DEF RemoveChildren
  <2>2. RecoverableHolds'  BY <1>20 DEF RemoveChildren
  <2>3. RunHolds'  BY <1>20 DEF RemoveChildren
  <2> QED  BY <2>1, <2>2, <2>3
<1>21. CASE RemoveRoot
  <2>1. WaveHolds'  BY <1>21 DEF RemoveRoot
  <2>2. RecoverableHolds'  BY <1>21 DEF RemoveRoot
  <2>3. RunHolds'  BY <1>21 DEF RemoveRoot
  <2> QED  BY <2>1, <2>2, <2>3
<1>22. CASE SyncRemoval
  <2>1. WaveHolds'  BY <1>22 DEF SyncRemoval
  <2>2. RecoverableHolds'  BY <1>22 DEF SyncRemoval
  <2>3. RunHolds'  BY <1>22 DEF SyncRemoval
  <2> QED  BY <2>1, <2>2, <2>3
<1>23. CASE Drop("dropVerified", "verified", "verifiedSync")
  <2>1. WaveHolds'  BY <1>23
  <2>2. RecoverableHolds'
    <3>1. /\ proc.cur \in Entries /\ place[proc.cur] # "trash"
          /\ files' = files \ {<<"verified", proc.cur>>}
          /\ proc.pc = "dropVerified" /\ proc' = [proc EXCEPT !.pc = "verifiedSync"]
          /\ UNCHANGED <<trees, keptFiles, others>>
      BY <1>23
    <3>2. \A e \in Entries : Has("verified", e)' <=> Has("verified", e) /\ e # proc.cur  BY <3>1
    <3>3. \A e \in Entries : Has("marker", e)' <=> Has("marker", e)  BY <3>1
    <3>4. proc' # None /\ proc'.pc = "verifiedSync" /\ proc'.cur = proc.cur
      BY <1>23, <3>1, NoneAssumption
    <3> QED  BY <1>23, <3>1, <3>2, <3>3, <3>4
  <2>3. RunHolds'  BY <1>23
  <2> QED  BY <2>1, <2>2, <2>3
<1>24. CASE SyncPlan("verifiedSync", "dropMarker")
  <2>1. WaveHolds'  BY <1>24
  <2>2. RecoverableHolds'  BY <1>24
  <2>3. RunHolds'  BY <1>24
  <2> QED  BY <2>1, <2>2, <2>3
<1>25. CASE Drop("dropMarker", "marker", "dropSync")
  <2>1. WaveHolds'  BY <1>25
  <2>2. RecoverableHolds'  BY <1>25
  <2>3. RunHolds'  BY <1>25
  <2> QED  BY <2>1, <2>2, <2>3
<1>26. CASE SyncPlan("dropSync", "unlink")
  <2>1. WaveHolds'  BY <1>26
  <2>2. RecoverableHolds'  BY <1>26
  <2>3. RunHolds'  BY <1>26
  <2> QED  BY <2>1, <2>2, <2>3
<1>27. CASE RemovePlan
  <2>1. WaveHolds'  BY <1>27 DEF RemovePlan
  <2>2. RecoverableHolds'  BY <1>27 DEF RemovePlan
  <2>3. RunHolds'  BY <1>27 DEF RemovePlan
  <2> QED  BY <2>1, <2>2, <2>3
<1>28. CASE SyncBase
  <2>1. WaveHolds'  BY <1>28 DEF SyncBase
  <2>2. RecoverableHolds'  BY <1>28 DEF SyncBase
  <2>3. RunHolds'  BY <1>28 DEF SyncBase
  <2> QED  BY <2>1, <2>2, <2>3
<1>29. CASE RemoveBase
  <2>1. WaveHolds'  BY <1>29 DEF RemoveBase
  <2>2. RecoverableHolds'  BY <1>29 DEF RemoveBase
  <2>3. RunHolds'  BY <1>29 DEF RemoveBase
  <2> QED  BY <2>1, <2>2, <2>3
<1>30. CASE SyncParent
  <2>1. WaveHolds'  BY <1>30 DEF SyncParent
  <2>2. RecoverableHolds'  BY <1>30 DEF SyncParent
  <2>3. RunHolds'  BY <1>30 DEF SyncParent
  <2> QED  BY <2>1, <2>2, <2>3
<1>31. CASE \E e \in Entries, linked \in BOOLEAN : Publish(e, linked)
  <2>1. WaveHolds'  BY <1>31 DEF Publish, LinkedWith
  <2>2. RecoverableHolds'  BY <1>31 DEF Publish, LinkedWith
  <2>3. RunHolds'  BY <1>31 DEF Publish, LinkedWith
  <2> QED  BY <2>1, <2>2, <2>3
<1>32. CASE \E e \in Entries : Alter(e)
  <2>1. WaveHolds'  BY <1>32 DEF Alter
  <2>2. RecoverableHolds'  BY <1>32 DEF Alter
  <2>3. RunHolds'  BY <1>32 DEF Alter
  <2> QED  BY <2>1, <2>2, <2>3
<1>33. CASE Die
  <2>1. WaveHolds'  BY <1>33 DEF Die
  <2>2. RecoverableHolds'  BY <1>33 DEF Die
  <2>3. RunHolds'  BY <1>33 DEF Die
  <2> QED  BY <2>1, <2>2, <2>3
<1>34. CASE PowerLoss
  <2>1. WaveHolds'  BY <1>34 DEF PowerLoss
  <2>2. RecoverableHolds'  BY <1>34 DEF PowerLoss
  <2>3. RunHolds'  BY <1>34 DEF PowerLoss
  <2> QED  BY <2>1, <2>2, <2>3
<1>35. CASE UNCHANGED vars  BY <1>35 DEF vars
<1> HIDE DEF AcceptedInv, WaveHolds, RecoverableHolds, RunHolds, WaveInv, Recoverable, RunInv,
             Undisturbed, Untouched, Sound, TypeOK, WholeInv, DirInv, ProcInv, StepInv, CurInv,
             BatchInv, Verified, Process, Files, Places, Steps, Handling, Moved, Dropping,
             Removing, Quarantining, Unlinking, Emptied, OfWaves, trees, names, others, At, AtIn,
             Goto, Has, Link, LinkSync, Settled, SyncPlanDirectory, SyncPlan, Drop, Move, Intact,
             InTrash, Refuse, Between
<1> QED
  BY <1>1, <1>2, <1>3, <1>4, <1>5, <1>6, <1>7, <1>8, <1>9, <1>10, <1>11, <1>12, <1>13,
     <1>14, <1>15, <1>16, <1>17, <1>18, <1>19, <1>20, <1>21, <1>22, <1>23, <1>24, <1>25,
     <1>26, <1>27, <1>28, <1>29, <1>30, <1>31, <1>32, <1>33, <1>34, <1>35 DEF Next, Wave,
     Recovery, Removal, DropMarkers

LEMMA InitSound == Init => Sound
<1> SUFFICES ASSUME Init PROVE Sound
  OBVIOUS
<1>1. faults \in [death : 0..MaxDeaths, power : 0..MaxPowerLosses,
                 alteration : 0..MaxAlterations, link : 0..MaxLinks]
  BY SharingAssumption DEF Init
<1>2. TypeOK
  BY <1>1 DEF Init, TypeOK, Files, Places
<1>3. WholeInv /\ DirInv /\ ProcInv
  BY DEF Init, WholeInv, DirInv, ProcInv, Verified
<1> QED
  BY <1>2, <1>3 DEF Sound

-----------------------------------------------------------------------------
\* No failure at any moment, and no sequence of them, puts a tree back under its key from which
\* something was unlinked, nor is a key published over a tree that is still there.
THEOREM Wholeness == Spec => []EntriesAreWhole
<1>1. Init => Sound
  BY InitSound
<1>2. Sound /\ [Next]_vars => Sound'
  BY SoundStep
<1>3. Sound => EntriesAreWhole
  BY DEF Sound, TypeOK, WholeInv, EntriesAreWhole, CanonicalIsWhole
<1> QED
  BY <1>1, <1>2, <1>3, PTL DEF Spec

\* A tree that was altered before its comparison is never unlinked, whatever fails.
THEOREM AlteredStays == Spec => []AlteredIsKept
<1>1. Init => Sound /\ AlteredInv
  BY InitSound DEF Init, AlteredInv, AlteredIsKept, At, AtIn
<1>2. Sound /\ AlteredInv /\ [Next]_vars => (Sound /\ AlteredInv)'
  BY SoundStep, AlteredStep
<1>3. AlteredInv => AlteredIsKept
  BY DEF AlteredInv
<1> QED
  BY <1>1, <1>2, <1>3, PTL DEF Spec

\* A wave accepts its own work while nobody touches the payloads, and a recovery accepts what a
\* wave left behind, after any number of power losses.
THEOREM OwnWork == Spec => []OwnWorkIsAccepted
<1>1. Init => Sound /\ AcceptedInv
  BY InitSound
  DEF Init, AcceptedInv, WaveHolds, RecoverableHolds, RunHolds, Recoverable, Verified
<1>2. Sound /\ AcceptedInv /\ [Next]_vars => (Sound /\ AcceptedInv)'
  BY SoundStep, AcceptedStep
<1>3. ASSUME Sound, AcceptedInv
      PROVE  OwnWorkIsAccepted
  <2>1. ASSUME Untouched, At("marker") \/ AtIn("sweep", "compare")
        PROVE  Intact(proc.cur)
    BY <1>3, <2>1 DEF Sound, TypeOK, Process, WholeInv, ProcInv, StepInv, CurInv, AcceptedInv,
       WaveHolds, WaveInv, At, AtIn, Intact, Quarantining, Handling, Moved, OfWaves
  <2>2. Undisturbed => ~refused
    BY <1>3 DEF AcceptedInv, RecoverableHolds, Recoverable
  <2> QED
    BY <2>1, <2>2 DEF OwnWorkIsAccepted, Undisturbed
<1> QED
  BY <1>1, <1>2, <1>3, PTL DEF Spec

-----------------------------------------------------------------------------
(***************************************************************************)
(* What a sweep retains, for any entries that refer to each other as those *)
(* of the cache do, and any snapshots, watermark and bound.  Wherever a    *)
(* wave breaks off, an entry that can be read and has what it refers to    *)
(* pins all of that (Pins): the rest of the invariant says that the        *)
(* inventory of a run knows those entries.                                 *)
(***************************************************************************)
Untainted(o) == ({o} \cup Retention!Under(o)) \cap invalid = {}

RetainedTypes ==
    /\ present \subseteq Objects /\ invalid \subseteq present
    /\ recent \subseteq present /\ snapshots \subseteq Snapshots
    /\ run \in Retention!Run \cup {None} /\ blocked \in BOOLEAN

\* Only what older clean-ups left may lack what it refers to, and what is recent was published
\* after all of it.
NeedsMet ==
    \A o \in present :
        Untainted(o) /\ (Kind[o] \notin Retention!MayLack \/ o \in recent) =>
            Refs[o] \subseteq present

\* The inventory of the run at work, as the steps that removed something since left it.
InventoryInv ==
    run # None =>
        /\ present \subseteq run.inv /\ run.auth \subseteq run.inv
        /\ run.phase # "wave" => run.inv = present /\ run.doomed = {}
        /\ recent \subseteq run.recent
        /\ run.live \subseteq snapshots /\ \A s \in snapshots : Retention!Live(s) => s \in run.live
        /\ run.phase = "exhausted" => Retention!Candidates(run) = {}

\* Whose entries the run authenticated: all that can be read with what they are read with.
AuthInv ==
    run # None =>
        /\ run.auth \cap invalid = {}
        /\ \A o \in present :
              Untainted(o) => \/ o \in run.auth
                              \/ /\ Kind[o] \in {"certificate", "package"}
                                 /\ ~(Retention!Under(o) \subseteq present)
        /\ \A o \in run.auth \cap present :
              Kind[o] \in {"certificate", "package"} =>
                  Untainted(o) /\ Retention!Under(o) \subseteq present

\* What a plan keeps whatever becomes of the entries that it takes.
Bearing(r) == {o \in r.auth : Kind[o] # "certificate" /\ ~Retention!Orphaned(o, r)}
Firm(r) ==
    Retention!KeptByRoots(r) \cup Retention!UnderAll(Bearing(r))
        \cup ((UNION {Refs[c] : c \in Retention!OfKind("certificate", r.inv)}) \cap r.auth)

TakenInv ==
    run # None => run.doomed \subseteq (run.auth \cap present) \ Firm(run)

\* While nothing is corrupt, a snapshot has all that it names.
SnapshotInv ==
    invalid = {} =>
        \A s \in snapshots :
            SnapshotRoots[s] \cup Retention!UnderAll(SnapshotRoots[s]) \subseteq present

RetentionInv ==
    /\ RetainedTypes /\ NeedsMet /\ InventoryInv /\ AuthInv /\ TakenInv /\ SnapshotInv /\ ~blocked

-----------------------------------------------------------------------------
(* The entries and what they refer to.                                     *)

LEMMA Referred ==
    ASSUME NEW o \in Objects
    PROVE  /\ Refs[o] \subseteq Retention!Under(o) /\ Retention!Under(o) \subseteq Objects
           /\ \A d \in Refs[o] : Kind[d] \in Retention!RefersTo[Kind[o]]
           /\ Kind[o] \in Retention!Kinds
BY ObjectAssumption DEF Retention!ObjectAssumption, Retention!Under

\* Artifacts and bundles refer to nothing; what records and packages refer to is one level deep.
LEMMA Levels ==
    ASSUME NEW o \in Objects
    PROVE  /\ Kind[o] \in {"artifact", "bundle"} => Refs[o] = {} /\ Retention!Under(o) = {}
           /\ Kind[o] \in {"record", "package"} => Retention!Under(o) = Refs[o]
           /\ Kind[o] = "certificate" => \A d \in Refs[o] : Kind[d] = "package"
           /\ Kind[o] = "topology" => \A d \in Refs[o] : Kind[d] = "record"
           /\ Kind[o] = "capsule" => \A d \in Refs[o] : Kind[d] \in {"topology", "record"}
           /\ Kind[o] \in {"record", "package"} =>
                 \A d \in Refs[o] : Kind[d] \in {"artifact", "bundle"}
<1>1. \A d \in Objects : \A x \in Refs[d] : x \in Objects /\ Kind[x] \in Retention!RefersTo[Kind[d]]
  BY ObjectAssumption DEF Retention!ObjectAssumption
<1>2. \A d \in Objects : Kind[d] \in {"artifact", "bundle"} => Refs[d] = {}
  BY <1>1 DEF Retention!RefersTo
<1> QED
  BY <1>1, <1>2 DEF Retention!RefersTo, Retention!Under

\* What is under an entry, by the kind of the entry.
LEMMA UnderKinds ==
    ASSUME NEW o \in Objects, NEW d \in Retention!Under(o)
    PROVE  /\ d \in Objects /\ Kind[d] \notin {"certificate", "capsule"}
           /\ Kind[d] = "package" => Kind[o] = "certificate" /\ d \in Refs[o]
           /\ Kind[d] = "topology" => Kind[o] = "capsule" /\ d \in Refs[o]
           /\ Kind[d] = "record" => Kind[o] \in {"topology", "capsule"} /\ d \in Refs[o]
<1>1. d \in Objects
  BY Referred
<1>2. CASE d \in Refs[o]
  BY <1>1, <1>2, Levels, Referred DEF Retention!Kinds
<1>3. ASSUME NEW x \in Refs[o], d \in Refs[x]
      PROVE  /\ Kind[d] \notin {"certificate", "capsule", "package", "topology"}
             /\ Kind[d] = "record" => Kind[o] = "capsule" /\ d \in Refs[o]
  <2>1. x \in Objects
    BY Referred
  <2>2. Kind[x] = "topology" /\ Kind[o] = "capsule" => Refs[x] \subseteq Refs[o]
    BY ObjectAssumption DEF Retention!ObjectAssumption, Retention!OfKind
  <2>3. Kind[x] \in {"package", "record", "topology"}
    BY <1>3, <2>1, Levels, Referred DEF Retention!Kinds
  <2>4. Kind[x] = "topology" => Kind[o] = "capsule"
    BY <2>1, Levels, Referred DEF Retention!Kinds
  <2> QED
    BY <1>3, <2>1, <2>2, <2>3, <2>4, Levels
<1> QED
  BY <1>1, <1>2, <1>3 DEF Retention!Under

\* There is no third level.
LEMMA UnderUnder ==
    ASSUME NEW o \in Objects, NEW d \in Retention!Under(o)
    PROVE  Retention!Under(d) \subseteq Retention!Under(o)
<1>1. d \in Objects
  BY Referred
<1>2. CASE Kind[d] \in {"artifact", "bundle"}
  BY <1>1, <1>2, Levels
<1>3. CASE Kind[d] \in {"record", "package"}
  BY <1>1, <1>3, Levels, UnderKinds DEF Retention!Under
<1>4. CASE Kind[d] = "topology"
  <2>1. Kind[o] = "capsule" /\ d \in Refs[o]
    BY <1>4, UnderKinds
  <2>2. Refs[d] \subseteq Refs[o]
    BY <1>4, <2>1, ObjectAssumption DEF Retention!ObjectAssumption, Retention!OfKind
  <2> QED
    BY <2>2 DEF Retention!Under
<1> QED
  BY <1>1, <1>2, <1>3, <1>4, UnderKinds, Referred DEF Retention!Kinds

\* An entry that can be read and has what it refers to has all that it needs.
LEMMA Reaches ==
    ASSUME RetainedTypes, NeedsMet, NEW o \in present, Untainted(o), Refs[o] \subseteq present
    PROVE  Retention!Under(o) \subseteq present
<1> USE DEF RetainedTypes
<1>1. ASSUME NEW d \in Refs[o]
      PROVE  Refs[d] \subseteq present
  <2>1. d \in present /\ d \in Retention!Under(o) /\ d \in Objects
    BY Referred
  <2>2. Untainted(d)
    BY <2>1, UnderUnder DEF Untainted
  <2>3. CASE Kind[d] \notin Retention!MayLack
    BY <2>1, <2>2, <2>3 DEF NeedsMet
  <2>4. CASE Kind[d] \in Retention!MayLack
    <3>1. Kind[d] = "topology" /\ Kind[o] = "capsule"
      BY <2>1, <2>4, UnderKinds DEF Retention!MayLack
    <3> QED
      BY <3>1, ObjectAssumption DEF Retention!ObjectAssumption, Retention!OfKind
  <2> QED
    BY <2>3, <2>4
<1> QED
  BY <1>1 DEF Retention!Under

\* Such an entry was authenticated by the run that finds it.
LEMMA IsAuthenticated ==
    ASSUME RetentionInv, run # None, NEW o \in present, Untainted(o), Refs[o] \subseteq present
    PROVE  o \in run.auth
BY Reaches DEF RetentionInv, AuthInv

\* And it keeps what it needs from the wave at work.
LEMMA Pins ==
    ASSUME RetentionInv, run # None, NEW o \in present, Untainted(o), Refs[o] \subseteq present
    PROVE  Retention!Under(o) \cap run.doomed = {}
<1> USE DEF RetentionInv, RetainedTypes
<1>1. ASSUME NEW d \in present, Untainted(d), Refs[d] \subseteq present, Kind[d] # "certificate"
      PROVE  Retention!Under(d) \cap run.doomed = {}
  <2>1. d \in run.auth
    BY <1>1, IsAuthenticated
  <2>2. d \in Bearing(run)
    BY <1>1, <2>1 DEF Bearing, Retention!Orphaned, InventoryInv
  <2>3. Retention!Under(d) \subseteq Firm(run)
    BY <2>2 DEF Firm, Retention!UnderAll
  <2> QED
    BY <2>3 DEF TakenInv
<1>2. CASE Kind[o] = "certificate"
  <2>1. Refs[o] \cap run.doomed = {}
    <3>1. o \in Retention!OfKind("certificate", run.inv)
      BY <1>2 DEF InventoryInv, Retention!OfKind
    <3>2. Refs[o] \subseteq UNION {Refs[c] : c \in Retention!OfKind("certificate", run.inv)}
      BY <3>1
    <3>3. Refs[o] \cap run.auth \subseteq Firm(run)
      BY <3>2 DEF Firm
    <3> QED
      BY <3>3 DEF TakenInv
  <2>2. ASSUME NEW p \in Refs[o]
        PROVE  Refs[p] \cap run.doomed = {}
    <3>1. p \in present /\ p \in Objects /\ p \in Retention!Under(o) /\ Kind[p] = "package"
      BY <1>2, Referred, Levels
    <3>2. Untainted(p)
      BY <3>1, UnderUnder DEF Untainted
    <3>3. Refs[p] \subseteq present
      BY Reaches, <3>1 DEF Retention!Under
    <3>4. Retention!Under(p) \cap run.doomed = {}
      BY <1>1, <3>1, <3>2, <3>3
    <3> QED
      BY <3>1, <3>4, Referred
  <2> QED
    BY <2>1, <2>2 DEF Retention!Under
<1> QED
  BY <1>1, <1>2

\* What a live snapshot names, and what is recent, is not taken.
LEMMA RootsStay ==
    ASSUME RetentionInv, run # None
    PROVE  /\ recent \cap run.doomed = {}
           /\ \A s \in snapshots : Retention!Live(s) =>
                 (SnapshotRoots[s] \cup Retention!UnderAll(SnapshotRoots[s])) \cap run.doomed = {}
<1> USE DEF RetentionInv
<1>1. Retention!Roots(run) \subseteq Firm(run)
  BY DEF Firm, Retention!KeptByRoots, Retention!WithLayouts
<1>2. recent \cap run.auth \subseteq Retention!Roots(run)
  <2>1. recent \subseteq run.recent
    BY DEF InventoryInv
  <2> QED
    BY <2>1 DEF Retention!Roots
<1>3. ASSUME NEW s \in snapshots, Retention!Live(s)
      PROVE  SnapshotRoots[s] \cup Retention!UnderAll(SnapshotRoots[s]) \subseteq Firm(run)
  <2>1. SnapshotRoots[s] \subseteq Retention!Roots(run)
    BY <1>3 DEF InventoryInv, Retention!Roots
  <2>2. \A o \in SnapshotRoots[s] : ~Retention!Orphaned(o, run)
    BY ObjectAssumption DEF Retention!ObjectAssumption, Retention!Orphaned, RetainedTypes
  <2>3. Retention!UnderAll(SnapshotRoots[s]) \subseteq Retention!KeptByRoots(run)
    BY <2>1, <2>2 DEF Retention!UnderAll, Retention!KeptByRoots, Retention!WithLayouts
  <2> QED
    BY <1>1, <2>1, <2>3 DEF Firm
<1> QED
  BY <1>1, <1>2, <1>3 DEF TakenInv

-----------------------------------------------------------------------------
(* No run is blocked.                                                      *)

\* With nothing corrupt, all but certificates can be read, and a certificate that lacks nothing.
LEMMA SoundIsRead ==
    ASSUME RetainedTypes, NeedsMet, invalid = {}, NEW o \in present
    PROVE  /\ \/ Kind[o] \in {"certificate", "topology", "capsule"}
              \/ Retention!Under(o) \subseteq present
           /\ Refs[o] \subseteq present => Retention!Under(o) \subseteq present
           /\ Kind[o] # "certificate" \/ Refs[o] \subseteq present => o \in Retention!Authenticated
<1>1. Untainted(o)
  BY DEF Untainted
<1>2. Refs[o] \subseteq present => Retention!Under(o) \subseteq present
  BY <1>1, Reaches
<1>3. Kind[o] \notin Retention!MayLack => Retention!Under(o) \subseteq present
  BY <1>1, <1>2 DEF NeedsMet
<1> QED
  BY <1>2, <1>3 DEF Retention!MayLack, Retention!Authenticated, Retention!Readable

LEMMA Collects ==
    ASSUME RetentionInv, invalid = {}
    PROVE  ~Retention!CollectFails
<1> USE DEF RetentionInv, RetainedTypes
<1>1. ASSUME NEW o \in Retention!Authenticated
      PROVE  /\ Kind[o] = "record" => \A d \in Refs[o] : Retention!Readable(d)
             /\ \A d \in Refs[o] : d \notin invalid
  <2>1. o \in present
    BY DEF Retention!Authenticated
  <2> QED
    BY <2>1, SoundIsRead, Referred DEF Retention!Readable
<1>2. \A o \in present : Kind[o] = "package" => o \in Retention!Authenticated
  BY SoundIsRead
<1>3. ASSUME NEW o \in present \ Retention!Authenticated
      PROVE  Kind[o] = "certificate" /\ Retention!Incomplete(o)
  <2>1. Kind[o] = "certificate" /\ ~(Refs[o] \subseteq present)
    BY SoundIsRead
  <2>2. \A p \in Refs[o] : Kind[p] = "package"
    BY <2>1, Levels
  <2> QED
    BY <1>2, <2>1, <2>2 DEF Retention!Incomplete, Retention!Readable
<1>4. ~(\E o \in present \ Retention!Authenticated :
          \/ Kind[o] = "capsule"
          \/ o \in recent /\ ~(Kind[o] = "certificate" /\ Retention!Incomplete(o)))
  BY <1>3
<1> QED
  BY <1>1, <1>2, <1>4 DEF Retention!CollectFails

\* All that a plan keeps was authenticated.
LEMMA PlanIsKept ==
    ASSUME RetentionInv, invalid = {}, run # None, run.phase = "plan"
    PROVE  Retention!Kept(run) \subseteq run.auth
<1> USE DEF RetentionInv, RetainedTypes
<1>1. run.inv = present /\ run.auth \subseteq present
  BY DEF InventoryInv
<1>2. ASSUME NEW o \in present, Kind[o] # "certificate"
      PROVE  o \in run.auth
  BY <1>2, SoundIsRead DEF AuthInv, Untainted
<1>3. ASSUME NEW o \in present, ~Retention!Orphaned(o, run),
             Kind[o] = "certificate" => Retention!Under(o) \subseteq present
      PROVE  Retention!Under(o) \subseteq run.auth
  <2>1. Retention!Under(o) \subseteq present
    BY <1>1, <1>3, SoundIsRead DEF Retention!Orphaned
  <2> QED
    BY <1>2, <2>1, UnderKinds
<1>4. ASSUME NEW o \in run.auth
      PROVE  Kind[o] = "certificate" => Retention!Under(o) \subseteq present
  BY <1>1 DEF AuthInv
<1>5. ASSUME NEW s \in run.live
      PROVE  /\ SnapshotRoots[s] \subseteq run.auth
             /\ \A o \in SnapshotRoots[s] : Retention!Under(o) \subseteq present
  <2>1. SnapshotRoots[s] \cup Retention!UnderAll(SnapshotRoots[s]) \subseteq present
    BY DEF InventoryInv, SnapshotInv
  <2>2. \A o \in SnapshotRoots[s] : Retention!Under(o) \subseteq present
    BY <2>1 DEF Retention!UnderAll
  <2> QED
    BY <1>2, <2>1, <2>2 DEF AuthInv, Untainted
<1>6. Retention!Roots(run) \subseteq run.auth
  <2>1. UNION {SnapshotRoots[s] : s \in run.live} \subseteq run.auth
    BY <1>5
  <2> QED
    BY <2>1 DEF Retention!Roots
<1>7. Retention!UnderAll({o \in Retention!Roots(run) : ~Retention!Orphaned(o, run)})
         \subseteq run.auth
  <2>1. ASSUME NEW o \in Retention!Roots(run), ~Retention!Orphaned(o, run)
        PROVE  Retention!Under(o) \subseteq run.auth
    BY <1>1, <1>3, <1>4, <1>6, <2>1
  <2> QED
    BY <2>1 DEF Retention!UnderAll
<1>8. Retention!Pinned(run) \subseteq run.auth
  BY <1>1, <1>3 DEF Retention!Pinned, Retention!UnderAll, Retention!OfKind
<1>9. ASSUME NEW S \in SUBSET run.auth
      PROVE  Retention!WithLayouts(S, run) \subseteq run.auth
  <2>1. \A o \in S : Layouts[o] \cap run.inv \subseteq run.auth
    BY <1>1, <1>2, ObjectAssumption DEF Retention!ObjectAssumption
  <2> QED
    BY <2>1 DEF Retention!WithLayouts, Retention!OfKind
<1>10. Retention!KeptByRoots(run) \subseteq run.auth
  BY <1>6, <1>7, <1>9 DEF Retention!KeptByRoots
<1> QED
  BY <1>8, <1>9, <1>10 DEF Retention!Kept

\* The waves of one run take everything that nothing keeps: an entry that pins another is kept
\* itself, and so on up to the roots.
LEMMA Clean ==
    ASSUME RetentionInv, run # None, run.phase = "exhausted", present \subseteq run.auth
    PROVE  present \subseteq Retention!KeptByRoots(run)
<1> USE DEF RetentionInv, RetainedTypes
<1> DEFINE held == Retention!KeptByRoots(run)
<1> DEFINE roots == Retention!Roots(run)
<1>1. run.inv = present /\ run.auth = present /\ Retention!Candidates(run) = {}
  BY DEF InventoryInv
<1>2. present \subseteq Retention!Kept(run)
  BY <1>1 DEF Retention!Candidates
<1>3. ASSUME NEW S, NEW o \in Retention!WithLayouts(S, run), S \subseteq Objects
      PROVE  /\ o \in Objects
             /\ \/ o \in S
                \/ /\ Kind[o] = "artifact"
                   /\ \E b \in S : Kind[b] = "bundle" /\ o \in Layouts[b] \cap run.inv
  BY <1>3, ObjectAssumption
     DEF Retention!ObjectAssumption, Retention!WithLayouts, Retention!OfKind
<1>4. roots \subseteq Objects
  <2>1. \A s \in run.live : SnapshotRoots[s] \subseteq Objects
    BY ObjectAssumption DEF Retention!ObjectAssumption, InventoryInv
  <2> QED
    BY <1>1, <2>1 DEF Retention!Roots
<1>5. ASSUME NEW x \in roots, ~Retention!Orphaned(x, run)
      PROVE  Retention!Under(x) \subseteq held
  BY <1>5 DEF Retention!KeptByRoots, Retention!WithLayouts, Retention!UnderAll
<1>6. roots \subseteq held
  BY DEF Retention!KeptByRoots, Retention!WithLayouts
<1>7. ASSUME NEW o \in held
      PROVE  \/ o \in roots
             \/ \E x \in roots : ~Retention!Orphaned(x, run) /\ o \in Retention!Under(x)
             \/ Kind[o] = "artifact"
  <2>1. Retention!UnderAll({x \in roots : ~Retention!Orphaned(x, run)}) \subseteq Objects
    BY <1>4, Referred DEF Retention!UnderAll
  <2>2. \/ o \in roots \cup Retention!UnderAll({x \in roots : ~Retention!Orphaned(x, run)})
        \/ Kind[o] = "artifact"
    BY <1>3, <1>4, <2>1 DEF Retention!KeptByRoots
  <2> QED
    BY <2>2 DEF Retention!UnderAll
<1>8. ASSUME NEW x \in held, x \in Objects, ~Retention!Orphaned(x, run)
      PROVE  Retention!Under(x) \subseteq held
  <2>1. CASE x \in roots
    BY <1>5, <1>8, <2>1
  <2>2. ASSUME NEW y \in roots, ~Retention!Orphaned(y, run), x \in Retention!Under(y)
        PROVE  Retention!Under(x) \subseteq held
    BY <1>4, <1>5, <2>2, UnderUnder
  <2>3. CASE Kind[x] = "artifact"
    BY <1>8, <2>3, Levels
  <2> QED
    BY <1>7, <1>8, <2>1, <2>2, <2>3
\* Nothing pins a certificate or a capsule.
<1>9. ASSUME NEW o \in Retention!Pinned(run)
      PROVE  /\ o \in Objects /\ Kind[o] \notin {"certificate", "capsule"}
             /\ \/ \E x \in present : /\ Kind[x] # "certificate" /\ ~Retention!Orphaned(x, run)
                                      /\ o \in Retention!Under(x)
                \/ \E x \in present : Kind[x] = "certificate" /\ o \in Refs[x]
  <2>1. \/ \E x \in present : /\ Kind[x] # "certificate" /\ ~Retention!Orphaned(x, run)
                              /\ o \in Retention!Under(x)
        \/ \E x \in present : Kind[x] = "certificate" /\ o \in Refs[x]
    BY <1>1 DEF Retention!Pinned, Retention!UnderAll, Retention!OfKind
  <2> QED
    BY <2>1, UnderKinds, Referred
<1>10. ASSUME NEW o \in Objects, o \in Retention!Kept(run)
       PROVE  \/ o \in held \cup Retention!Pinned(run)
              \/ /\ Kind[o] = "artifact"
                 /\ \E b \in held \cup Retention!Pinned(run) :
                       Kind[b] = "bundle" /\ o \in Layouts[b] \cap run.inv
  <2>1. held \subseteq Objects
    <3>1. Retention!UnderAll({x \in roots : ~Retention!Orphaned(x, run)}) \subseteq Objects
      BY <1>4, Referred DEF Retention!UnderAll
    <3>2. roots \cup Retention!UnderAll({x \in roots : ~Retention!Orphaned(x, run)})
             \subseteq Objects
      BY <1>4, <3>1
    <3>3. ASSUME NEW x \in held
          PROVE  x \in Objects
      BY <1>3, <3>2, <3>3 DEF Retention!KeptByRoots
    <3> QED
      BY <3>3
  <2> QED
    BY <1>3, <1>9, <1>10, <2>1 DEF Retention!Kept
<1>11. ASSUME NEW o \in present, Kind[o] \in {"certificate", "capsule"}
       PROVE  o \in held
  BY <1>2, <1>9, <1>10, <1>11
<1>12. ASSUME NEW o \in Retention!Pinned(run), Kind[o] \in {"package", "topology"}
       PROVE  o \in held
  <2>1. PICK x \in present : o \in Retention!Under(x) /\ ~Retention!Orphaned(x, run)
    BY <1>9, Referred DEF Retention!Orphaned
  <2>2. Kind[x] \in {"certificate", "capsule"}
    BY <1>12, <2>1, UnderKinds
  <2> QED
    BY <1>8, <1>11, <2>1, <2>2
<1>13. ASSUME NEW o \in present, Kind[o] \in {"package", "topology"}
       PROVE  o \in held
  BY <1>2, <1>10, <1>12, <1>13
<1>14. ASSUME NEW o \in Retention!Pinned(run), Kind[o] = "record"
       PROVE  o \in held
  <2>1. PICK x \in present : o \in Retention!Under(x) /\ ~Retention!Orphaned(x, run)
    BY <1>9, Referred DEF Retention!Orphaned
  <2>2. Kind[x] \in {"topology", "capsule"}
    BY <1>14, <2>1, UnderKinds
  <2> QED
    BY <1>8, <1>11, <1>13, <2>1, <2>2
<1>15. ASSUME NEW o \in present, Kind[o] = "record"
       PROVE  o \in held
  BY <1>2, <1>10, <1>14, <1>15
<1>16. ASSUME NEW o \in Retention!Pinned(run)
       PROVE  o \in held
  <2>1. PICK x \in present : o \in Retention!Under(x) /\ ~Retention!Orphaned(x, run)
    BY <1>9, Referred DEF Retention!Orphaned
  <2>2. Kind[x] \notin {"artifact", "bundle"}
    BY <2>1, Levels
  <2>3. x \in held
    BY <1>11, <1>13, <1>15, <2>2, Referred DEF Retention!Kinds
  <2> QED
    BY <1>8, <2>1, <2>3
<1>17. ASSUME NEW b \in held, Kind[b] = "bundle"
       PROVE  Layouts[b] \cap run.inv \subseteq held
  <2>1. b \in roots \cup Retention!UnderAll({x \in roots : ~Retention!Orphaned(x, run)})
    BY <1>7, <1>17 DEF Retention!UnderAll
  <2> QED
    BY <1>17, <2>1 DEF Retention!KeptByRoots, Retention!WithLayouts, Retention!OfKind
<1> QED
  BY <1>2, <1>10, <1>16, <1>17

-----------------------------------------------------------------------------
(* The steps.                                                              *)

\* Builds, time and rot, while no run is at work.
LEMMA BuildSteps ==
    ASSUME RetentionInv,
           \/ \E o \in Objects : Retention!Publish(o) \/ Retention!Age(o) \/ Retention!Corrupt(o)
           \/ \E s \in Snapshots : Retention!RecordSuccess(s)
    PROVE  RetentionInv'
<1> USE DEF RetentionInv, RetainedTypes
<1>1. run = None /\ run' = None /\ blocked' = blocked
  BY DEF Retention!Publish, Retention!Age, Retention!Corrupt, Retention!RecordSuccess
<1>2. InventoryInv' /\ AuthInv' /\ TakenInv'
  BY <1>1 DEF InventoryInv, AuthInv, TakenInv
<1>3. ASSUME NEW o \in Objects, Retention!Publish(o)
      PROVE  RetainedTypes' /\ NeedsMet' /\ SnapshotInv'
  <2>1. RetainedTypes'
    BY <1>1, <1>3 DEF Retention!Publish
  <2>2. NeedsMet'
    BY <1>3 DEF Retention!Publish, NeedsMet, Untainted
  <2>3. SnapshotInv'
    BY <1>3 DEF Retention!Publish, SnapshotInv
  <2> QED
    BY <2>1, <2>2, <2>3
<1>4. ASSUME NEW o \in Objects, Retention!Age(o) \/ Retention!Corrupt(o)
      PROVE  RetainedTypes' /\ NeedsMet' /\ SnapshotInv'
  BY <1>1, <1>4 DEF Retention!Age, Retention!Corrupt, NeedsMet, Untainted, SnapshotInv
<1>5. ASSUME NEW s \in Snapshots, Retention!RecordSuccess(s)
      PROVE  RetainedTypes' /\ NeedsMet' /\ SnapshotInv'
  <2>1. PICK T \in SUBSET snapshots : snapshots' = T \cup {s}
    BY <1>5 DEF Retention!RecordSuccess
  <2>2. UNCHANGED <<present, invalid, recent>>
    BY <1>5 DEF Retention!RecordSuccess
  <2>3. SnapshotRoots[s] \cup Retention!UnderAll(SnapshotRoots[s]) \subseteq present \ invalid
    BY <1>5 DEF Retention!RecordSuccess
  <2>4. SnapshotInv'
    BY <2>1, <2>2, <2>3 DEF SnapshotInv, Retention!UnderAll
  <2> QED
    BY <1>1, <2>1, <2>2, <2>4 DEF NeedsMet, Untainted
<1> QED
  BY <1>1, <1>2, <1>3, <1>4, <1>5

\* A run takes its inventory.
LEMMA StartStep ==
    ASSUME RetentionInv, Retention!StartRun
    PROVE  RetentionInv'
<1> USE DEF RetentionInv, RetainedTypes, Retention!StartRun
<1>1. UNCHANGED <<present, invalid, recent, snapshots>>
  OBVIOUS
<1>2. ~blocked'
  BY Collects
<1>3. NeedsMet' /\ SnapshotInv'
  BY <1>1 DEF NeedsMet, Untainted, SnapshotInv, Retention!UnderAll
<1>4. CASE Retention!CollectFails
  BY <1>1, <1>2, <1>3, <1>4 DEF InventoryInv, AuthInv, TakenInv
<1>5. CASE ~Retention!CollectFails
  <2>1. run' = [inv |-> present, auth |-> Retention!Authenticated, recent |-> recent,
                live |-> {s \in snapshots : Retention!Live(s)}, doomed |-> {}, phase |-> "plan"]
    BY <1>5
  <2>2. Retention!Authenticated \subseteq present \ invalid
    BY DEF Retention!Authenticated, Retention!Readable
  <2>3. run' \in Retention!Run
    BY <2>1, <2>2 DEF Retention!Run
  <2>4. InventoryInv'
    BY <1>1, <2>1, <2>2 DEF InventoryInv, Retention!Live
  <2>5. AuthInv'
    <3>1. \A o \in present :
             Untainted(o) /\ (Kind[o] \in {"certificate", "package"}
                                => Retention!Under(o) \subseteq present)
                 => o \in Retention!Authenticated
      BY DEF Untainted, Retention!Authenticated, Retention!Readable
    <3>2. \A o \in Retention!Authenticated :
             Kind[o] \in {"certificate", "package"} =>
                 Untainted(o) /\ Retention!Under(o) \subseteq present
      BY DEF Untainted, Retention!Authenticated, Retention!Readable
    <3> QED
      BY <1>1, <2>1, <2>2, <3>1, <3>2 DEF AuthInv, Untainted
  <2>6. TakenInv'
    BY <2>1 DEF TakenInv
  <2> QED
    BY <1>1, <1>2, <1>3, <2>3, <2>4, <2>5, <2>6
<1> QED
  BY <1>4, <1>5

\* A plan keeps what it must, and fails for a bound only.
LEMMA PlanStep ==
    ASSUME RetentionInv, Retention!DerivePlan
    PROVE  RetentionInv'
<1> USE DEF RetentionInv, RetainedTypes
<1>1. UNCHANGED <<present, invalid, recent, snapshots>> /\ run # None /\ run.phase = "plan"
  BY DEF Retention!DerivePlan
<1>2. blocked' \in BOOLEAN /\ ~blocked'
  BY <1>1, PlanIsKept DEF Retention!DerivePlan, Retention!PlanFails
<1>3. NeedsMet' /\ SnapshotInv'
  BY <1>1 DEF NeedsMet, Untainted, SnapshotInv
<1>4. CASE run' = None
  BY <1>1, <1>2, <1>3, <1>4 DEF InventoryInv, AuthInv, TakenInv
<1>5. ASSUME NEW phase \in {"wave", "exhausted", "reached"},
             NEW S \in SUBSET Retention!Candidates(run),
             run' = [run EXCEPT !.phase = phase, !.doomed = S],
             phase # "wave" => S = {}, phase = "exhausted" => Retention!Candidates(run) = {}
      PROVE  RetentionInv'
  <2>1. run \in Retention!Run /\ run.inv = present /\ run.auth \subseteq present
    BY <1>1 DEF InventoryInv
  <2>2. Retention!Candidates(run) \subseteq run.auth
    BY DEF Retention!Candidates
  <2>3. /\ run' \in Retention!Run
        /\ run'.inv = run.inv /\ run'.auth = run.auth /\ run'.recent = run.recent
        /\ run'.live = run.live /\ run'.phase = phase /\ run'.doomed = S
    BY <1>5, <2>1, <2>2 DEF Retention!Run
  <2>4. Retention!Candidates(run)' = Retention!Candidates(run)
    BY <1>1, <2>3
       DEF Retention!Candidates, Retention!Kept, Retention!Pinned, Retention!KeptByRoots,
           Retention!Roots, Retention!WithLayouts, Retention!Orphaned, Retention!OfKind,
           Retention!Incomplete, Retention!Readable, Retention!Authenticated
  <2>5. Firm(run)' = Firm(run)
    BY <2>3 DEF Firm, Bearing, Retention!KeptByRoots, Retention!Roots, Retention!WithLayouts,
                Retention!Orphaned, Retention!OfKind
  <2>6. Firm(run) \subseteq Retention!Kept(run)
    BY DEF Firm, Bearing, Retention!Kept, Retention!Pinned, Retention!WithLayouts
  <2>7. InventoryInv'
    BY <1>1, <1>5, <2>3, <2>4 DEF InventoryInv, Retention!Live
  <2>8. AuthInv'
    BY <1>1, <2>3 DEF AuthInv, Untainted
  <2>9. TakenInv'
    BY <1>1, <2>1, <2>3, <2>5, <2>6 DEF TakenInv, Retention!Candidates
  <2> QED
    BY <1>1, <1>2, <1>3, <2>3, <2>7, <2>8, <2>9
<1>6. CASE ~Retention!PlanFails(run)
  <2>1. run \in Retention!Run /\ run.doomed = {}
    BY <1>1 DEF InventoryInv
  <2>2. [run EXCEPT !.phase = "reached"] = [run EXCEPT !.phase = "reached", !.doomed = {}]
    BY <2>1 DEF Retention!Run
  <2>3. [run EXCEPT !.phase = "exhausted"] = [run EXCEPT !.phase = "exhausted", !.doomed = {}]
    BY <2>1 DEF Retention!Run
  <2>4. \/ run' = [run EXCEPT !.phase = "reached"]
        \/ Retention!Candidates(run) = {} /\ run' = [run EXCEPT !.phase = "exhausted"]
        \/ \E S \in SUBSET Retention!Candidates(run) :
              run' = [run EXCEPT !.phase = "wave", !.doomed = S]
    BY <1>6 DEF Retention!DerivePlan
  <2>5. CASE run' = [run EXCEPT !.phase = "reached"]
    <3>1. run' = [run EXCEPT !.phase = "reached", !.doomed = {}]
      BY <2>2, <2>5
    <3>2. {} \in SUBSET Retention!Candidates(run) /\ "reached" # "exhausted"
      OBVIOUS
    <3> HIDE DEF RetentionInv
    <3> QED
      BY <1>5, <3>1, <3>2
  <2>6. CASE Retention!Candidates(run) = {} /\ run' = [run EXCEPT !.phase = "exhausted"]
    <3>1. run' = [run EXCEPT !.phase = "exhausted", !.doomed = {}]
      BY <2>3, <2>6
    <3> QED
      BY <1>5, <2>6, <3>1
  <2>7. ASSUME NEW S \in SUBSET Retention!Candidates(run),
               run' = [run EXCEPT !.phase = "wave", !.doomed = S]
        PROVE  RetentionInv'
    BY <1>5, <2>7
  <2> QED
    BY <2>4, <2>5, <2>6, <2>7
<1> QED
  BY <1>4, <1>6 DEF Retention!DerivePlan

\* An entry goes, and nothing that stays has lost what it had.
LEMMA EvictStep ==
    ASSUME RetentionInv, NEW e \in Objects, Retention!Evict(e)
    PROVE  RetentionInv'
<1> USE DEF RetentionInv, RetainedTypes
<1>1. /\ run # None /\ run \in Retention!Run /\ run.phase = "wave" /\ e \in run.doomed
      /\ present' = present \ {e} /\ recent' = recent \ {e}
      /\ run' = [run EXCEPT !.doomed = @ \ {e}]
      /\ UNCHANGED <<invalid, snapshots, blocked>>
  BY DEF Retention!Evict
<1>2. /\ run' \in Retention!Run
      /\ run'.inv = run.inv /\ run'.auth = run.auth /\ run'.recent = run.recent
      /\ run'.live = run.live /\ run'.phase = "wave" /\ run'.doomed = run.doomed \ {e}
  BY <1>1 DEF Retention!Run
<1>3. e \in run.auth /\ e \notin invalid
  BY <1>1 DEF TakenInv, AuthInv
<1>4. RetainedTypes'
  BY <1>1, <1>2, <1>3
<1>5. NeedsMet'
  <2>1. ASSUME NEW o \in present', Untainted(o)', Kind[o] \notin Retention!MayLack \/ o \in recent'
        PROVE  Refs[o] \subseteq present'
    <3>1. Untainted(o) /\ o \in present /\ Refs[o] \subseteq present
      BY <1>1, <2>1 DEF NeedsMet, Untainted
    <3>2. e \notin Retention!Under(o)
      BY <1>1, <3>1, Pins
    <3> QED
      BY <1>1, <3>1, <3>2, Referred
  <2> QED
    BY <2>1 DEF NeedsMet
<1>6. InventoryInv'
  BY <1>1, <1>2 DEF InventoryInv, Retention!Live
<1>7. AuthInv'
  <2>1. ASSUME NEW o \in run.auth \cap present', Kind[o] \in {"certificate", "package"}
        PROVE  Untainted(o)' /\ Retention!Under(o) \subseteq present'
    <3>1. Untainted(o) /\ Retention!Under(o) \subseteq present /\ o \in present
      BY <1>1, <2>1 DEF AuthInv
    <3>2. e \notin Retention!Under(o)
      BY <1>1, <3>1, Pins, Referred
    <3> QED
      BY <1>1, <3>1, <3>2 DEF Untainted
  <2>2. ASSUME NEW o \in present', Untainted(o)',
               Kind[o] \in {"certificate", "package"} => Retention!Under(o) \subseteq present'
        PROVE  o \in run.auth
    BY <1>1, <2>2 DEF AuthInv, Untainted
  <2>3. run.auth \cap invalid' = {}
    BY <1>1 DEF AuthInv
  <2> QED
    BY <1>2, <2>1, <2>2, <2>3 DEF AuthInv
<1>8. TakenInv'
  <2>1. Firm(run)' = Firm(run)
    BY <1>2 DEF Firm, Bearing, Retention!KeptByRoots, Retention!Roots, Retention!WithLayouts,
                Retention!Orphaned, Retention!OfKind
  <2> QED
    BY <1>1, <1>2, <2>1 DEF TakenInv
<1>9. SnapshotInv'
  <2>1. ASSUME NEW s \in snapshots, invalid = {}
        PROVE  SnapshotRoots[s] \cup Retention!UnderAll(SnapshotRoots[s]) \subseteq present'
    <3>1. SnapshotRoots[s] \cup Retention!UnderAll(SnapshotRoots[s]) \subseteq present
      BY <2>1 DEF SnapshotInv
    <3>2. Retention!Live(s)
      BY <3>1 DEF Retention!Live
    <3> QED
      BY <1>1, <3>1, <3>2, RootsStay
  <2> QED
    BY <1>1, <2>1 DEF SnapshotInv
<1> QED
  BY <1>1, <1>4, <1>5, <1>6, <1>7, <1>8, <1>9

\* The next wave's inventory; the end of a run.
LEMMA WaveSteps ==
    ASSUME RetentionInv, Retention!NextWave \/ Retention!EndRun
    PROVE  RetentionInv'
<1> USE DEF RetentionInv, RetainedTypes
<1>1. UNCHANGED <<present, invalid, recent, snapshots, blocked>>
  BY DEF Retention!NextWave, Retention!EndRun
<1>2. NeedsMet' /\ SnapshotInv'
  BY <1>1 DEF NeedsMet, Untainted, SnapshotInv
<1>3. CASE Retention!EndRun
  BY <1>1, <1>2, <1>3 DEF Retention!EndRun, InventoryInv, AuthInv, TakenInv
<1>4. CASE Retention!NextWave
  <2>1. /\ run # None /\ run \in Retention!Run /\ run.doomed = {}
        /\ run' = [run EXCEPT !.phase = "plan", !.inv = @ \cap present, !.auth = @ \cap present]
    BY <1>4 DEF Retention!NextWave
  <2>2. /\ run' \in Retention!Run
        /\ run'.inv = run.inv \cap present /\ run'.auth = run.auth \cap present
        /\ run'.recent = run.recent /\ run'.live = run.live
        /\ run'.phase = "plan" /\ run'.doomed = {}
    BY <2>1 DEF Retention!Run
  <2>3. InventoryInv'
    BY <1>1, <2>1, <2>2 DEF InventoryInv, Retention!Live
  <2>4. AuthInv'
    BY <1>1, <2>1, <2>2 DEF AuthInv, Untainted
  <2>5. TakenInv'
    BY <2>2 DEF TakenInv
  <2> QED
    BY <1>1, <1>2, <2>2, <2>3, <2>4, <2>5
<1> QED
  BY <1>3, <1>4

LEMMA RetentionStep ==
    ASSUME RetentionInv, [MCNext]_<<vars, retention, subject>>
    PROVE  RetentionInv'
<1>1. CASE Retention!Next
  BY <1>1, BuildSteps, StartStep, PlanStep, EvictStep, WaveSteps DEF Retention!Next
<1>2. CASE UNCHANGED retention
  <2>1. UNCHANGED <<present, invalid, recent, snapshots, run, blocked>>
    BY <1>2 DEF retention
  <2>2. /\ Retention!Candidates(run)' = Retention!Candidates(run)
        /\ Firm(run)' = Firm(run)
    BY <2>1
       DEF Firm, Bearing, Retention!Candidates, Retention!Kept, Retention!Pinned,
           Retention!KeptByRoots, Retention!Roots, Retention!WithLayouts, Retention!Orphaned,
           Retention!OfKind, Retention!Incomplete, Retention!Readable, Retention!Authenticated
  <2>3. RetainedTypes' /\ NeedsMet' /\ SnapshotInv' /\ ~blocked'
    BY <2>1 DEF RetentionInv, RetainedTypes, NeedsMet, SnapshotInv, Untainted
  <2>4. InventoryInv'
    BY <2>1, <2>2 DEF RetentionInv, InventoryInv, Retention!Live
  <2>5. AuthInv' /\ TakenInv'
    BY <2>1, <2>2 DEF RetentionInv, AuthInv, TakenInv, Untainted
  <2> QED
    BY <2>3, <2>4, <2>5 DEF RetentionInv
<1> QED
  BY <1>1, <1>2 DEF MCNext

LEMMA RetentionHolds == MCSpec => []RetentionInv
<1>1. MCInit => RetentionInv
  <2> SUFFICES ASSUME MCInit PROVE RetentionInv
    OBVIOUS
  <2>1. /\ Retention!Closed(present) /\ present \subseteq Objects
        /\ invalid = {} /\ recent = {} /\ snapshots = {} /\ run = None /\ blocked = FALSE
    BY DEF MCInit, Retention!Init
  <2> QED
    BY <2>1 DEF RetentionInv, RetainedTypes, NeedsMet, InventoryInv, AuthInv, TakenInv,
                SnapshotInv, Retention!Closed
<1> QED
  BY <1>1, RetentionStep, PTL DEF MCSpec

-----------------------------------------------------------------------------
\* No sequence of runs, wherever they broke off, and no entry that an older clean-up left without
\* what it refers to, keeps a sound cache from being swept; and the waves of a run leave nothing
\* that nothing keeps.
THEOREM SweepsOn == MCSpec => []RetentionIsSound
<1>1. ASSUME RetentionInv
      PROVE  RetentionIsSound
  <2>1. Retention!TypeOK
    BY <1>1 DEF RetentionInv, RetainedTypes, InventoryInv, TakenInv, Retention!TypeOK
  <2>2. Retention!ExhaustedIsClean
    BY <1>1, Clean DEF Retention!ExhaustedIsClean
  <2> QED
    BY <1>1, <2>1, <2>2 DEF RetentionInv, RetentionIsSound, Retention!NeverBlocked
<1> QED
  BY <1>1, RetentionHolds, PTL

LEMMA OnlyEvicted ==
    ASSUME RetentionInv, [MCNext]_<<vars, retention, subject>>
    PROVE  \/ present \subseteq present'
           \/ \E e \in run.doomed : run # None /\ present' = present \ {e} /\ e \in present
<1>1. CASE Retention!Next
  BY <1>1 DEF Retention!Next, Retention!Publish, Retention!Age, Retention!Corrupt, Retention!Evict,
              Retention!RecordSuccess, Retention!StartRun, Retention!DerivePlan,
              Retention!NextWave, Retention!EndRun
<1>2. CASE UNCHANGED retention
  BY <1>2 DEF retention
<1> QED
  BY <1>1, <1>2 DEF MCNext

\* Wherever a wave breaks off, no entry that stays in the cache and can be read has lost what it
\* refers to, nor what that refers to.
THEOREM ReferredStays == MCSpec => NothingReferredToGoes
<1>1. ASSUME RetentionInv, [MCNext]_<<vars, retention, subject>>
      PROVE  [\A o \in present' :
                ({o} \cup Retention!Under(o)) \cap invalid = {} /\ Refs[o] \subseteq present =>
                    Retention!Under(o) \cap (present \ present') = {}]_(Retention!vars)
  BY <1>1, OnlyEvicted, Pins DEF Untainted
<1> QED
  BY <1>1, RetentionHolds, PTL
     DEF MCSpec, NothingReferredToGoes, Retention!NothingReferredToGoes

\* What a recent success used, and what was lately used, stays with all it needs.
THEOREM RecentStays == MCSpec => RecentUseStays
<1>1. ASSUME RetentionInv, [MCNext]_<<vars, retention, subject>>
      PROVE  [\A o \in present \ present' :
                /\ o \notin recent
                /\ \A s \in snapshots :
                      Retention!Live(s) =>
                          o \notin SnapshotRoots[s] \cup Retention!UnderAll(SnapshotRoots[s])
                /\ \A d \in recent \ invalid :
                      Retention!Under(d) \cap invalid = {} => o \notin Retention!Under(d)
             ]_(Retention!vars)
  <2>1. ASSUME NEW e \in run.doomed, run # None, present' = present \ {e}
        PROVE  /\ e \notin recent
               /\ \A s \in snapshots :
                     Retention!Live(s) =>
                         e \notin SnapshotRoots[s] \cup Retention!UnderAll(SnapshotRoots[s])
               /\ \A d \in recent \ invalid :
                     Retention!Under(d) \cap invalid = {} => e \notin Retention!Under(d)
    <3>1. ASSUME NEW d \in recent \ invalid, Retention!Under(d) \cap invalid = {}
          PROVE  e \notin Retention!Under(d)
      <4>1. d \in present /\ Untainted(d)
        BY <1>1, <3>1 DEF RetentionInv, RetainedTypes, Untainted
      <4>2. Refs[d] \subseteq present
        BY <1>1, <4>1 DEF RetentionInv, NeedsMet
      <4> QED
        BY <1>1, <2>1, <4>1, <4>2, Pins
    <3> QED
      BY <1>1, <2>1, <3>1, RootsStay
  <2> QED
    BY <1>1, <2>1, OnlyEvicted
<1> QED
  BY <1>1, RetentionHolds, PTL DEF MCSpec, RecentUseStays, Retention!RecentUseStays

=============================================================================
