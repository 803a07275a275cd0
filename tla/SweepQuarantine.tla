-------------------------- MODULE SweepQuarantine --------------------------
(***************************************************************************)
(* The quarantine through which the immutable cache is swept               *)
(* (scripts/lib/convex-wasm-cache-retention-immutable.mjs).  A wave moves  *)
(* every entry it evicts aside under a durable marker, makes the           *)
(* comparison with the plan durable in a second marker, and only then      *)
(* unlinks anything; a later run recovers what a wave left behind, before  *)
(* it plans another.                                                       *)
(*                                                                         *)
(* Waves, recoveries and builds hold the cache lock (CacheLock).  A        *)
(* process may die or throw at every step, and the power may fail: then a  *)
(* change that was not synced may be undone, each for itself.  A rename is *)
(* undone or not, and a tree cannot come back under its old name once the  *)
(* directory that it left is synced.                                       *)
(***************************************************************************)
EXTENDS Naturals, FiniteSets

CONSTANTS
    Entries,
    Sharing,        \* symmetric relation: entries with a hard-linked payload file in common
    MaxDeaths,      \* bound: how often a process dies or throws
    MaxPowerLosses, \* bound: how often the power fails
    MaxAlterations, \* bound: how often somebody alters a tree
    MaxLinks,       \* bound: how often a build links a payload that another entry has
    None

ASSUME SharingAssumption ==
    /\ Sharing \subseteq Entries \X Entries
    /\ \A e, d \in Entries : <<e, d>> \in Sharing <=> <<d, e>> \in Sharing
    /\ {MaxDeaths, MaxPowerLosses, MaxAlterations, MaxLinks} \subseteq Nat /\ None \notin Entries

VARIABLES
    place, content,     \* where each entry's tree is and whether all of it is there
    kept,               \* the places where a power loss may leave it
    files, keptFiles,   \* the files of the plan's directory, and those that are durable
    dirs, keptDirs,     \* the directories of the quarantine
    fresh,              \* entries whose key was published anew while the old tree was aside
    asPlanned,          \* entries whose tree has the physical state that the plan recorded
    altered,            \* entries whose tree somebody altered before it was verified (history)
    refused,            \* whether a recovery has refused what it found (history)
    proc,               \* the process at work, or None
    faults              \* how often each fault, and each link, has happened

vars == <<place, content, kept, files, keptFiles, dirs, keptDirs, fresh, asPlanned,
          altered, refused, proc, faults>>
trees == <<place, content, kept>>
names == <<files, keptFiles, dirs, keptDirs>>
others == <<fresh, asPlanned, altered, refused, faults>>

Places == {"canonical", "trash", "gone"}
Files == {"marker", "verified", "scratch"} \X Entries
Steps == {"scan", "plan", "mkbase", "mkplan", "next", "marker", "markerSync", "rename",
          "syncSource", "syncTarget", "compare", "verify", "verifySync", "admit", "unlink",
          "treeSync", "dropVerified", "verifiedSync", "dropMarker", "dropSync", "rmplan",
          "rmplanSync", "rmbase", "rmbaseSync"}
\* `todo` is still to be quarantined or compared, `batch` to be removed.
Process == [kind : {"sweep", "recovery"}, pc : Steps, cur : Entries \cup {None},
            todo : SUBSET Entries, batch : SUBSET Entries]

ASSUME NoneAssumption == None \notin Process

Has(kind, e) == <<kind, e>> \in files
InTrash == {e \in Entries : place[e] = "trash"}
Marked == {e \in Entries : Has("marker", e)}
SharingWith(e) == {d \in Entries : <<e, d>> \in Sharing} \ {e}

Init ==
    /\ place = [e \in Entries |-> "canonical"] /\ kept = [e \in Entries |-> {"canonical"}]
    /\ content = [e \in Entries |-> "whole"]
    /\ files = {} /\ keptFiles = {} /\ dirs = {} /\ keptDirs = {}
    /\ fresh = {} /\ asPlanned = {} /\ altered = {} /\ refused = FALSE
    /\ proc = None /\ faults = [death |-> 0, power |-> 0, alteration |-> 0, link |-> 0]

At(pc) == proc # None /\ proc.pc = pc
AtIn(kind, pc) == At(pc) /\ proc.kind = kind
Goto(pc) == proc' = [proc EXCEPT !.pc = pc]

-----------------------------------------------------------------------------
(* The file system.                                                        *)

\* What the trees' places are after a power loss, once the plan's directory is synced: a tree
\* that was removed from it is gone for good.
Settled == [e \in Entries |-> IF place[e] = "trash" THEN kept[e] ELSE kept[e] \ {"trash"}]

\* syncDirectory of the plan's directory.
SyncPlanDirectory ==
    /\ kept' = Settled /\ keptFiles' = files
    /\ UNCHANGED <<place, content, files, dirs, keptDirs>>

\* A tree goes from one directory to another, or from one directory away.
Move(e, target) ==
    /\ place' = [place EXCEPT ![e] = target]
    /\ kept' = [kept EXCEPT ![e] = @ \cup {target}]

\* writePrivateDurableFile up to the link: scratch that is written and synced gets its name.
Link(kind, e) ==
    /\ files' = files \cup {<<kind, e>>, <<"scratch", e>>}
    /\ UNCHANGED <<trees, keptFiles, dirs, keptDirs>>

\* ... and from there on.
LinkSync(e) ==
    /\ files' = files \ {<<"scratch", e>>} /\ keptFiles' = files'
    /\ kept' = Settled
    /\ UNCHANGED <<place, content, dirs, keptDirs>>

-----------------------------------------------------------------------------
(* A wave.                                                                 *)

StartRun ==
    /\ proc = None
    /\ proc' = [kind |-> "recovery", pc |-> "scan", cur |-> None, todo |-> {}, batch |-> {}]
    /\ UNCHANGED <<trees, names, others>>

\* The plan records the state of the entries it evicts; or nothing is to be evicted.
Plan ==
    /\ At("plan")
    /\ \E evictions \in SUBSET {e \in Entries : place[e] = "canonical"} :
          IF evictions = {} THEN proc' = None /\ UNCHANGED <<asPlanned, altered>>
          ELSE /\ proc' = [kind |-> "sweep", pc |-> "mkbase", cur |-> None,
                           todo |-> evictions, batch |-> evictions]
               /\ asPlanned' = asPlanned \cup evictions
               /\ altered' = altered \ evictions
    /\ UNCHANGED <<trees, names, fresh, refused, faults>>

\* createPrivateDirectory
MakeDirectory(pc, directory, next) ==
    /\ At(pc)
    /\ dirs' = dirs \cup {directory} /\ keptDirs' = dirs'
    /\ Goto(next)
    /\ UNCHANGED <<trees, files, keptFiles, others>>

\* The next entry; the second markers of all come before the removal of any.
QuarantineNext ==
    /\ AtIn("sweep", "next")
    /\ \/ \E e \in proc.todo :
             proc' = [proc EXCEPT !.pc = "marker", !.cur = e, !.todo = @ \ {e}]
       \/ proc.todo = {} /\ Goto("unlink")
    /\ UNCHANGED <<trees, names, others>>

\* reauthenticateEvictionCandidate, then the durable marker.
Mark ==
    /\ At("marker") /\ proc.cur \in asPlanned
    /\ Link("marker", proc.cur) /\ Goto("markerSync")
    /\ UNCHANGED others

MarkSync ==
    /\ At("markerSync")
    /\ LinkSync(proc.cur) /\ Goto("rename")
    /\ UNCHANGED others

Rename ==
    /\ At("rename")
    /\ Move(proc.cur, "trash") /\ Goto("syncSource")
    /\ UNCHANGED <<content, names, others>>

\* Mutant: the directory that the tree left is not synced.
SkipSource ==
    /\ At("syncSource")
    /\ Goto(IF proc.kind = "sweep" THEN "syncTarget" ELSE "verify")
    /\ UNCHANGED <<trees, names, others>>
SyncSource ==
    /\ At("syncSource")
    /\ kept' = [kept EXCEPT ![proc.cur] = {place[proc.cur]}]
    /\ Goto(IF proc.kind = "sweep" THEN "syncTarget" ELSE "verify")
    /\ UNCHANGED <<place, content, names, others>>

SyncTarget ==
    /\ At("syncTarget")
    /\ SyncPlanDirectory /\ Goto("compare")
    /\ UNCHANGED others

\* The tree that was moved must be as planned: the wave breaks off, a recovery refuses.
Intact(e) == e \in asPlanned /\ content[e] = "whole"

Compare ==
    /\ At("compare") /\ Intact(proc.cur)
    /\ Goto(IF proc.kind = "sweep" THEN "verify" ELSE "syncSource")
    /\ UNCHANGED <<trees, names, others>>

BreakOff ==
    /\ \/ AtIn("sweep", "compare") /\ ~Intact(proc.cur)
       \/ At("marker") /\ proc.cur \notin asPlanned
    /\ proc' = None
    /\ UNCHANGED <<trees, names, others>>

Verify ==
    /\ At("verify")
    /\ Link("verified", proc.cur) /\ Goto("verifySync")
    /\ UNCHANGED others

VerifySync ==
    /\ At("verifySync")
    /\ LinkSync(proc.cur) /\ Goto("next")
    /\ UNCHANGED others

-----------------------------------------------------------------------------
(* Recovery.                                                               *)

Refuse == proc' = None /\ refused' = TRUE

\* Mutant: an empty base directory is not seen.
ScanPlans ==
    /\ At("scan")
    /\ IF "plan" \notin dirs THEN Goto("plan")
       ELSE proc' = [proc EXCEPT !.pc = "next", !.todo = Marked, !.batch = Marked]
    /\ UNCHANGED <<trees, names, others>>
Scan ==
    /\ At("scan")
    /\ IF "base" \notin dirs THEN Goto("plan")
       ELSE IF "plan" \notin dirs THEN Goto("rmbase")
       ELSE proc' = [proc EXCEPT !.pc = "next", !.todo = Marked, !.batch = Marked]
    /\ UNCHANGED <<trees, names, others>>

\* The next marker: its tree is compared unless its removal is already authorised.
\* Mutant: a tree that is still there is taken for one whose removal was authorised.
CompareNone ==
    /\ AtIn("recovery", "next")
    /\ \/ \E e \in proc.todo : proc' = [proc EXCEPT !.cur = e, !.todo = @ \ {e}]
       \/ proc.todo = {} /\ Goto("admit")
    /\ UNCHANGED <<trees, names, others>>
CompareNext ==
    /\ AtIn("recovery", "next")
    /\ \/ \E e \in proc.todo :
             proc' = [proc EXCEPT !.cur = e, !.todo = @ \ {e},
                      !.pc = IF e \in InTrash /\ ~Has("verified", e) THEN "compare" ELSE "next"]
       \/ proc.todo = {} /\ Goto("admit")
    /\ UNCHANGED <<trees, names, others>>

RefuseChanged ==
    /\ AtIn("recovery", "compare") /\ ~Intact(proc.cur)
    /\ Refuse
    /\ UNCHANGED <<trees, names, fresh, asPlanned, altered, faults>>

\* A tree or a second marker without a first one has no authority.
Admissible == /\ InTrash \subseteq Marked
              /\ \A e \in Entries : Has("verified", e) => Has("marker", e)

Admit ==
    /\ At("admit")
    /\ IF Admissible THEN Goto("unlink") /\ UNCHANGED refused ELSE Refuse
    /\ UNCHANGED <<trees, names, fresh, asPlanned, altered, faults>>

-----------------------------------------------------------------------------
(* The removal of the batch, alike in a wave and in a recovery.            *)

RemoveNext ==
    /\ At("unlink")
    /\ \/ \E e \in proc.batch :
             proc' = [proc EXCEPT !.cur = e, !.batch = @ \ {e}, !.pc =
                      IF e \in InTrash THEN "treeSync"
                      ELSE IF Has("verified", e) THEN "dropVerified" ELSE "dropMarker"]
       \/ proc.batch = {} /\ Goto("rmplan")
    /\ UNCHANGED <<trees, names, others>>

\* removeConvexWasmCacheTree: children first.  An unlinked payload shows in the link count of
\* every other entry that has it.
RemoveChildren ==
    /\ At("treeSync") /\ proc.cur \in InTrash /\ content[proc.cur] = "whole"
    /\ content' = [content EXCEPT ![proc.cur] = "partial"]
    /\ asPlanned' = asPlanned \ SharingWith(proc.cur)
    /\ UNCHANGED <<place, kept, names, proc, fresh, altered, refused, faults>>

RemoveRoot ==
    /\ At("treeSync") /\ proc.cur \in InTrash /\ content[proc.cur] = "partial"
    /\ Move(proc.cur, "gone")
    /\ UNCHANGED <<content, names, proc, others>>

SyncRemoval ==
    /\ At("treeSync") /\ proc.cur \notin InTrash
    /\ SyncPlanDirectory
    /\ Goto(IF Has("verified", proc.cur) THEN "dropVerified" ELSE "dropMarker")
    /\ UNCHANGED others

\* The second marker goes first.
Drop(pc, kind, next) ==
    /\ At(pc)
    /\ files' = files \ {<<kind, proc.cur>>}
    /\ Goto(next)
    /\ UNCHANGED <<trees, keptFiles, dirs, keptDirs, others>>

SyncPlan(pc, next) == At(pc) /\ SyncPlanDirectory /\ Goto(next) /\ UNCHANGED others

\* Mutant: the first marker goes with the tree's removal, the second one after it.
DropMarkerFirst ==
    \/ Drop("dropVerified", "marker", "verifiedSync")
    \/ SyncPlan("verifiedSync", "dropMarker")
    \/ Drop("dropMarker", "verified", "dropSync")
    \/ SyncPlan("dropSync", "unlink")
DropMarkers ==
    \/ Drop("dropVerified", "verified", "verifiedSync")
    \/ SyncPlan("verifiedSync", "dropMarker")
    \/ Drop("dropMarker", "marker", "dropSync")
    \/ SyncPlan("dropSync", "unlink")

\* Scratch goes last and with its directory.
RemovePlan ==
    /\ At("rmplan")
    /\ files' = {} /\ keptFiles' = {}
    /\ dirs' = dirs \ {"plan"}
    /\ Goto("rmplanSync")
    /\ UNCHANGED <<trees, keptDirs, others>>

SyncBase ==
    /\ At("rmplanSync")
    /\ keptDirs' = dirs /\ Goto("rmbase")
    /\ UNCHANGED <<trees, files, keptFiles, dirs, others>>

RemoveBase ==
    /\ At("rmbase")
    /\ dirs' = dirs \ {"base"} /\ Goto("rmbaseSync")
    /\ UNCHANGED <<trees, files, keptFiles, keptDirs, others>>

\* A run goes on to plan a wave.  An entry that was published anew is an entry like others.
SyncParent ==
    /\ At("rmbaseSync")
    /\ keptDirs' = dirs /\ Goto("plan")
    /\ place' = [e \in Entries |-> IF e \in fresh THEN "canonical" ELSE place[e]]
    /\ content' = [e \in Entries |-> IF e \in fresh THEN "whole" ELSE content[e]]
    /\ kept' = [e \in Entries |-> IF e \in fresh THEN kept[e] \cup {"canonical"} ELSE kept[e]]
    /\ fresh' = {}
    /\ UNCHANGED <<files, keptFiles, dirs, asPlanned, altered, refused, faults>>

-----------------------------------------------------------------------------
(* Builds, others and faults.                                              *)

LinkedWith(e) ==
    /\ \E d \in SharingWith(e) : place[d] = "canonical"
    /\ faults.link < MaxLinks /\ faults' = [faults EXCEPT !.link = @ + 1]
    /\ asPlanned' = asPlanned \ (SharingWith(e) \cup {e})

\* An entry whose key is free is published again; its payload may be linked from another
\* entry, and then the payload's link count changes for every entry that has it.
Publish(e, linked) ==
    /\ proc = None
    /\ place[e] # "canonical" /\ e \notin fresh
    /\ fresh' = fresh \cup {e}
    /\ IF linked THEN LinkedWith(e) ELSE UNCHANGED <<asPlanned, faults>>
    /\ UNCHANGED <<trees, names, altered, refused, proc>>

\* Somebody who does not hold the lock alters a tree that has not been compared yet.
Alter(e) ==
    /\ faults.alteration < MaxAlterations /\ faults' = [faults EXCEPT !.alteration = @ + 1]
    /\ place[e] # "gone" /\ content[e] = "whole"
    /\ e \in asPlanned /\ ~Has("verified", e)
    /\ ~(/\ At("verify") \/ At("verifySync") \/ AtIn("recovery", "syncSource")
         /\ proc.cur = e)
    /\ asPlanned' = asPlanned \ {e} /\ altered' = altered \cup {e}
    /\ UNCHANGED <<trees, names, fresh, refused, proc>>

\* The process dies or throws; its names and trees stay as they are.
Die ==
    /\ proc # None
    /\ faults.death < MaxDeaths /\ faults' = [faults EXCEPT !.death = @ + 1]
    /\ proc' = None
    /\ UNCHANGED <<trees, names, fresh, asPlanned, altered, refused>>

Between(S, T) == {(S \cap T) \cup U : U \in SUBSET ((S \cup T) \ (S \cap T))}

PowerLoss ==
    /\ faults.power < MaxPowerLosses /\ faults' = [faults EXCEPT !.power = @ + 1]
    /\ proc' = None
    /\ place' \in [Entries -> Places]
    /\ \A e \in Entries : place'[e] \in kept[e]
    /\ content' \in [Entries -> {"whole", "partial"}]
    /\ \A e \in Entries : content'[e] \in {content[e], "whole"}
    /\ dirs' \in Between(dirs, keptDirs)
    /\ files' \in Between(files, keptFiles)
    /\ "plan" \in dirs' => "base" \in dirs'
    /\ "plan" \notin dirs' => files' = {}
    /\ fresh' \in SUBSET fresh
    /\ \A e \in fresh' : place'[e] # "canonical"
    /\ kept' = [e \in Entries |-> {place'[e]}] /\ keptFiles' = files' /\ keptDirs' = dirs'
    /\ UNCHANGED <<asPlanned, altered, refused>>

-----------------------------------------------------------------------------
Wave ==
    \/ Plan \/ MakeDirectory("mkbase", "base", "mkplan") \/ MakeDirectory("mkplan", "plan", "next")
    \/ QuarantineNext \/ Mark \/ MarkSync \/ Rename \/ SyncSource \/ SyncTarget
    \/ Compare \/ BreakOff \/ Verify \/ VerifySync
Recovery == Scan \/ CompareNext \/ RefuseChanged \/ Admit
Removal ==
    \/ RemoveNext \/ RemoveChildren \/ RemoveRoot \/ SyncRemoval \/ DropMarkers
    \/ RemovePlan \/ SyncBase \/ RemoveBase \/ SyncParent

Next ==
    \/ StartRun \/ Wave \/ Recovery \/ Removal
    \/ \E e \in Entries : (\E linked \in BOOLEAN : Publish(e, linked)) \/ Alter(e)
    \/ Die \/ PowerLoss

Spec == Init /\ [][Next]_vars

\* Maintenance is run again and again, and a run goes on unless a fault ends it.
Progress == StartRun \/ Wave \/ Recovery \/ Removal

FairSpec == Spec /\ WF_vars(Progress)

-----------------------------------------------------------------------------
(* Properties.                                                             *)

TypeOK ==
    /\ place \in [Entries -> Places] /\ kept \in [Entries -> SUBSET Places]
    /\ content \in [Entries -> {"whole", "partial"}]
    /\ files \subseteq Files /\ keptFiles \subseteq Files
    /\ dirs \subseteq {"base", "plan"} /\ keptDirs \subseteq {"base", "plan"}
    /\ fresh \subseteq Entries /\ asPlanned \subseteq Entries /\ altered \subseteq Entries
    /\ refused \in BOOLEAN
    /\ faults \in [death : 0..MaxDeaths, power : 0..MaxPowerLosses,
                    alteration : 0..MaxAlterations, link : 0..MaxLinks]
    /\ proc \in Process \cup {None}

\* What the cache reads is whole: no failure at any moment puts a tree back under its key
\* from which something was already unlinked.
CanonicalIsWhole == \A e \in Entries : place[e] = "canonical" => content[e] = "whole"
\* ... and no key is published anew over a tree that is still there.
EntriesAreWhole == TypeOK /\ CanonicalIsWhole /\ \A e \in fresh : place[e] # "canonical"

\* A tree that somebody altered after it was planned, and before the comparison that
\* authorises its removal, is never unlinked, not in part, by no run.
AlteredIsKept == \A e \in altered : content[e] = "whole" /\ (place[e] = "gone" => kept[e] = {"gone"})

\* While nobody touches the payloads, neither alters nor links them, a wave never finds one of
\* its own entries changed, though the removal of one changes the link count of the others;
\* and what a wave leaves behind is not refused, however often the power fails.
Untouched == faults.alteration = 0 /\ faults.link = 0
OwnWorkIsAccepted ==
    Untouched =>
        /\ At("marker") \/ AtIn("sweep", "compare") => Intact(proc.cur)
        /\ faults.death = 0 => ~refused

\* Once the faults are over, a quarantine is emptied or refused.
QuarantineDrains == "base" \in dirs ~> "base" \notin dirs \/ refused

=============================================================================
