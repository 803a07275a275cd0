------------------------ MODULE RegistryPublication ------------------------
(***************************************************************************)
(* Publication of a fresh runtime registry                                 *)
(* (scripts/lib/runtime-registry-publication.mjs): a tree is copied into a *)
(* private directory beside the target, checked, synced bottom up, renamed *)
(* to the target and made durable.  Several publishers may have the same   *)
(* target, and the machine may lose power at any step.                     *)
(*                                                                         *)
(* A path in the tree is a sequence of words.  What a publisher does is a  *)
(* sequence of steps, one per file-system call whose effect is visible     *)
(* after a power failure; that sequence depends on its module graphs only. *)
(***************************************************************************)
EXTENDS Integers, SequencesExt, FiniteSets

CONSTANTS
    Publishers,
    Names,          \* of packages, stages and keys: digests and fixed words
    Records,        \* the authenticated records of artifacts
    GraphLists,     \* the lists of module graphs a publisher may have
    None

FileNames == {"artifact", "entry.json", "graph-manifest.json", "deployment.json",
              "generation.json", "COMPLETE", "source-catalog.json", "current"}
Artifacts == [stage : Names, key : Names, record : Records]
Graphs == [package : Names, artifacts : Seq(Artifacts)]

\* No list is empty (the code refuses it), and no digest is the name of a fixed file.
RegistryAssumption ==
    /\ None \notin Publishers \cup {"damaged"}
    /\ Names \cap FileNames = {}
    /\ GraphLists \subseteq Seq(Graphs) \ {<<>>}

VARIABLES
    graphs,     \* each publisher's module graphs
    status,     \* new, staging, renamed, published, failed, littered (failed, and
                \* its stage may be left), doubtful (failed after the rename) or
                \* lost (power failure)
    step,       \* the next step of the program
    tree,       \* each staged tree: its paths and the contents of its files
    stages,     \* the publishers whose private directory is beside the target
    durable,    \* the paths whose directory entry, and files whose contents, are on disk
    root,       \* whose tree is at the target
    rootOnDisk  \* the same, as a power failure would leave it

vars == <<graphs, status, step, tree, stages, durable, root, rootOnDisk>>

-----------------------------------------------------------------------------
(* The program of a publisher.                                             *)

Do(verb, path) == [verb |-> verb, path |-> path]
immutable == <<"module-graph-cache", "immutable", "v6">>
artifactRoot == Append(immutable, "artifacts")
packageRoot == Append(immutable, "packages")
generationRoot == <<"generations", "deployment", "generation">>

Mkdirs ==
    <<Do("mkdir", <<"generations">>), Do("mkdir", Front(generationRoot)),
      Do("mkdir", generationRoot), Do("mkdir", <<"packages">>),
      Do("mkdir", <<"module-graph-cache">>), Do("mkdir", Front(immutable)),
      Do("mkdir", immutable), Do("mkdir", artifactRoot), Do("mkdir", packageRoot)>>

copyVerified(target, verb, file) ==
    <<Do(verb, Append(target, file)), Do("verify", Append(target, file)),
      Do("syncFile", Append(target, file))>>

\* copyRecordedDirectory; the entry of an artifact is written from its prepared metadata.
copyPackage(target) ==
    <<Do("mkdir", target)>> \o copyVerified(target, "copy", "graph-manifest.json")
        \o <<Do("sync", target)>>
copyArtifact(target) ==
    <<Do("mkdir", target)>> \o copyVerified(target, "copy", "artifact")
        \o copyVerified(target, "write", "entry.json") \o <<Do("sync", target)>>

\* One artifact of one graph, given those that were copied before it.
PublishArtifact(copied, artifact) ==
    LET stageRoot == Append(artifactRoot, artifact.stage)
        previous == {a \in copied : a.stage = artifact.stage /\ a.key = artifact.key}
    IN IF previous = {}
       THEN <<Do("ensure", stageRoot)>> \o copyArtifact(Append(stageRoot, artifact.key))
                \o <<Do("sync", stageRoot)>>
       ELSE IF \E a \in previous : a.record # artifact.record
       THEN <<Do("fail", <<>>)>> ELSE <<>>

artifactsOf(gs) == FlattenSeq([i \in DOMAIN gs |-> gs[i].artifacts])
Before(gs, i, j) ==
    ToSet(artifactsOf(SubSeq(gs, 1, i - 1))) \cup ToSet(SubSeq(gs[i].artifacts, 1, j - 1))

PublishGraph(gs, i) ==
    FlattenSeq([j \in DOMAIN gs[i].artifacts |->
                    PublishArtifact(Before(gs, i, j), gs[i].artifacts[j])])
    \o copyPackage(Append(packageRoot, gs[i].package))

writeControlFile(path) == <<Do("write", path), Do("syncFile", path)>>

GenerationFiles ==
    writeControlFile(Append(generationRoot, "deployment.json"))
    \o writeControlFile(Append(generationRoot, "generation.json"))
    \o writeControlFile(Append(generationRoot, "COMPLETE"))
    \o <<Do("sync", generationRoot)>>
    \o writeControlFile(<<"source-catalog.json">>) \o writeControlFile(<<"current">>)

\* Mutant: the directory of the packages is not synced.
SyncMost ==
    <<Do("sync", Front(generationRoot)), Do("sync", <<"generations">>),
      Do("sync", artifactRoot), Do("sync", immutable), Do("sync", Front(immutable)),
      Do("sync", <<"module-graph-cache">>), Do("sync", <<>>)>>
SyncDirectories ==
    <<Do("sync", Front(generationRoot)), Do("sync", <<"generations">>),
      Do("sync", packageRoot), Do("sync", artifactRoot), Do("sync", immutable),
      Do("sync", Front(immutable)), Do("sync", <<"module-graph-cache">>), Do("sync", <<>>)>>

\* Mutant: success is reported before the parent directory was synced.
RenameOnly == <<Do("rename", <<>>)>>
Commit == <<Do("rename", <<>>), Do("syncParent", <<>>)>>

Stage(gs) ==
    Mkdirs \o FlattenSeq([i \in DOMAIN gs |-> PublishGraph(gs, i)]) \o GenerationFiles
Program(gs) == Stage(gs) \o SyncDirectories \o Commit

\* What a reader of the registry of these graphs expects to find.
CopiedDirectory(path, files) == {path} \cup {Append(path, f) : f \in files}
Expected(gs) ==
    {Mkdirs[i].path : i \in DOMAIN Mkdirs}
    \cup CopiedDirectory(generationRoot, {"deployment.json", "generation.json", "COMPLETE"})
    \cup {<<"source-catalog.json">>, <<"current">>}
    \cup (UNION {CopiedDirectory(Append(packageRoot, gs[i].package), {"graph-manifest.json"}) :
                    i \in DOMAIN gs})
    \cup (UNION {{Append(artifactRoot, a.stage)} \cup
                CopiedDirectory(artifactRoot \o <<a.stage, a.key>>, {"artifact", "entry.json"}) :
                    a \in ToSet(artifactsOf(gs))})

-----------------------------------------------------------------------------
EmptyTree == [paths |-> {}, bad |-> {}]

Init ==
    /\ graphs \in [Publishers -> GraphLists]
    /\ status = [p \in Publishers |-> "new"]
    /\ step = [p \in Publishers |-> 1]
    /\ tree = [p \in Publishers |-> EmptyTree]
    /\ stages = {}
    /\ durable = [p \in Publishers |-> {}]
    /\ root = None /\ rootOnDisk = None

\* The target must not exist; a private directory is made beside it.  Its chmod is not in the
\* try block: when that fails, nobody removes the directory.
Begin(p) ==
    /\ status[p] = "new"
    /\ \/ status' = [status EXCEPT ![p] = "failed"] /\ UNCHANGED stages
       \/ /\ root = None
          /\ \E next \in {"staging", "littered"} : status' = [status EXCEPT ![p] = next]
          /\ stages' = stages \cup {p}
    /\ UNCHANGED <<graphs, step, tree, durable, root, rootOnDisk>>

\* Mutant: what was staged is not removed.
FailAndLeave(p) ==
    /\ status' = [status EXCEPT ![p] = IF root = p THEN "doubtful" ELSE "failed"]
    /\ UNCHANGED <<graphs, step, tree, stages, durable, root, rootOnDisk>>

\* A call fails; what was staged is removed unless it is at the target.  The removal may fail
\* too: the stage is left, with what was in it or with less, and is not followed any further,
\* for nobody reads a stage that was given up.
FailWith(p) ==
    /\ \/ /\ root = p
          /\ status' = [status EXCEPT ![p] = "doubtful"]
          /\ UNCHANGED <<tree, stages, durable>>
       \/ /\ root # p
          /\ tree' = [tree EXCEPT ![p] = EmptyTree]
          /\ durable' = [durable EXCEPT ![p] = {}]
          /\ \/ status' = [status EXCEPT ![p] = "failed"] /\ stages' = stages \ {p}
             \/ status' = [status EXCEPT ![p] = "littered"] /\ UNCHANGED stages
    /\ UNCHANGED <<graphs, step, root, rootOnDisk>>

Active(p) == status[p] \in {"staging", "renamed"}
Error(p) == Active(p) /\ FailWith(p)

Advance(p, t, d) ==
    /\ tree' = [tree EXCEPT ![p] = t]
    /\ durable' = [durable EXCEPT ![p] = d]
    /\ UNCHANGED <<stages, root, rootOnDisk, status>>

\* The calls that fail with EEXIST; "ensure" is a mkdir whose EEXIST is ignored.
Exclusive == {"mkdir", "write", "copy"}

\* The staging steps.  The source of a copy may have changed since it was verified.
Staging(p, do) ==
    LET t == tree[p]  d == durable[p] IN
    \/ /\ do.verb \in {"mkdir", "write"} /\ do.path \notin t.paths
       /\ Advance(p, [t EXCEPT !.paths = @ \cup {do.path}], d)
    \/ /\ do.verb = "ensure"
       /\ Advance(p, [t EXCEPT !.paths = @ \cup {do.path}], d)
    \/ /\ do.verb = "copy" /\ do.path \notin t.paths
       /\ \E bad \in {{}, {do.path}} :
             Advance(p, [paths |-> t.paths \cup {do.path}, bad |-> t.bad \cup bad], d)
    \/ do.verb = "verify" /\ do.path \notin t.bad /\ Advance(p, t, d)
    \/ do.verb = "syncFile" /\ Advance(p, t, d \cup {<<"contents", do.path>>})
    \/ /\ do.verb = "sync"
       /\ Advance(p, t, d \cup {<<"entry", path>> :
                               path \in {q \in t.paths : Front(q) = do.path}})

Publishing(p, do) ==
    \/ /\ do.verb = "rename" /\ root = None
       /\ root' = p
       /\ status' = [status EXCEPT ![p] = "renamed"]
       /\ stages' = stages \ {p}
       /\ UNCHANGED <<tree, durable, rootOnDisk>>
    \/ /\ do.verb = "syncParent"
       /\ rootOnDisk' = root
       /\ UNCHANGED <<tree, stages, durable, status, root>>

Step(p) ==
    /\ Active(p) /\ step[p] <= Len(Program(graphs[p]))
    /\ LET do == Program(graphs[p])[step[p]] IN Staging(p, do) \/ Publishing(p, do)
    /\ step' = [step EXCEPT ![p] = @ + 1]
    /\ UNCHANGED graphs

\* The step cannot be done: graphs disagree, a path exists, a copy differs, or the target has
\* been taken.
Refused(p) ==
    /\ Active(p) /\ step[p] <= Len(Program(graphs[p]))
    /\ LET do == Program(graphs[p])[step[p]] IN
           \/ do.verb = "fail"
           \/ do.verb \in Exclusive /\ do.path \in tree[p].paths
           \/ do.verb = "verify" /\ do.path \in tree[p].bad
           \/ do.verb = "rename" /\ root # None
    /\ FailWith(p)

Return(p) ==
    /\ Active(p) /\ step[p] > Len(Program(graphs[p]))
    /\ status' = [status EXCEPT ![p] = "published"]
    /\ UNCHANGED <<graphs, step, tree, stages, durable, root, rootOnDisk>>

(***************************************************************************)
(* The power fails: the directory entries and the file contents that were  *)
(* not synced are lost, or they happen to be on disk.  A tree with less    *)
(* lost than the worst is no harder to accept, so nothing between is       *)
(* tried.  The parent directory is synced after a rename only: a stage     *)
(* that was removed may be back, and so may the stage that was renamed.    *)
(***************************************************************************)
Survives(d, path) == \A n \in 1..Len(path) : <<"entry", SubSeq(path, 1, n)>> \in d
OnDisk(t, d) ==
    LET paths == {path \in t.paths : Survives(d, path)}
        unwritten == {path \in paths : Last(path) \in FileNames /\ <<"contents", path>> \notin d}
    IN [paths |-> paths, bad |-> (t.bad \cap paths) \cup unwritten]

PowerFailure ==
    /\ status' = [p \in Publishers |-> IF Active(p) THEN "lost"
                                      ELSE IF status[p] = "failed" THEN "littered"
                                      ELSE status[p]]
    /\ root' \in {root, rootOnDisk}
    /\ stages' = stages \cup ({root} \ {root', None})
    /\ tree' \in {tree, [p \in Publishers |-> OnDisk(tree[p], durable[p])]}
    /\ rootOnDisk' = root'
    /\ UNCHANGED <<graphs, step, durable>>

-----------------------------------------------------------------------------
Next ==
    \/ PowerFailure
    \/ \E p \in Publishers : Begin(p) \/ Step(p) \/ Refused(p) \/ Error(p) \/ Return(p)

Spec == Init /\ [][Next]_vars

-----------------------------------------------------------------------------
(* Properties.                                                             *)

Complete(p) == tree[p].paths = Expected(graphs[p]) /\ tree[p].bad = {}

\* No path is ever made before the directory that holds it (mkdir is not recursive).
TypeOK ==
    /\ graphs \in [Publishers -> GraphLists]
    /\ status \in [Publishers -> {"new", "staging", "renamed", "published", "failed",
                               "littered", "doubtful", "lost"}]
    /\ \A p \in Publishers : step[p] \in 1..(Len(Program(graphs[p])) + 1)
    /\ \A p \in Publishers :
          /\ tree[p].bad \subseteq tree[p].paths
          /\ \A path \in tree[p].paths : Len(path) > 1 => Front(path) \in tree[p].paths
    /\ stages \subseteq Publishers
    /\ root \in Publishers \cup {None} /\ rootOnDisk \in {root, None}

\* A publisher that returned has its registry at the target, and no power failure takes it
\* away.  A publisher that failed before its rename leaves nothing behind beside the target,
\* unless it could not set the mode of its stage or remove it, or the power failed since.
OutcomeIsFinal ==
    \A p \in Publishers :
        /\ status[p] = "published" => root = p /\ rootOnDisk = p
        /\ status[p] = "failed" => p \notin stages /\ tree[p] = EmptyTree

\* The publication implements the all-or-nothing promise: whatever is at the target, before
\* or after a power failure and whoever else publishes, is all of one registry, every file as
\* its authenticated record says, for each path of the tree was synced, file by file and
\* directory by directory, before the rename.
Publication ==
    INSTANCE AtomicPublication WITH
        Adopting <- FALSE,
        content <- IF root = None THEN None ELSE IF Complete(root) THEN root ELSE "damaged",
        answer <- [p \in Publishers |->
            IF status[p] = "published" THEN "success"
            ELSE IF status[p] \in {"failed", "littered", "doubtful"} THEN "failure" ELSE "none"]
ImplementsPublication == Publication!Spec

=============================================================================
