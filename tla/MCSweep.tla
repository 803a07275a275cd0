------------------------------ MODULE MCSweep ------------------------------
(***************************************************************************)
(* Model-checking instance of a sweep of the immutable cache: what its     *)
(* waves may take (ImmutableRetention, of two caches that have no entry in *)
(* common), and the quarantine through which they take it                  *)
(* (SweepQuarantine).  To the former an eviction is one step, so every     *)
(* behaviour is one of either.                                             *)
(***************************************************************************)
EXTENDS SweepQuarantine, TLC

CONSTANTS
    e1, e2,
    Objects, Kind, Refs, Layouts, Payload, Snapshots, SnapshotRoots, Watermark,
    MaxRetainedPackages

MCEntries == {e1, e2}
\* The two have a payload in common.
MCSharing == {<<e1, e2>>, <<e2, e1>>}

\* A deployment: two certificates with a package in common, whose artifact shares its payload
\* with one of the other package; that one has a bundle with a layout.
MCDeployment == {"c1", "c2", "p", "q", "a", "b", "u", "l"}
\* The compiler: a capsule, its topology and record, and the record's artifacts.
MCCompiler == {"k", "t", "r", "x", "y"}

MCObjects == MCDeployment \cup MCCompiler
MCKind == [o \in MCObjects |->
    CASE o \in {"c1", "c2"} -> "certificate" [] o \in {"p", "q"} -> "package"
      [] o = "u" -> "bundle"
      [] o = "k" -> "capsule" [] o = "t" -> "topology" [] o = "r" -> "record"
      [] OTHER -> "artifact"]
MCRefs == [o \in MCObjects |->
    CASE o = "c1" -> {"p"} [] o = "c2" -> {"p", "q"}
      [] o = "p" -> {"a"} [] o = "q" -> {"b", "u"}
      [] o = "k" -> {"t", "r"} [] o = "t" -> {"r"} [] o = "r" -> {"x", "y"}
      [] OTHER -> {}]
MCLayouts == [o \in MCObjects |-> IF o = "u" THEN {"l"} ELSE {}]
MCPayload == [o \in MCObjects |-> IF o = "b" THEN "a" ELSE IF o = "y" THEN "x" ELSE o]
MCSnapshots == {"deployed", "compiled"}
MCSnapshotRoots == "deployed" :> {"c2", "p", "q"} @@ "compiled" :> {"r"}

VARIABLES present, invalid, recent, snapshots, run, blocked, subject

Retention == INSTANCE ImmutableRetention

retention == <<present, invalid, recent, snapshots, run, blocked>>

ASSUME ObjectAssumption == Retention!ObjectAssumption

Worlds == "deployment" :> MCDeployment @@ "compiler" :> MCCompiler

MCInit ==
    /\ Init /\ Retention!Init /\ subject \in {"quarantine"} \cup DOMAIN Worlds
    /\ present \subseteq IF subject = "quarantine" THEN {} ELSE Worlds[subject]

MCNext ==
    /\ UNCHANGED subject
    /\ \/ subject = "quarantine" /\ Next /\ UNCHANGED retention
       \/ /\ subject \in DOMAIN Worlds
          /\ Retention!Next /\ present' \subseteq Worlds[subject] /\ UNCHANGED vars

\* The fairness is that of the behaviours of the quarantine.
MCSpec ==
    /\ MCInit /\ [][MCNext]_<<vars, retention, subject>>
    /\ WF_vars(subject = "quarantine" /\ Progress)

\* A run is never blocked by what an earlier one removed, and leaves nothing that it may take.
RetentionIsSound == Retention!TypeOK /\ Retention!NeverBlocked /\ Retention!ExhaustedIsClean
\* Nothing that an entry refers to goes before it; recent use stays.
NothingReferredToGoes == Retention!NothingReferredToGoes
RecentUseStays == Retention!RecentUseStays

=============================================================================
