------------------------- MODULE ImmutableRetention -------------------------
(***************************************************************************)
(* What a sweep of the immutable cache retains                             *)
(* (scripts/lib/convex-wasm-cache-retention-immutable.mjs).  Certificates  *)
(* refer to packages, packages to artifacts, and records, topologies and   *)
(* capsules of the compiler to each other and to artifacts.  Under         *)
(* pressure a run takes one inventory and evicts in waves, roots first:    *)
(* every entry that is still there pins what it refers to, so that a wave  *)
(* may break off between any two of its entries.                           *)
(*                                                                         *)
(* Builds and runs hold the cache lock (CacheLock).  How a single entry    *)
(* leaves the cache, and how a wave that broke off is recovered, is        *)
(* SweepQuarantine.                                                        *)
(***************************************************************************)
EXTENDS Naturals, FiniteSets, FiniteSetsExt

CONSTANTS
    Objects, Kind,
    Refs,           \* what an entry cannot be read without
    Layouts,        \* the layout entries of a C bundle, which may be missing
    Payload,        \* hard-linked payloads; each weighs one unit
    Snapshots,
    SnapshotRoots,  \* the certificates, records and packages that a snapshot names
    Watermark, MaxRetainedPackages, None

Kinds == {"certificate", "package", "artifact", "bundle", "record", "topology", "capsule"}
OfKind(kind, S) == {o \in S : Kind[o] = kind}

\* A capsule names its topology and the record that the topology is of.
RefersTo == [certificate |-> {"package"}, package |-> {"artifact", "bundle"},
             record |-> {"artifact", "bundle"}, topology |-> {"record"},
             capsule |-> {"topology", "record"}, artifact |-> {}, bundle |-> {}]

ObjectAssumption ==
    /\ Kind \in [Objects -> Kinds]
    /\ Refs \in [Objects -> SUBSET Objects] /\ Layouts \in [Objects -> SUBSET Objects]
    /\ SnapshotRoots \in [Snapshots -> SUBSET Objects]
    /\ \A o \in Objects :
          /\ \A d \in Refs[o] : Kind[d] \in RefersTo[Kind[o]]
          /\ \A l \in Layouts[o] : Kind[l] = "artifact"
          /\ Kind[o] = "capsule" => \A t \in OfKind("topology", Refs[o]) : Refs[t] \subseteq Refs[o]
    /\ \A s \in Snapshots : \A o \in SnapshotRoots[s] :
          Kind[o] \in {"certificate", "record", "package"}
    /\ Watermark \in Nat /\ MaxRetainedPackages \in Nat /\ None \notin Objects

VARIABLES
    present,        \* the entries of the cache
    invalid,        \* those whose bytes are corrupt
    recent,         \* those modified within the recent-retention period
    snapshots,      \* the recent-success snapshots
    run,            \* the run: None or a record
    blocked         \* whether a run failed with nothing corrupt in the cache (history)

vars == <<present, invalid, recent, snapshots, run, blocked>>

\* `inv` and `auth` are the inventory and its authenticated part, `doomed` the rest of a wave.
Run == [inv : SUBSET Objects, auth : SUBSET Objects, recent : SUBSET Objects,
        live : SUBSET Snapshots, doomed : SUBSET Objects,
        phase : {"plan", "wave", "exhausted", "reached"}]

Occupancy(S) == Cardinality({Payload[o] : o \in S})

\* What an entry refers to, and what that refers to: there is no third level.
Under(o) == Refs[o] \cup UNION {Refs[d] : d \in Refs[o]}
UnderAll(S) == UNION {Under(o) : o \in S}

\* Older clean-ups may have left these without what they refer to.
MayLack == {"certificate", "topology", "capsule"}
Closed(S) == \A o \in S : Kind[o] \notin MayLack => Refs[o] \subseteq S

Init ==
    /\ present \in {S \in SUBSET Objects : Closed(S)}
    /\ invalid = {} /\ recent = {} /\ snapshots = {}
    /\ run = None /\ blocked = FALSE

-----------------------------------------------------------------------------
(* Builds, time and rot.                                                   *)

\* A build publishes an entry after all that it refers to.
Publish(o) ==
    /\ run = None /\ o \notin present
    /\ Refs[o] \subseteq present \ invalid
    /\ present' = present \cup {o} /\ recent' = recent \cup {o}
    /\ UNCHANGED <<invalid, snapshots, run, blocked>>

\* recordConvexWasmSuccessfulCacheUse: a success names what it used; older snapshots go.
RecordSuccess(s) ==
    /\ run = None
    /\ SnapshotRoots[s] \cup UnderAll(SnapshotRoots[s]) \subseteq present \ invalid
    /\ snapshots' \in {T \cup {s} : T \in SUBSET snapshots}
    /\ UNCHANGED <<present, invalid, recent, run, blocked>>

Age(o) ==
    /\ run = None /\ o \in recent
    /\ recent' = recent \ {o}
    /\ UNCHANGED <<present, invalid, snapshots, run, blocked>>

Corrupt(o) ==
    /\ run = None /\ o \in present /\ invalid = {}
    /\ invalid' = {o}
    /\ UNCHANGED <<present, recent, snapshots, run, blocked>>

-----------------------------------------------------------------------------
(* collectImmutableInventory                                               *)

\* A package is authenticated with its artifacts, a certificate with its packages.
Readable(o) == o \in present \ invalid
Authenticated ==
    {o \in present :
        /\ Readable(o)
        /\ Kind[o] \in {"certificate", "package"} => \A d \in Under(o) : Readable(d)}

\* A certificate that lacks a package, and is valid otherwise, is known to lack it.
Incomplete(c) ==
    /\ Readable(c) /\ ~(Refs[c] \subseteq present)
    /\ \A p \in Refs[c] \cap present : p \in Authenticated

\* A snapshot whose packages are not all there is stale and pins nothing.
Live(s) == \A p \in SnapshotRoots[s] : Kind[p] = "package" => p \in present

\* Authorities that cannot be read without an entry that is missing or corrupt end the run.
CollectFails ==
    \/ \E o \in Authenticated :
          \/ Kind[o] = "record" /\ \E d \in Refs[o] : ~Readable(d)
          \/ Kind[o] \in {"topology", "capsule"} /\ \E d \in Refs[o] : d \in invalid
    \/ \E s \in snapshots : \E p \in SnapshotRoots[s] :
          Kind[p] = "package" /\ p \in present /\ p \notin Authenticated
    \/ \E o \in present \ Authenticated :
          \/ Kind[o] = "capsule"
          \/ o \in recent /\ ~(Kind[o] = "certificate" /\ Incomplete(o))

StartRun ==
    /\ run = None /\ Occupancy(present) > Watermark
    /\ IF CollectFails
       THEN /\ blocked' = (blocked \/ invalid = {}) /\ UNCHANGED run
       ELSE /\ run' = [inv |-> present, auth |-> Authenticated, recent |-> recent,
                       live |-> {s \in snapshots : Live(s)}, doomed |-> {}, phase |-> "plan"]
            /\ UNCHANGED blocked
    /\ UNCHANGED <<present, invalid, recent, snapshots>>

-----------------------------------------------------------------------------
(* deriveImmutablePlan                                                     *)

\* The entries that are kept for themselves, and all that is kept with them.  A retained
\* bundle keeps those of its layout entries that there are.
\* Mutant: the snapshots are not among them.
RecentRoots(r) == r.recent \cap r.auth
Roots(r) == (UNION {SnapshotRoots[s] : s \in r.live}) \cup (r.recent \cap r.auth)
WithLayouts(S, r) == S \cup UNION {Layouts[o] \cap r.inv : o \in OfKind("bundle", S)}

\* A topology or capsule that lacks something when the inventory is taken keeps nothing.
Orphaned(o, r) == Kind[o] \in {"topology", "capsule"} /\ ~(Refs[o] \subseteq r.inv)
KeptByRoots(r) == WithLayouts(Roots(r) \cup UnderAll({o \in Roots(r) : ~Orphaned(o, r)}), r)

\* Every authority that is there pins what it refers to in this pass, whether or not it goes
\* itself.  A certificate that cannot be read pins every package.
\* Mutant: an authority that may go pins nothing.
PinnedByKept(r) == UnderAll({o \in r.auth : o \in KeptByRoots(r)})
Pinned(r) ==
    UnderAll({o \in r.auth : Kind[o] # "certificate" /\ ~Orphaned(o, r)})
    \cup ((UNION {Refs[c] : c \in OfKind("certificate", r.inv)}) \cap r.auth)
    \cup (IF \E c \in OfKind("certificate", r.inv \ r.auth) : ~Incomplete(c)
          THEN OfKind("package", r.auth) ELSE {})

Kept(r) == WithLayouts(KeptByRoots(r) \cup Pinned(r), r)
Candidates(r) == r.auth \ Kept(r)

TooManyPackages(r) == Cardinality(OfKind("package", KeptByRoots(r))) > MaxRetainedPackages
PlanFails(r) == TooManyPackages(r) \/ ~(Kept(r) \subseteq r.auth)

\* What a removal frees: nothing, while another entry has the payload.
Frees(o) == IF \E d \in present \ {o} : Payload[d] = Payload[o] THEN 0 ELSE 1
Estimate(S) == Cardinality({o \in S : Frees(o) = 1})

\* Certificates go first, then packages, and what frees more before what frees less.
Rank(o) ==
    2 * (CASE Kind[o] = "certificate" -> 0 [] Kind[o] = "package" -> 1 [] OTHER -> 2)
    + (1 - Frees(o))

\* The evictions of a plan: as many candidates, in order, as its pressure takes.
IsPlan(S, r) ==
    LET excess == Occupancy(r.inv) - Watermark IN
    /\ S \subseteq Candidates(r)
    /\ \A o \in S, d \in Candidates(r) \ S : Rank(o) <= Rank(d)
    /\ Estimate(S) >= excess \/ S = Candidates(r)
    /\ \E last \in S :
          /\ \A o \in S : Rank(o) <= Rank(last)
          /\ Estimate(S \ {last}) < excess

-----------------------------------------------------------------------------
(* maintainConvexWasmImmutableGc                                           *)

DerivePlan ==
    /\ run # None /\ run.phase = "plan"
    /\ IF PlanFails(run)
       THEN /\ run' = None
            /\ blocked' = (blocked \/ (invalid = {} /\ ~TooManyPackages(run)))
       ELSE /\ \/ Occupancy(run.inv) <= Watermark /\ run' = [run EXCEPT !.phase = "reached"]
               \/ /\ Occupancy(run.inv) > Watermark /\ Candidates(run) = {}
                  /\ run' = [run EXCEPT !.phase = "exhausted"]
               \/ /\ Occupancy(run.inv) > Watermark
                  /\ \E S \in SUBSET Candidates(run) :
                        IsPlan(S, run) /\ run' = [run EXCEPT !.phase = "wave", !.doomed = S]
            /\ UNCHANGED blocked
    /\ UNCHANGED <<present, invalid, recent, snapshots>>

\* sweepImmutablePlan, one entry after the other.
Evict(o) ==
    /\ run # None /\ run.phase = "wave" /\ o \in run.doomed
    /\ present' = present \ {o} /\ recent' = recent \ {o}
    /\ run' = [run EXCEPT !.doomed = @ \ {o}]
    /\ UNCHANGED <<invalid, snapshots, blocked>>

\* The inventory goes on without what the wave removed.
\* Mutant: they stay in the inventory, and only leave its authenticated part.
NextWaveStale ==
    /\ run # None /\ run.phase = "wave" /\ run.doomed = {}
    /\ run' = [run EXCEPT !.phase = "plan", !.auth = @ \cap present]
    /\ UNCHANGED <<present, invalid, recent, snapshots, blocked>>
NextWave ==
    /\ run # None /\ run.phase = "wave" /\ run.doomed = {}
    /\ run' = [run EXCEPT !.phase = "plan", !.inv = @ \cap present, !.auth = @ \cap present]
    /\ UNCHANGED <<present, invalid, recent, snapshots, blocked>>

\* The run is over, or breaks off.
EndRun ==
    /\ run # None /\ run.phase \in {"reached", "exhausted", "wave"}
    /\ run' = None
    /\ UNCHANGED <<present, invalid, recent, snapshots, blocked>>

-----------------------------------------------------------------------------
Next ==
    \/ \E o \in Objects : Publish(o) \/ Age(o) \/ Corrupt(o) \/ Evict(o)
    \/ \E s \in Snapshots : RecordSuccess(s)
    \/ StartRun \/ DerivePlan \/ NextWave \/ EndRun

Spec == Init /\ [][Next]_vars

-----------------------------------------------------------------------------
(* Properties.                                                             *)

TypeOK ==
    /\ present \subseteq Objects /\ invalid \subseteq Objects
    /\ recent \subseteq present /\ snapshots \subseteq Snapshots
    /\ run \in Run \cup {None} /\ blocked \in BOOLEAN
    /\ run # None => run.doomed \subseteq run.auth \cap present /\ run.auth \subseteq run.inv

\* Wherever a wave breaks off, no entry that stays in the cache and can be read has lost what
\* it refers to, nor what that refers to.
NothingReferredToGoes ==
    [][\A o \in present' :
          ({o} \cup Under(o)) \cap invalid = {} /\ Refs[o] \subseteq present =>
              Under(o) \cap (present \ present') = {}]_vars

\* What a recent success used, and what was lately used, stays with all it needs.
RecentUseStays ==
    [][\A o \in present \ present' :
          /\ o \notin recent
          /\ \A s \in snapshots :
                Live(s) => o \notin SnapshotRoots[s] \cup UnderAll(SnapshotRoots[s])
          /\ \A d \in recent \ invalid :
                Under(d) \cap invalid = {} => o \notin Under(d)]_vars

\* No sequence of runs, however they broke off, leaves a sound cache that no run can sweep.
NeverBlocked == ~blocked

\* The waves of one run take everything that nothing keeps: what they pin for each other is
\* never left over when they find no more candidates.
ExhaustedIsClean ==
    run # None /\ run.phase = "exhausted" /\ present \subseteq run.auth =>
        present \subseteq KeptByRoots(run)

=============================================================================
