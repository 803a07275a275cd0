---------------------------- MODULE Publications ----------------------------
(***************************************************************************)
(* The publications of one host side by side: of a fresh runtime registry  *)
(* (RegistryPublication) and of a native package that checkouts acquire    *)
(* (PackageAcquisition).  Both move a private tree to its place with one   *)
(* rename, and both keep the promise of AtomicPublication.                 *)
(***************************************************************************)
EXTENDS Integers, Sequences, FiniteSets

CONSTANTS Publishers, Names, Records, GraphLists, Checkouts, Nobody

VARIABLES graphs, status, step, tree, stages, durable, root, rootOnDisk
VARIABLES at, aborted, scratch, place, installer    \* `at' is the pc of PackageAcquisition

Registry == INSTANCE RegistryPublication WITH None <- Nobody
Package == INSTANCE PackageAcquisition WITH pc <- at, None <- Nobody

ASSUME GraphsAssumption == Registry!RegistryAssumption
ASSUME NobodyAssumption == Nobody \notin Package!Files \cup Checkouts \cup {"damaged"}

registry == <<graphs, status, step, tree, stages, durable, root, rootOnDisk>>
acquisition == <<at, aborted, scratch, place, installer>>

PublicationInit == Registry!Init /\ Package!Init
PublicationNext ==
    \/ Registry!Next /\ UNCHANGED acquisition
    \/ Package!Next /\ UNCHANGED registry
PublicationSpec == PublicationInit /\ [][PublicationNext]_<<registry, acquisition>>

-----------------------------------------------------------------------------
(* Properties.                                                             *)

\* The outcome of a publication of a registry is final, and a publication that failed and
\* could clean up leaves no stage; an acquisition that ended without dying leaves no scratch
\* behind, unless that it could not remove it is what it failed with.
PublishersAreSound ==
    Registry!TypeOK /\ Registry!OutcomeIsFinal /\ Package!TypeOK /\ Package!NoScratchLeft

\* A registry and a package appear whole or not at all, and once.
PublicationsAreWhole == Registry!ImplementsPublication /\ Package!ImplementsPublication

\* A call that was interrupted does not succeed.
InterruptedNeverReturns == Package!InterruptedNeverReturns

=============================================================================
