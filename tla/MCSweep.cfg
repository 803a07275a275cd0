\* Two entries with a payload in common; processes die twice, the power fails once, somebody alters
\* an entry and a build links a payload.  And the certificates, packages and artifacts of a
\* deployment, or the capsules, topologies and records of the compiler.
CONSTANTS
    e1 = e1
    e2 = e2
    None = None
    Entries <- MCEntries
    Sharing <- MCSharing
    Objects <- MCObjects
    Kind <- MCKind
    Refs <- MCRefs
    Layouts <- MCLayouts
    Payload <- MCPayload
    Snapshots <- MCSnapshots
    SnapshotRoots <- MCSnapshotRoots
    Watermark = 2
    MaxRetainedPackages = 2
    MaxDeaths = 2
    MaxPowerLosses = 1
    MaxAlterations = 1
    MaxLinks = 1
SPECIFICATION MCSpec
INVARIANTS
    EntriesAreWhole
    AlteredIsKept
    OwnWorkIsAccepted
    RetentionIsSound
PROPERTIES
    NothingReferredToGoes
    RecentUseStays
    QuarantineDrains
CHECK_DEADLOCK FALSE
