\* Two builds, or one and a clock that is set back once.
CONSTANTS
    b1 = b1
    b2 = b2
    None = None
    Maintenance = Maintenance
    Quiescent = 1
    AbandonedRecovery = 1
    FailedRecovery = 1
    CompletedRetention = 1
    Interval = 2
    Builds <- MCBuilds
    Policies = {1}
    MaxTime = 2
    MaxRollbacks = 1
    MaxFaults = 2
SPECIFICATION MCSpec
INVARIANTS
    WorkIsSound
PROPERTIES
    WorkKeptForRecovery
    WorkReclaimed
CHECK_DEADLOCK FALSE
