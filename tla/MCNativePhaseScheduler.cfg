\* Four callers that may issue requests for ever; no symmetry, for the liveness.
SPECIFICATION FairSpec
CONSTANTS
    r1 = r1
    r2 = r2
    r3 = r3
    r4 = r4
    w1 = w1
    Requests <- MCRequests
    Waiters <- MCWaiters
    Shapes <- MCShapes
    Jobs = 3
    AotWorkers = 2
    MemoryMax = 4
    AotUnit = 2
    None = None
INVARIANTS
    BudgetRespected
    QueueNeverStranded
    BoundedOvertaking
PROPERTIES
    IdleMeansIdle
    FirstFailureCloses
    QueuedRequestsLeave
    IdleAfterFailure
