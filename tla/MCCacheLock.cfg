\* Safety: three process ids with two incarnations each, and two acquisitions.
CONSTANTS
    p1 = p1
    p2 = p2
    p3 = p3
    Pids <- ThreePids
    None = None
    MaxStart = 2
    MaxToken = 2
SPECIFICATION Spec
INVARIANTS
    AuthorityMeansLock
    NestedUnderLock
SYMMETRY Symmetry3
CHECK_DEADLOCK FALSE
