SPECIFICATION Spec
CONSTANTS
    p1 = p1
    p2 = p2
    p3 = p3
    Pids <- TwoPids
    None = None
    MaxStart = 2
    MaxToken = 3
SYMMETRY Symmetry2
CHECK_DEADLOCK FALSE
INVARIANTS
    HolderRecorded
