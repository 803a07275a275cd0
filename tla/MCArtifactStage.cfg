\* Safety: three calls with every combination of limit, speculation and read mode,
\* and builds of two sizes.
CONSTANTS
    c1 = c1
    c2 = c2
    c3 = c3
    hash = hash
    read = read
    None = None
    Callers <- MCCallers
    Modes <- MCModes
    Limits = {1, 2}
    Sizes = {1, 2}
SPECIFICATION Spec
INVARIANTS
    SingleFlight
    ResolvedIsPublished
    OrdinaryFailure
PROPERTIES
    ImplementsPromise
SYMMETRY StageSymmetry
CHECK_DEADLOCK FALSE
