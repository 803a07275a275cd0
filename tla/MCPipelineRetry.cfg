\* A compilation and a warm-up, a graph build; two maps of three values over a scheduler that runs
\* two operations; two calls of a stage.
CONSTANTS
    c1 = c1
    c2 = c2
    g1 = g1
    Maps = {m1, m2}
    Length = 3
    Concurrency = 2
    None = None
    Compilations <- MCCompilations
    Speculative <- MCSpeculative
    Graphs <- MCGraphs
SPECIFICATION MCSpec
INVARIANTS
    EveryFlightDrained
CHECK_DEADLOCK FALSE
