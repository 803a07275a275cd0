\* Four units: chains, diamonds, cycles, a path through a third shard, and a shard of three
\* components.
CONSTANTS
    Units = {1, 2, 3, 4}
    Weights <- MCWeights
    CohortSets <- MCCohortSets
    Target = 3
    MinimumCohorts = 2
SPECIFICATION MCSpec
INVARIANTS
    PlanIsSound
PROPERTIES
    PlacementIsExact
CHECK_DEADLOCK FALSE
