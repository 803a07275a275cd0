--------------------------- MODULE MCShardPlanner ---------------------------
(***************************************************************************)
(* Model-checking instance of PhysicalShardPlanner: of all its requests    *)
(* those whose graph has no cycle, with weights and cohorts; and those     *)
(* with a cycle, with units of one weight.                                 *)
(***************************************************************************)
EXTENDS PhysicalShardPlanner

MCCohortSets == {{"a", "b"}, {"b", "c"}, {"a"}}
MCWeights == {1, 2, 4}

Irreflexive(graph) == \A u \in Units : u \notin graph[u]
Acyclic(graph) == \A u \in Units : u \notin Reached(graph, graph[u])

\* All units are in two cohorts, but one may be in one cohort or in others.
OneApart(cohorts) == Cardinality({u \in Units : cohorts[u] # {"a", "b"}}) <= 1
\* A weight that passes the target is there at most once.
OneOversize(weight) == Cardinality({u \in Units : weight[u] > Target}) <= 1

\* Where weights differ, cohorts do not.
OneWeight(weight) == \A u \in Units : weight[u] = 1
OneCohortSet(cohorts) == \A u \in Units : cohorts[u] = {"a", "b"}

MCInit ==
    /\ \E graph \in {g \in [Units -> SUBSET Units] : Irreflexive(g)} :
       \E weight \in IF Acyclic(graph) THEN {w \in [Units -> Weights] : OneOversize(w)}
                     ELSE {[u \in Units |-> 1]},
          cohorts \in {c \in [Units -> CohortSets] : OneApart(c)} :
          /\ OneWeight(weight) \/ OneCohortSet(cohorts)
          /\ request = [dependencies |-> graph, weight |-> weight, cohorts |-> cohorts,
                        shareable |-> [u \in Units |-> TRUE]]
    /\ Requested

MCSpec == MCInit /\ [][Next]_vars

=============================================================================
