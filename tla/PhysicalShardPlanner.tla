------------------------ MODULE PhysicalShardPlanner ------------------------
(***************************************************************************)
(* Which logical units become shared shards, and of which components a     *)
(* shard consists (scripts/lib/convex-wasm-physical-shard-planner.mjs).    *)
(*                                                                         *)
(* Code identities and the fingerprints of components are in an order of   *)
(* their own, which is that of numbers here: a unit is a number, and a     *)
(* component, a set of units, comes where its least unit does.  Requests   *)
(* are authenticated, and no two of their units have a binding in common.  *)
(*                                                                         *)
(* This module has recursive operators and no theorems.                    *)
(***************************************************************************)
EXTENDS Naturals, FiniteSets, FiniteSetsExt, SequencesExt, TLC

CONSTANTS
    Units,          \* the logical units, by code identity
    Weights,        \* byte weights of objects
    CohortSets,     \* sets of cohorts that a unit may occur in
    Target,         \* policy.targetShardWeight
    MinimumCohorts  \* policy.minimumCohortCount

VARIABLES
    request,
    phase,          \* "requested", "placing", "planned" or "failed"
    needs,          \* of each component, a set of units, the components that it depends on
    eligible,       \* the components with sharedEligible
    quotient,       \* of each component: the quotient bin it is in, named by the component
                    \* that the bin was made for; of each bin: dependencies and dependents
    bins,           \* the shards so far
    unplaced,       \* normalComponents from the current one on
    shardOrder

vars == <<request, phase, needs, eligible, quotient, bins, unplaced, shardOrder>>

Requests ==
    [dependencies : [Units -> SUBSET Units], weight : [Units -> Weights],
     cohorts : [Units -> CohortSets], shareable : [Units -> BOOLEAN]]

Least(C) == Min(C)
Ascending(S) == SelectSeq([i \in 1 .. Max(Units) |-> i], LAMBDA i : i \in S)
InOrder(S) ==
    LET least == Ascending({Least(C) : C \in S}) IN
    [i \in DOMAIN least |-> CHOOSE C \in S : Least(C) = least[i]]

WeightOf(C) == MapThenSumSet(LAMBDA u : request.weight[u], C)
\* The occurrences of the first unit stand for the component.
CohortsOf(C) == request.cohorts[Least(C)]
Shareable(C) == \A u \in C : request.shareable[u]
DependenciesOf(u) == request.dependencies[u]

components == DOMAIN needs

-----------------------------------------------------------------------------
(* stronglyConnectedComponents                                             *)

Unvisited == [index |-> [u \in {} |-> 0], lowLink |-> [u \in {} |-> 0], stack |-> <<>>,
              found |-> {}]

\* Mutant: the index compared is the unit's own.
LinkBackOwn(s, u, d) == Min({s.index[u], s.lowLink[u]})
\* A dependency d that is on the stack.
LinkBack(s, u, d) == Min({s.index[d], s.lowLink[u]})

Enter(s, u) ==
    [s EXCEPT !.index = @ @@ (u :> Cardinality(DOMAIN @)),
              !.lowLink = @ @@ (u :> Cardinality(DOMAIN s.index)),
              !.stack = Append(@, u)]

\* What is above u on the stack, and u, is a component.
Leave(s, u) ==
    LET at == CHOOSE i \in DOMAIN s.stack : s.stack[i] = u IN
    IF s.lowLink[u] # s.index[u] THEN s
    ELSE [s EXCEPT !.stack = SubSeq(@, 1, at - 1),
                   !.found = @ \cup {{s.stack[i] : i \in at .. Len(s.stack)}}]

RECURSIVE Visit(_, _)
Visit(s, u) ==
    LET Follow(t, d) ==
            IF d \notin DOMAIN t.index
            THEN LET v == Visit(t, d) IN [v EXCEPT !.lowLink[u] = Min({@, v.lowLink[d]})]
            ELSE IF Contains(t.stack, d) THEN [t EXCEPT !.lowLink[u] = LinkBack(t, u, d)]
            ELSE t
    IN Leave(FoldLeft(Follow, Enter(s, u), Ascending(DependenciesOf(u))), u)

StronglyConnectedComponents ==
    FoldLeft(LAMBDA s, u : IF u \in DOMAIN s.index THEN s ELSE Visit(s, u),
             Unvisited, Ascending(Units)).found

-----------------------------------------------------------------------------
(* buildComponents                                                         *)

DependencyComponents(all) ==
    [C \in all |-> {D \in all \ {C} : \E u \in C : DependenciesOf(u) \cap D # {}}]

Candidate(C) == Shareable(C) /\ Cardinality(CohortsOf(C)) >= MinimumCohorts

Incoherent(C) ==
    /\ Cardinality(C) > 1
    /\ \E u \in C : request.cohorts[u] # CohortsOf(C)

Undecided == [decided |-> [C \in {} |-> FALSE], resolving |-> {}, refused |-> FALSE,
              cyclic |-> FALSE]
Decide(s, C, verdict) == [s EXCEPT !.decided = @ @@ (C :> verdict)]

\* resolveSharedEligibility: a component is eligible if it is a candidate and all that it
\* needs is eligible, looked at in order and up to the first that is not.
RECURSIVE Resolve(_, _, _)
Resolve(graph, s, C) ==
    IF s.cyclic \/ C \in DOMAIN s.decided THEN s
    ELSE IF ~Candidate(C) THEN Decide(s, C, FALSE)
    ELSE IF C \in s.resolving THEN [s EXCEPT !.cyclic = TRUE]
    ELSE LET Look(t, D) ==
                 IF t.refused THEN t
                 ELSE LET r == Resolve(graph, t, D) IN
                      [r EXCEPT !.refused = r.cyclic \/ ~r.decided[D]]
             looked == FoldLeft(Look, [s EXCEPT !.resolving = @ \cup {C}, !.refused = FALSE],
                                InOrder(graph[C]))
         IN IF looked.cyclic THEN looked
            ELSE Decide([looked EXCEPT !.resolving = @ \ {C}], C, ~looked.refused)

Eligibility(graph) ==
    FoldLeft(LAMBDA s, C : Resolve(graph, s, C), Undecided, InOrder(DOMAIN graph))

-----------------------------------------------------------------------------
(* The quotient graph of the components.                                   *)

CreateQuotient(graph) ==
    [of |-> [C \in DOMAIN graph |-> C],
     dependencies |-> graph,
     dependents |-> [C \in DOMAIN graph |-> {D \in DOMAIN graph : C \in graph[D]}]]

RECURSIVE Reached(_, _)
Reached(edges, S) ==
    LET more == S \cup UNION {edges[B] : B \in S} IN
    IF more = S THEN S ELSE Reached(edges, more)

\* Mutant: a direct edge counts.
HasPath(q, from, to) == to \in Reached(q.dependencies, q.dependencies[from])

HasIndirectPath(q, from, to) ==
    LET onward == [q.dependencies EXCEPT ![from] = {}] IN
    to \in Reached(onward, q.dependencies[from] \ {to})

CanMerge(q, target, source) ==
    ~HasIndirectPath(q, target, source) /\ ~HasIndirectPath(q, source, target)

\* Mutant: the neighbours still name the bin that is gone.
RedirectOwn(edges, back, target, source) ==
    [B \in DOMAIN edges |->
        CASE B = source -> {}
          [] B = target -> (edges[target] \cup edges[source]) \ {target, source}
          [] OTHER -> edges[B]]

\* One direction of the edges when `source` goes into `target`.
Redirect(edges, back, target, source) ==
    [B \in DOMAIN edges |->
        CASE B = source -> {}
          [] B = target -> (edges[target] \cup edges[source]) \ {target, source}
          [] B \in back[source] \ {source, target} -> (edges[B] \ {source}) \cup {target}
          [] OTHER -> edges[B]]

Merge(q, target, source) ==
    [of |-> [C \in DOMAIN q.of |-> IF q.of[C] = source THEN target ELSE q.of[C]],
     dependencies |-> Redirect(q.dependencies, q.dependents, target, source),
     dependents |-> Redirect(q.dependents, q.dependencies, target, source)]

-----------------------------------------------------------------------------
(* planConvexWasmPhysicalShards                                            *)

NoComponents == [C \in {} |-> {}]

Requested ==
    /\ phase = "requested"
    /\ needs = NoComponents /\ eligible = {} /\ bins = {} /\ unplaced = <<>> /\ shardOrder = <<>>
    /\ quotient = CreateQuotient(NoComponents)

Init == request \in Requests /\ Requested

Shard(C) == [parts |-> {C}, weight |-> WeightOf(C), cohorts |-> CohortsOf(C),
             oversize |-> WeightOf(C) > Target]

\* Heavier components first.
PlacedBefore(C, D) ==
    \/ WeightOf(C) > WeightOf(D)
    \/ WeightOf(C) = WeightOf(D) /\ Least(C) < Least(D)

\* buildComponents, and the start of placeSharedComponents: oversize components have a shard
\* of their own.
BuildComponents ==
    /\ phase = "requested"
    /\ LET graph == DependencyComponents(StronglyConnectedComponents)
           resolved == Eligibility(graph)
           shared == {C \in DOMAIN resolved.decided : resolved.decided[C]}
           normal == {C \in shared : WeightOf(C) <= Target} IN
       /\ needs' = graph
       /\ IF resolved.cyclic \/ \E C \in DOMAIN graph : Incoherent(C)
          THEN phase' = "failed" /\ UNCHANGED <<eligible, quotient, bins, unplaced>>
          ELSE /\ phase' = "placing"
               /\ eligible' = shared
               /\ quotient' = CreateQuotient(graph)
               /\ bins' = {Shard(C) : C \in shared \ normal}
               /\ unplaced' = SortSeq(InOrder(normal), PlacedBefore)
    /\ UNCHANGED <<request, shardOrder>>

BinOf(b) == quotient.of[CHOOSE C \in b.parts : TRUE]

\* The shards with room for a component that have its cohorts.
Fits(C, b) == WeightOf(C) + b.weight <= Target /\ CohortsOf(C) = b.cohorts

\* The lightest first.
TriedBefore(b, d) ==
    \/ b.weight < d.weight
    \/ b.weight = d.weight /\ Min(UNION b.parts) < Min(UNION d.parts)

Place ==
    /\ phase = "placing" /\ unplaced # <<>>
    /\ LET C == Head(unplaced)
           open == {b \in bins : Fits(C, b) /\ CanMerge(quotient, BinOf(b), quotient.of[C])} IN
       IF open = {}
       THEN bins' = bins \cup {Shard(C)} /\ UNCHANGED quotient
       ELSE LET b == CHOOSE b \in open : \A d \in open \ {b} : TriedBefore(b, d) IN
            /\ bins' = (bins \ {b}) \cup
                   {[b EXCEPT !.parts = @ \cup {C}, !.weight = @ + WeightOf(C)]}
            /\ quotient' = Merge(quotient, BinOf(b), quotient.of[C])
    /\ unplaced' = Tail(unplaced)
    /\ UNCHANGED <<request, phase, needs, eligible, shardOrder>>

\* validatePhysicalShardQuotient
Validated ==
    /\ UNION {b.parts : b \in bins} = eligible
    /\ \A b \in bins, C \in components : C \in b.parts <=> quotient.of[C] = BinOf(b)
    /\ \A C \in components \ eligible :
          \A D \in components \ {C} : quotient.of[C] # quotient.of[D]

ShardNeeds(b) ==
    {d \in bins \ {b} : \E C \in b.parts : needs[C] \cap d.parts # {}}

\* orderShards: of the shards whose dependencies are in order, the least comes next.
RECURSIVE OrderAfter(_)
OrderAfter(done) ==
    LET ready == {b \in bins \ Range(done) : ShardNeeds(b) \subseteq Range(done)}
        Key(b) == Min(UNION b.parts) IN
    IF ready = {} THEN done
    ELSE OrderAfter(Append(done, CHOOSE b \in ready : \A d \in ready : Key(b) <= Key(d)))

Finish ==
    /\ phase = "placing" /\ unplaced = <<>>
    /\ LET order == OrderAfter(<<>>) IN
       IF Validated /\ Len(order) = Cardinality(bins)
       THEN phase' = "planned" /\ shardOrder' = order
       ELSE phase' = "failed" /\ UNCHANGED shardOrder
    /\ UNCHANGED <<request, needs, eligible, quotient, bins, unplaced>>

Next == BuildComponents \/ Place \/ Finish
Spec == Init /\ [][Next]_vars

-----------------------------------------------------------------------------
(* Properties.                                                             *)

TypeOK ==
    /\ phase \in {"requested", "placing", "planned", "failed"}
    /\ components \subseteq SUBSET Units /\ eligible \subseteq components
    /\ \A b \in bins : b.parts \subseteq eligible /\ b.weight \in Nat /\ b.oversize \in BOOLEAN
    /\ Range(unplaced) \subseteq eligible /\ Range(shardOrder) \subseteq bins

\* What a unit depends on, through others.
Closure(u) == Reached(request.dependencies, DependenciesOf(u))
Mutual(u, v) == u \in Closure(v) /\ v \in Closure(u)

\* The quotient that is kept up from merge to merge is the one that a rebuild gives.
QuotientIsExact ==
    \A B \in Range(quotient.of) :
        LET bin == {C \in components : quotient.of[C] = B}
            outer == UNION {needs[C] : C \in bin} \ bin IN
        /\ quotient.dependencies[B] = {quotient.of[D] : D \in outer}
        /\ \A A \in Range(quotient.of) : A \in quotient.dependents[B] <=> B \in quotient.dependencies[A]

\* Units that depend on each other stay together, and no others are put together; the planner
\* fails only if such units do not occur in the same cohorts, and so no merge closes a cycle.
CyclesStayAtomic ==
    /\ phase # "requested" =>
          \A u, v \in Units : u # v => (Mutual(u, v) <=> \E C \in components : {u, v} \subseteq C)
    /\ phase = "failed" =>
          \E u, v \in Units : Mutual(u, v) /\ request.cohorts[u] # request.cohorts[v]

\* planConvexWasmPhysicalShards: components are atomic, a component is shared if all that it
\* needs can be, it is in one shard with components of the same cohorts, and no shard is too
\* heavy but for a single component.
PlanIsSound ==
    /\ TypeOK /\ QuotientIsExact /\ CyclesStayAtomic
    /\ phase = "planned" =>
          /\ eligible = {C \in components :
                \A u \in C : \A v \in Closure(u) \cup {u} :
                    \A D \in components : v \in D => Candidate(D)}
          /\ \A C \in eligible : Cardinality({b \in bins : C \in b.parts}) = 1
          /\ \A b \in bins :
                /\ b.weight = MapThenSumSet(WeightOf, b.parts)
                /\ b.weight > Target => Cardinality(b.parts) = 1
                /\ \A C \in b.parts : CohortsOf(C) = b.cohorts

\* placeSharedComponents: a component joins the lightest shard that has its cohorts, room for
\* it, and no path to it or from it through a third one; and has one of its own if there is none.
PlacementIsExact ==
    [][unplaced # <<>> =>
        LET C == Head(unplaced)
            Groups(b) ==
                {b.parts \cup {C}} \cup {d.parts : d \in bins \ {b}} \cup
                {{D} : D \in components \ (UNION {d.parts : d \in bins} \cup {C})}
            Edges(b) ==
                [G \in Groups(b) |-> {H \in Groups(b) \ {G} :
                    \E D \in G : needs[D] \cap H # {}}]
            ClosesCycle(b) == LET G == b.parts \cup {C} IN G \in Reached(Edges(b), Edges(b)[G])
            fitting == {b \in bins : Fits(C, b) /\ ~ClosesCycle(b)}
            lightest == {b \in fitting : \A d \in fitting : b.weight <= d.weight}
        IN \E new \in bins' \ bins :
              new.parts \in IF fitting = {} THEN {{C}} ELSE {b.parts \cup {C} : b \in lightest}]_vars

=============================================================================
