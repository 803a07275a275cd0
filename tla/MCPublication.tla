--------------------------- MODULE MCPublication ---------------------------
(***************************************************************************)
(* Model-checking instance of Publications.  The two publications share no *)
(* state, so their steps need not be interleaved: every behaviour is one   *)
(* of either.                                                              *)
(***************************************************************************)
EXTENDS Publications, TLC

CONSTANTS p1, p2, c1, c2, c3

MCPublishers == {p1, p2}
MCCheckouts == {c1, c2, c3}
MCSymmetry == Permutations(MCPublishers) \cup Permutations(MCCheckouts)

MCNames == {"core", "aot", "base", "leaf", "g1", "g2"}
MCRecords == {1, 2}
Artifact(stage, key, record) == [stage |-> stage, key |-> key, record |-> record]
Base == Artifact("core", "base", 1)
Leaf == Artifact("core", "leaf", 1)
Code == Artifact("aot", "base", 1)
Graph(package, artifacts) == [package |-> package, artifacts |-> artifacts]

\* One graph twice; two that share an artifact; two that disagree about one.
MCGraphLists ==
    {<<Graph("g1", <<Base>>), Graph("g1", <<Base>>)>>,
     <<Graph("g1", <<Base, Code>>), Graph("g2", <<Base, Leaf>>)>>,
     <<Graph("g1", <<Base>>), Graph("g2", <<Artifact("core", "base", 2)>>)>>}

VARIABLE subject    \* which of the two a behaviour is about

MCInit ==
    /\ PublicationInit /\ subject \in {"registry", "package"}
    /\ subject = "package" => graphs = [p \in Publishers |-> CHOOSE g \in GraphLists : TRUE]

MCNext ==
    /\ UNCHANGED subject
    /\ \/ subject = "registry" /\ Registry!Next /\ UNCHANGED acquisition
       \/ subject = "package" /\ Package!Next /\ UNCHANGED registry

MCSpec == MCInit /\ [][MCNext]_<<registry, acquisition, subject>>

=============================================================================
