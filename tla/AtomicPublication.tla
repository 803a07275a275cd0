------------------------- MODULE AtomicPublication -------------------------
(***************************************************************************)
(* What the publications of this repository promise for one path that      *)
(* several publishers want to fill with a directory tree: a reader finds   *)
(* nothing or all of one publisher's tree, a tree that somebody was told   *)
(* about is there for good, and a publisher is told of success only with   *)
(* such a tree at the path.  A failure says nothing about the path.        *)
(***************************************************************************)
CONSTANTS
    Publishers,
    None,
    Adopting    \* whether a publisher is content with another one's tree

VARIABLES
    content,    \* whose complete tree a reader finds at the path
    answer      \* what each publisher was told: nothing yet, success or failure

vars == <<content, answer>>

Init ==
    /\ content = None
    /\ answer = [p \in Publishers |-> "none"]

Appear(p) ==
    /\ content = None /\ answer[p] = "none"
    /\ content' = p
    /\ UNCHANGED answer

\* A power failure takes back a tree that nobody was told about.
Vanish ==
    /\ content # None
    /\ \A p \in Publishers : answer[p] # "success"
    /\ content' = None
    /\ UNCHANGED answer

Succeed(p) ==
    /\ answer[p] = "none"
    /\ IF Adopting THEN content \in Publishers ELSE content = p
    /\ answer' = [answer EXCEPT ![p] = "success"]
    /\ UNCHANGED content

Fail(p) ==
    /\ answer[p] = "none"
    /\ answer' = [answer EXCEPT ![p] = "failure"]
    /\ UNCHANGED content

Next == Vanish \/ \E p \in Publishers : Appear(p) \/ Succeed(p) \/ Fail(p)

Spec == Init /\ [][Next]_vars

=============================================================================
