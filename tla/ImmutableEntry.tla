--------------------------- MODULE ImmutableEntry ---------------------------
(***************************************************************************)
(* What an artifact stage promises its callers, whatever flights, retries  *)
(* and races there are: the entry of a content key appears once and never  *)
(* changes, and a call, which states a byte limit, ends at most once, with *)
(* that entry if it is within the limit, refused because of its limit, or  *)
(* failed.                                                                 *)
(***************************************************************************)
EXTENDS Integers

CONSTANTS Callers, Limits, Sizes, None

VARIABLES
    entry,      \* size of the published entry, or None
    limit,      \* each call's limit, None until the call is made
    outcome,    \* pending, resolved, toolarge or failed
    bytes       \* size of the entry that a resolved call was given

vars == <<entry, limit, outcome, bytes>>

Init ==
    /\ entry = None
    /\ limit = [c \in Callers |-> None]
    /\ outcome = [c \in Callers |-> "pending"]
    /\ bytes = [c \in Callers |-> None]

Publish ==
    /\ entry = None
    /\ entry' \in Sizes
    /\ UNCHANGED <<limit, outcome, bytes>>

Call(c) ==
    /\ limit[c] = None
    /\ \E l \in Limits : limit' = [limit EXCEPT ![c] = l]
    /\ UNCHANGED <<entry, outcome, bytes>>

Ends(c, how) ==
    /\ limit[c] # None /\ outcome[c] = "pending"
    /\ outcome' = [outcome EXCEPT ![c] = how]
    /\ UNCHANGED <<entry, limit>>

Resolve(c) ==
    /\ Ends(c, "resolved")
    /\ entry # None /\ entry <= limit[c]
    /\ bytes' = [bytes EXCEPT ![c] = entry]

\* Some artifact of the key, built or published, is larger than the limit.
Refuse(c) ==
    /\ Ends(c, "toolarge") /\ UNCHANGED bytes
    /\ \E s \in Sizes : s > limit[c]

Fail(c) == Ends(c, "failed") /\ UNCHANGED bytes

Next ==
    \/ Publish
    \/ \E c \in Callers : Call(c) \/ Resolve(c) \/ Refuse(c) \/ Fail(c)

Spec == Init /\ [][Next]_vars

=============================================================================
