------------------------ MODULE CacheEntryValidation ------------------------
(***************************************************************************)
(* Validation of one cache entry inside a validation scope                 *)
(* (scripts/lib/convex-wasm-artifact-cache-entry.mjs).  The callers of a   *)
(* scope share pending reads of the entry's physical state and memoized    *)
(* authentications, while other processes publish the entry, add and       *)
(* remove hard links of its payload, and, in the worst case, rewrite it.   *)
(* Each attempt of a call is fenced by a read of the physical state before *)
(* and after the authentication.                                           *)
(***************************************************************************)
EXTENDS Naturals, FiniteSets, FiniteSetsExt

CONSTANTS
    Callers,
    Attempts,       \* maximumAttempts; four unless the caller has another budget
    MaxChanges,     \* bounds the changes of the payload
    MaxLinks,       \* bounds its hard links
    MaxValidations, \* bounds the authentications that something still refers to
    None

ASSUME ScopeAssumption ==
    /\ Attempts \in Nat \ {0} /\ MaxChanges \in Nat
    /\ MaxLinks \in Nat \ {0} /\ MaxValidations \in Nat \ {0}

VARIABLES
    admitted,   \* whether entry.json records the state that its publisher admitted
    payload,    \* the artifact: None, or its times, its links and whether its bytes are right
    memo,       \* the scope's validation memo, by key
    retained,   \* the authenticated physical state of the entry, None or a record
    digests,    \* the payload memo: the digest of each physical state, where there is one
    flight,     \* the pending read of the physical state
    val,        \* the authentications
    call        \* the callers

vars == <<admitted, payload, memo, retained, digests, flight, val, call>>

Ids == 1..MaxValidations
Times == 0..MaxChanges
Payload == [ctime : Times, mtime : {0, 1}, nlink : 1..MaxLinks, good : BOOLEAN]
Phys == [ctime : Times, mtime : {0, 1}, nlink : 1..MaxLinks]
\* The memo's keys: the state and the caller's byte limit, of which only matters whether the
\* artifact exceeds it.
Keys == (Phys \cup {None}) \X BOOLEAN
Flight == [seen : BOOLEAN, state : Payload \cup {None}]
Retained == [state : Phys, val : Ids, key : Keys]

ASSUME NoneIsNothing == None \notin Payload \cup Phys \cup Flight \cup Retained

PhysOf(p) == IF p = None THEN None ELSE [ctime |-> p.ctime, mtime |-> p.mtime, nlink |-> p.nlink]
Admission == [ctime |-> 0, mtime |-> 0, nlink |-> 1]

\* Mutant: a change of ctime needs no explanation.
SameStable(p, q) == p.mtime = q.mtime
\* Mutant: nothing explains a change of ctime.
SameTimes(p, q) == p.mtime = q.mtime /\ p.ctime = q.ctime
\* sameArtifactCachePayloadContentStatus: a change of the link count explains one of ctime.
SameContent(p, q) == p.mtime = q.mtime /\ (p.ctime = q.ctime \/ p.nlink # q.nlink)
\* artifactCacheEntryPhysicalStateRetainsAuthenticatedBytes
Retains(p, q) == p = q \/ (p # None /\ q # None /\ SameContent(p, q))

NoVal == [step |-> "free", fits |-> TRUE, id |-> None, before |-> None, good |-> FALSE]
NoCall == [pc |-> "idle", left |-> Attempts, fits |-> TRUE, before |-> None, key |-> <<None, TRUE>>,
           val |-> 0, after |-> None, published |-> FALSE, changes |-> 0]

\* A digest is kept by the physical state, and no later state is ever equal to a past one.
NoDigests == [p \in {} |-> TRUE]

Init ==
    /\ admitted \in BOOLEAN
    /\ payload \in {None, [ctime |-> 0, mtime |-> 0, nlink |-> 1, good |-> TRUE]}
    /\ memo = [k \in {} |-> 0] /\ retained = None /\ digests = NoDigests
    /\ flight = None
    /\ val = [v \in Ids |-> NoVal] /\ call = [c \in Callers |-> NoCall]

\* Callbacks that are ready run before anything else completes.
Settled(v) == val[v].step \in {"entry", "miss", "changed", "error"}
Ready(c) ==
    \/ call[c].pc \in {"captured", "fenced"}
    \/ call[c].pc = "validating" /\ Settled(call[c].val)
Quiet == \A c \in Callers : ~Ready(c)

-----------------------------------------------------------------------------
(* The other processes.                                                    *)

\* The changes within a call (history).
Over == {"idle", "entry", "miss", "threw", "gaveUp"}
Counted == [c \in Callers |->
    IF call[c].pc \in Over THEN call[c]
    ELSE [call[c] EXCEPT !.changes = Min({@ + 1, 2 * Attempts})]]

\* publishArtifactCacheEntry: the whole entry appears by a rename.
Publish ==
    /\ Quiet /\ payload = None
    /\ payload' = [ctime |-> 0, mtime |-> 0, nlink |-> 1, good |-> TRUE]
    /\ call' = Counted
    /\ UNCHANGED <<admitted, memo, retained, digests, flight, val>>

\* The payload is linked into a package or a control entry, or such a link goes.
Link ==
    /\ Quiet /\ payload # None /\ payload.ctime < MaxChanges
    /\ payload.good \/ payload.mtime = 1
    /\ \E n \in {payload.nlink - 1, payload.nlink + 1} \cap 1..MaxLinks :
          payload' = [payload EXCEPT !.ctime = @ + 1, !.nlink = n]
    /\ call' = Counted /\ digests' = NoDigests
    /\ UNCHANGED <<admitted, memo, retained, flight, val>>

\* Something rewrites the bytes in place.  It may restore the time of modification, but then
\* no link of the payload comes or goes: links and such a rewrite cannot be told apart.
Rewrite(restoring) ==
    /\ Quiet /\ payload # None /\ payload.good /\ payload.ctime < MaxChanges
    /\ restoring => payload.ctime = 0
    /\ payload' = [payload EXCEPT !.ctime = @ + 1, !.good = FALSE,
                                  !.mtime = IF restoring THEN 0 ELSE 1]
    /\ call' = Counted /\ digests' = NoDigests
    /\ UNCHANGED <<admitted, memo, retained, flight, val>>

-----------------------------------------------------------------------------
(* artifactCacheEntryPhysicalStateInValidationScope: one pending read that *)
(* all who need one share, gone before they go on.                         *)

Joined == IF flight = None THEN [seen |-> FALSE, state |-> None] ELSE flight

FlightObserve ==
    /\ Quiet /\ flight # None /\ ~flight.seen
    /\ flight' = [seen |-> TRUE, state |-> payload]
    /\ UNCHANGED <<admitted, payload, memo, retained, digests, val, call>>

\* Mutant: the read stays, for all who come later.
FlightSettleKept ==
    /\ Quiet /\ flight # None /\ flight.seen
    /\ call' = [c \in Callers |->
          CASE call[c].pc = "before" ->
                  [call[c] EXCEPT !.pc = "captured", !.before = PhysOf(flight.state)]
            [] call[c].pc = "after" ->
                  [call[c] EXCEPT !.pc = "fenced", !.after = flight.state]
            [] OTHER -> call[c]]
    /\ UNCHANGED <<admitted, payload, memo, retained, digests, flight, val>>
FlightSettle ==
    /\ Quiet /\ flight # None /\ flight.seen
    /\ flight' = None
    /\ call' = [c \in Callers |->
          CASE call[c].pc = "before" ->
                  [call[c] EXCEPT !.pc = "captured", !.before = PhysOf(flight.state)]
            [] call[c].pc = "after" ->
                  [call[c] EXCEPT !.pc = "fenced", !.after = flight.state]
            [] OTHER -> call[c]]
    /\ UNCHANGED <<admitted, payload, memo, retained, digests, val>>

-----------------------------------------------------------------------------
(* validateArtifactCacheEntryInValidationScope                             *)

\* A caller between attempts, and one that is done, refer to no authentication.
Cleared(r) == [r EXCEPT !.before = None, !.key = NoCall.key, !.val = 0, !.after = None]

Without(f, k) == [x \in DOMAIN f \ {k} |-> f[x]]
With(f, k, y) == [x \in DOMAIN f \cup {k} |-> IF x = k THEN y ELSE f[x]]
\* The memo without a validation, unless another has taken its place.
Forget(k, v) == IF k \in DOMAIN memo /\ memo[k] = v THEN Without(memo, k) ELSE memo

Free == {v \in Ids :
            /\ val[v].step = "free" \/ Settled(v)
            /\ \A k \in DOMAIN memo : memo[k] # v
            /\ \A c \in Callers :
                  call[c].pc \notin {"validating", "after", "fenced"} \/ call[c].val # v
            /\ retained = None \/ retained.val # v}

Call(c, fits) ==
    /\ call[c].pc = "idle"
    /\ call' = [call EXCEPT ![c] = [NoCall EXCEPT !.pc = "before", !.fits = fits,
                                                  !.published = payload # None]]
    /\ flight' = Joined
    /\ UNCHANGED <<admitted, payload, memo, retained, digests, val>>

Validates(r, key, v) == [r EXCEPT !.pc = "validating", !.key = key, !.val = v]
\* Look for a retained authentication of these bytes, or for a memoized one of this state.
Captured(c) ==
    LET before == call[c].before
        reuse == retained # None /\ Retains(retained.state, before)
        kept == IF retained # None /\ ~reuse THEN Forget(retained.key, retained.val) ELSE memo
        key == IF reuse THEN retained.key ELSE <<before, call[c].fits>>
    IN
    /\ call[c].pc = "captured"
    /\ retained' = IF reuse THEN retained ELSE None
    /\ IF key \in DOMAIN kept
       THEN /\ memo' = kept /\ UNCHANGED val
            /\ call' = [call EXCEPT ![c] = Validates(@, key, kept[key])]
       ELSE /\ Free # {}
            /\ LET v == Min(Free) IN
               /\ memo' = With(kept, key, v)
               /\ val' = [val EXCEPT ![v] = [NoVal EXCEPT !.step = "look", !.fits = call[c].fits]]
               /\ call' = [call EXCEPT ![c] = Validates(@, key, v)]
    /\ UNCHANGED <<admitted, payload, digests, flight>>

\* Another attempt, if one is left.
Again(c) ==
    IF call[c].left = 1
    THEN /\ call' = [call EXCEPT ![c] = [Cleared(@) EXCEPT !.pc = "gaveUp"]]
         /\ UNCHANGED flight
    ELSE /\ call' = [call EXCEPT ![c] =
               [Cleared(@) EXCEPT !.pc = "before", !.left = call[c].left - 1]]
         /\ flight' = Joined

Validated(c) ==
    /\ call[c].pc = "validating"
    /\ LET result == val[call[c].val].step IN
       \/ /\ result = "error"
          /\ call' = [call EXCEPT ![c] = [Cleared(@) EXCEPT !.pc = "threw"]]
          /\ UNCHANGED <<memo, retained, flight>>
       \/ /\ result = "changed"
          /\ memo' = Forget(call[c].key, call[c].val) /\ retained' = None
          /\ Again(c)
       \/ /\ result \in {"entry", "miss"}
          /\ call' = [call EXCEPT ![c].pc = "after"] /\ flight' = Joined
          /\ UNCHANGED <<memo, retained>>
    /\ UNCHANGED <<admitted, payload, digests, val>>

\* The operational limit of the caller, checked at the tail.
Fits(c) == call[c].fits
\* The fence: nothing but links has changed, and the entry is there if it was authenticated.
Stable(c) ==
    /\ Retains(call[c].before, PhysOf(call[c].after))
    /\ (val[call[c].val].step = "miss") = (call[c].after = None)

Concluded(c) ==
    LET entry == val[call[c].val].step = "entry" IN
    /\ call[c].pc = "fenced"
    /\ IF ~Stable(c)
       THEN memo' = Forget(call[c].key, call[c].val) /\ retained' = None /\ Again(c)
       ELSE /\ memo' = IF entry THEN memo ELSE Forget(call[c].key, call[c].val)
            /\ retained' = IF entry
                           THEN [state |-> PhysOf(call[c].after), val |-> call[c].val,
                                 key |-> call[c].key]
                           ELSE IF memo' = memo THEN retained ELSE None
            /\ call' = [call EXCEPT ![c] = [Cleared(@) EXCEPT
                  !.pc = CASE ~entry -> "miss" [] entry /\ Fits(c) -> "entry" [] OTHER -> "threw",
                  !.after = call[c].after]]
            /\ UNCHANGED flight
    /\ UNCHANGED <<admitted, payload, digests, val>>

Return(c) ==
    /\ call[c].pc \in Over \ {"idle"}
    /\ call' = [call EXCEPT ![c] = NoCall]
    /\ UNCHANGED <<admitted, payload, memo, retained, digests, flight, val>>

-----------------------------------------------------------------------------
(* validateArtifactCacheEntryUncached, as a memoized promise.              *)

Settle(v, result) == val' = [val EXCEPT ![v] = [NoVal EXCEPT !.step = result, !.fits = val[v].fits]]
\* A failure is not memoized.
Fail(v) ==
    /\ Settle(v, "error")
    /\ memo' = [k \in {k \in DOMAIN memo : memo[k] # v} |-> memo[k]]

\* requirePrivateCacheDirectoryFileIdentities, and the entry's metadata.
ValLook(v) ==
    /\ Quiet /\ val[v].step = "look"
    /\ IF payload = None THEN Settle(v, "miss")
       ELSE val' = [val EXCEPT ![v] = [@ EXCEPT !.step = "admit", !.id = payload.mtime]]
    /\ UNCHANGED <<admitted, payload, memo, retained, digests, flight, call>>

\* The publisher's admission stands for the digest while the payload keeps its content state.
AdmissionHolds == admitted /\ SameContent(Admission, PhysOf(payload))

\* hashPrivateRegularFileInValidationScope takes its own state before the digest.
ValAdmit(v) ==
    /\ Quiet /\ val[v].step = "admit"
    /\ IF ~val[v].fits THEN Fail(v)
       ELSE /\ val' = [val EXCEPT ![v] = [@ EXCEPT
                  !.step = IF AdmissionHolds THEN "verify"
                           ELSE IF PhysOf(payload) \in DOMAIN digests THEN "hashed" ELSE "hash",
                  !.before = PhysOf(payload),
                  !.good = \/ AdmissionHolds
                           \/ PhysOf(payload) \in DOMAIN digests /\ digests[PhysOf(payload)]]]
            /\ UNCHANGED memo
    /\ UNCHANGED <<admitted, payload, retained, digests, flight, call>>

\* hashPrivateRegularFile fails if the file was modified since its identity was taken.
ValHash(v) ==
    /\ Quiet /\ val[v].step = "hash"
    /\ IF payload.mtime # val[v].id
       THEN Fail(v) /\ UNCHANGED digests
       ELSE /\ val' = [val EXCEPT ![v] = [@ EXCEPT !.step = "hashed", !.good = payload.good]]
            /\ digests' = IF val[v].before = PhysOf(payload)
                          THEN With(digests, val[v].before, payload.good) ELSE digests
            /\ UNCHANGED memo
    /\ UNCHANGED <<admitted, payload, retained, flight, call>>

ValHashed(v) ==
    /\ Quiet /\ val[v].step = "hashed"
    /\ IF ~SameContent(val[v].before, PhysOf(payload))
       THEN /\ Settle(v, "changed")
            /\ digests' = Without(digests, val[v].before)
            /\ UNCHANGED memo
       ELSE /\ IF val[v].good
               THEN val' = [val EXCEPT ![v].step = "verify"] /\ UNCHANGED memo
               ELSE Fail(v)
            /\ UNCHANGED digests
    /\ UNCHANGED <<admitted, payload, retained, flight, call>>

\* The verification of the identities taken at first.
ValVerify(v) ==
    /\ Quiet /\ val[v].step = "verify"
    /\ IF payload.mtime # val[v].id THEN Fail(v)
       ELSE Settle(v, "entry") /\ UNCHANGED memo
    /\ UNCHANGED <<admitted, payload, retained, digests, flight, call>>

-----------------------------------------------------------------------------
Next ==
    \/ \E c \in Callers :
          \/ \E fits \in BOOLEAN : Call(c, fits)
          \/ Captured(c) \/ Validated(c) \/ Concluded(c) \/ Return(c)
    \/ \E v \in Ids : ValLook(v) \/ ValAdmit(v) \/ ValHash(v) \/ ValHashed(v) \/ ValVerify(v)
    \/ FlightObserve \/ FlightSettle
    \/ Publish \/ Link \/ \E restoring \in BOOLEAN : Rewrite(restoring)

Spec == Init /\ [][Next]_vars

-----------------------------------------------------------------------------
(* Properties.                                                             *)

TypeOK ==
    /\ payload \in Payload \cup {None}
    /\ DOMAIN memo \subseteq Keys /\ \A k \in DOMAIN memo : memo[k] \in Ids
    /\ retained \in Retained \cup {None} /\ DOMAIN digests \subseteq Phys
    /\ flight \in Flight \cup {None} /\ \A c \in Callers : call[c].left \in 1..Attempts
    /\ (flight # None) = \E c \in Callers : call[c].pc \in {"before", "after"}

\* An entry that a call returns had the right bytes when its last fence looked.
EntryIsAuthentic == \A c \in Callers : call[c].pc = "entry" => call[c].after.good

\* What was published before a call is not missed by it, however old the reads it joined are.
PublishedIsFound == \A c \in Callers : call[c].pc = "miss" => ~call[c].published

\* A caller's own byte limit holds, whoever's authentication it reuses.
LimitHolds == \A c \in Callers : call[c].pc = "entry" => call[c].fits

\* Short of a rewrite, a call gives up only if two changes undid each other while it was under
\* way, and twice as many for every two further attempts.  They do not come with each attempt:
\* the first may fail for what changed before the call, as it joins an old read, and an attempt
\* for what made the one before it fail, as it joins a read from before these changes.
GivesUpOnlyUnderChurn ==
    \A c \in Callers : call[c].pc = "gaveUp" /\ payload.good
        => call[c].changes >= 2 * (Attempts \div 2)

\* What the memo keeps is in flight or authenticated, and never an answer that a change has
\* made void.
MemoIsLive ==
    \A k \in DOMAIN memo : val[memo[k]].step \notin {"free", "error"}

=============================================================================
