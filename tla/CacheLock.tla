----------------------------- MODULE CacheLock -----------------------------
(***************************************************************************)
(* The cross-process cache lock                                            *)
(* (scripts/lib/convex-wasm-cache-lock.mjs).                               *)
(*                                                                         *)
(* The lock itself is a SQLite write transaction that its owner keeps      *)
(* open.  A second database holds one authority record per acquisition: a  *)
(* random token with the owner's process id and start identity.  The owner *)
(* puts the token in its environment, children inherit it, and a process   *)
(* that finds a record for its token whose owner is still running reuses   *)
(* the lock instead of waiting for it.                                     *)
(*                                                                         *)
(* Every SQLite statement and every look at the process table is a step of *)
(* its own: other processes run in between.  A process is a process id and *)
(* the start identity of its present incarnation.                          *)
(***************************************************************************)
EXTENDS Integers, FiniteSets

CONSTANTS
    Pids,           \* process ids, reused after a process is gone
    None,
    MaxStart,       \* bound: incarnations of one process id
    MaxToken        \* bound: acquisitions, each with a token of its own

ASSUME LockAssumption ==
    /\ None \notin Pids /\ None \notin Nat
    /\ MaxStart \in Nat /\ MaxToken \in Nat

VARIABLES
    alive,      \* the running process ids
    start,      \* start identity of a process id's latest incarnation
    parent,     \* the process that started it, or None
    disturbed,  \* history: a process died, or went on without its children
    env,        \* CONVEX_WASM_CACHE_LOCK_AUTHORITY of each process
    lock,       \* owner of the open write transaction
    table,      \* the authority records
    lastToken,  \* tokens handed out so far
    pc,         \* where each process is
    intent,     \* acquire() or requireAuthority()
    seen,       \* the owner that the process read from a record
    rows,       \* the records a process read in order to prune them
    stale,      \* the rowids it found stale
    token,      \* the token of its acquisition
    saved       \* inheritedAuthority: its environment before the acquisition

processes == <<alive, start, parent, disturbed>>
locals == <<intent, seen, rows, stale, token, saved>>
vars == <<alive, start, parent, disturbed, env, lock, table, lastToken, pc, locals>>

Tokens == 1 .. MaxToken
Owner == [pid : Pids, start : 0 .. MaxStart]
Record == [rowid : Nat \ {0}, token : Tokens, pid : Pids, start : 0 .. MaxStart]

\* Mutant: a recycled process id passes for its former owner.
SamePid(owner) == owner.pid \in alive

\* processStartIdentity names the same process as the record.
OwnerLive(owner) == owner.pid \in alive /\ start[owner.pid] = owner.start


\* External: SQLite gives a new row the largest rowid in the table plus one, so the
\* rowid of a deleted last row is used again.  The set has one element.
NextRowids ==
    {n \in {1} \cup {r.rowid + 1 : r \in table} : \A r \in table : r.rowid < n}

-----------------------------------------------------------------------------
Init ==
    /\ alive = {}
    /\ start = [p \in Pids |-> 0]
    /\ parent = [p \in Pids |-> None]
    /\ disturbed = FALSE
    /\ env = [p \in Pids |-> None]
    /\ lock = None /\ table = {} /\ lastToken = 0
    /\ pc = [p \in Pids |-> "idle"]
    /\ intent = [p \in Pids |-> "acquire"]
    /\ seen = [p \in Pids |-> None]
    /\ rows = [p \in Pids |-> {}]
    /\ stale = [p \in Pids |-> {}]
    /\ token = [p \in Pids |-> None]
    /\ saved = [p \in Pids |-> None]

At(p, where) == p \in alive /\ pc[p] = where
Goto(p, where) == pc' = [pc EXCEPT ![p] = where]

(***************************************************************************)
(* External: processes come and go.                                        *)
(***************************************************************************)
Begins(c, by, authority) ==
    /\ c \notin alive /\ start[c] < MaxStart
    /\ alive' = alive \cup {c}
    /\ start' = [start EXCEPT ![c] = @ + 1]
    /\ parent' = [parent EXCEPT ![c] = by]
    /\ env' = [env EXCEPT ![c] = authority]
    /\ UNCHANGED <<disturbed, lock, table, lastToken, pc, locals>>

Launch(c) == Begins(c, None, None)

\* A child inherits the environment (inheritedConvexWasmCacheLockAuthorityEnvironment
\* or the whole of process.env).
Spawn(p, c) ==
    /\ p \in alive /\ pc[p] \in {"idle", "begin", "held", "nested"}
    /\ Begins(c, p, env[p])

Childless(p) == \A c \in alive : parent[c] # p

\* The process ends: the kernel drops its transaction, its record stays.  A child
\* it leaves behind is nobody's.
Ends(p) ==
    /\ alive' = alive \ {p}
    /\ parent' = [c \in Pids |-> IF c = p \/ parent[c] = p THEN None ELSE parent[c]]
    /\ env' = [env EXCEPT ![p] = None]
    /\ lock' = IF lock = p THEN None ELSE lock
    /\ Goto(p, "idle")
    /\ seen' = [seen EXCEPT ![p] = None]
    /\ intent' = [intent EXCEPT ![p] = "acquire"]
    /\ rows' = [rows EXCEPT ![p] = {}]
    /\ stale' = [stale EXCEPT ![p] = {}]
    /\ token' = [token EXCEPT ![p] = None]
    /\ saved' = [saved EXCEPT ![p] = None]
    /\ UNCHANGED <<start, table, lastToken>>

Exit(p) == At(p, "idle") /\ Ends(p) /\ disturbed' = (disturbed \/ ~Childless(p))
Crash(p) == p \in alive /\ Ends(p) /\ disturbed' = TRUE

(***************************************************************************)
(* liveInheritedAuthorityOwnerPid, for acquire() and requireAuthority().   *)
(***************************************************************************)
Miss(p, why) == Goto(p, IF why = "acquire" THEN "select" ELSE "idle")

\* authorityOwner: read the record of the token in the environment.
Lookup(p, why) ==
    /\ At(p, "idle")
    /\ IF \E r \in table : r.token = env[p]
       THEN \E r \in table :
              /\ r.token = env[p]
              /\ seen' = [seen EXCEPT ![p] = [pid |-> r.pid, start |-> r.start]]
              /\ intent' = [intent EXCEPT ![p] = why]
              /\ Goto(p, "observe")
       ELSE UNCHANGED <<seen, intent>> /\ Miss(p, why)
    /\ UNCHANGED <<processes, env, lock, table, lastToken, rows, stale, token, saved>>

\* processStartIdentity(owner.pid) against the record.  In the owner itself acquire()
\* throws and requireAuthority() returns; any other process goes on under the owner's
\* lock.
Observe(p) ==
    /\ At(p, "observe")
    /\ IF ~OwnerLive(seen[p]) THEN Miss(p, intent[p])
       ELSE Goto(p, IF seen[p].pid = p THEN "idle" ELSE "nested")
    /\ intent' = [intent EXCEPT ![p] = "acquire"]
    /\ seen' = [seen EXCEPT ![p] = IF OwnerLive(@) /\ @.pid # p THEN @ ELSE None]
    /\ UNCHANGED <<processes, env, lock, table, lastToken, rows, stale, token, saved>>

\* The release function of a nested acquisition does nothing.
NestedDone(p) ==
    /\ At(p, "nested")
    /\ Goto(p, "idle")
    /\ seen' = [seen EXCEPT ![p] = None]
    /\ UNCHANGED <<processes, env, lock, table, lastToken, intent, rows, stale,
                   token, saved>>

(***************************************************************************)
(* acquireConvexWasmCacheLock.                                             *)
(***************************************************************************)

\* openAuthorityDatabase: read every record,
Select(p) ==
    /\ At(p, "select") /\ lastToken < MaxToken
    /\ rows' = [rows EXCEPT ![p] = table]
    /\ Goto(p, "filter")
    /\ UNCHANGED <<processes, env, lock, table, lastToken, intent, seen, stale,
                   token, saved>>

\* keep the ones whose owner is gone,
Filter(p) ==
    /\ At(p, "filter")
    /\ stale' = [stale EXCEPT ![p] =
          {r.rowid : r \in {q \in rows[p] : ~OwnerLive([pid |-> q.pid, start |-> q.start])}}]
    /\ rows' = [rows EXCEPT ![p] = {}]
    /\ Goto(p, "prune")
    /\ UNCHANGED <<processes, env, lock, table, lastToken, intent, seen, token, saved>>

\* and delete them one rowid after the other: whatever record has that rowid now.
Prune(p) ==
    /\ At(p, "prune")
    /\ \E id \in stale[p] :
          /\ \A other \in stale[p] : id <= other
          /\ table' = {r \in table : r.rowid # id}
          /\ stale' = [stale EXCEPT ![p] = @ \ {id}]
    /\ UNCHANGED <<processes, env, lock, lastToken, pc, intent, seen, rows, token, saved>>

\* Mutant: the environment names the new authority before the lock is held.
InsertAndExport(p) ==
    /\ At(p, "prune") /\ stale[p] = {} /\ lastToken < MaxToken
    /\ lastToken' = lastToken + 1
    /\ token' = [token EXCEPT ![p] = lastToken + 1]
    /\ \E id \in NextRowids :
          table' = table \cup {[rowid |-> id, token |-> lastToken + 1,
                               pid |-> p, start |-> start[p]]}
    /\ env' = [env EXCEPT ![p] = lastToken + 1]
    /\ Goto(p, "begin")
    /\ UNCHANGED <<processes, lock, intent, seen, rows, stale, saved>>

\* Insert the new record.
Insert(p) ==
    /\ At(p, "prune") /\ stale[p] = {} /\ lastToken < MaxToken
    /\ lastToken' = lastToken + 1
    /\ token' = [token EXCEPT ![p] = lastToken + 1]
    /\ \E id \in NextRowids :
          table' = table \cup {[rowid |-> id, token |-> lastToken + 1,
                               pid |-> p, start |-> start[p]]}
    /\ Goto(p, "begin")
    /\ UNCHANGED <<processes, env, lock, intent, seen, rows, stale, saved>>

\* A statement before the insertion fails, for instance because another process
\* keeps the database busy for longer than busy_timeout.
PrepareError(p) ==
    /\ p \in alive /\ pc[p] \in {"select", "filter", "prune"}
    /\ rows' = [rows EXCEPT ![p] = {}]
    /\ stale' = [stale EXCEPT ![p] = {}]
    /\ Goto(p, "idle")
    /\ UNCHANGED <<processes, env, lock, table, lastToken, intent, seen, token, saved>>

WithoutToken(t) == {r \in table : r.token # t}

\* BEGIN IMMEDIATE succeeds; while another process owns the transaction it is tried
\* again every 250 ms.
Begin(p) ==
    /\ At(p, "begin") /\ lock = None
    /\ lock' = p
    /\ saved' = [saved EXCEPT ![p] = env[p]]
    /\ env' = [env EXCEPT ![p] = token[p]]
    /\ Goto(p, "held")
    /\ UNCHANGED <<processes, table, lastToken, intent, seen, rows, stale, token>>

\* The lock database cannot be opened or BEGIN fails for good: the record is removed,
\* unless that fails too.
BeginError(p) ==
    /\ At(p, "begin")
    /\ table' \in {table, WithoutToken(token[p])}
    /\ token' = [token EXCEPT ![p] = None]
    /\ Goto(p, "idle")
    /\ UNCHANGED <<processes, env, lock, lastToken, intent, seen, rows, stale, saved>>


\* release(): remove the record.  When that fails release() throws and nothing has
\* changed: it can be called again, and is on exit.
Revoke(p) ==
    /\ At(p, "held")
    /\ table' = WithoutToken(token[p])
    /\ Goto(p, "unlock")
    /\ disturbed' = (disturbed \/ ~Childless(p))
    /\ UNCHANGED <<alive, start, parent, env, lock, lastToken, locals>>

\* Then restore the environment and end the transaction.
Unlock(p) ==
    /\ At(p, "unlock")
    /\ env' = [env EXCEPT ![p] = saved[p]]
    /\ saved' = [saved EXCEPT ![p] = None]
    /\ token' = [token EXCEPT ![p] = None]
    /\ lock' = None
    /\ Goto(p, "idle")
    /\ UNCHANGED <<processes, table, lastToken, intent, seen, rows, stale>>

Next ==
    \/ \E c \in Pids : Launch(c)
    \/ \E p, c \in Pids : Spawn(p, c)
    \/ \E p \in Pids : Exit(p)
    \/ \E p \in Pids : Crash(p)
    \/ \E p \in Pids, why \in {"acquire", "require"} : Lookup(p, why)
    \/ \E p \in Pids : Observe(p)
    \/ \E p \in Pids : NestedDone(p)
    \/ \E p \in Pids : Select(p)
    \/ \E p \in Pids : Filter(p)
    \/ \E p \in Pids : Prune(p)
    \/ \E p \in Pids : Insert(p)
    \/ \E p \in Pids : PrepareError(p)
    \/ \E p \in Pids : Begin(p)
    \/ \E p \in Pids : BeginError(p)
    \/ \E p \in Pids : Revoke(p)
    \/ \E p \in Pids : Unlock(p)

Spec == Init /\ [][Next]_vars

-----------------------------------------------------------------------------
(* Properties.                                                             *)

PcValues == {"idle", "observe", "nested", "select", "filter", "prune", "begin",
             "held", "unlock"}

\* Type invariant: types, the primary keys of the table, and the owner of the
\* transaction is the process that is between BEGIN and ROLLBACK.
TypeOK ==
    /\ alive \in SUBSET Pids
    /\ start \in [Pids -> 0 .. MaxStart]
    /\ parent \in [Pids -> Pids \cup {None}]
    /\ disturbed \in BOOLEAN
    /\ env \in [Pids -> Tokens \cup {None}]
    /\ lock \in Pids \cup {None}
    /\ table \in SUBSET Record
    /\ \A r, q \in table : r.rowid = q.rowid \/ r.token = q.token => r = q
    /\ lastToken \in 0 .. MaxToken
    /\ pc \in [Pids -> PcValues]
    /\ intent \in [Pids -> {"acquire", "require"}]
    /\ seen \in [Pids -> Owner \cup {None}]
    /\ rows \in [Pids -> SUBSET Record]
    /\ stale \in [Pids -> SUBSET (Nat \ {0})]
    /\ token \in [Pids -> Tokens \cup {None}]
    /\ saved \in [Pids -> Tokens \cup {None}]
    /\ \A p \in Pids : lock = p <=> pc[p] \in {"held", "unlock"}

\* The check of an inherited authority is sound whenever it is made: if the record of
\* the token in a process's environment names a live owner, that owner has the lock.
\* Owners release, fail and crash, process ids are recycled and stale tokens linger
\* in environments; none of them makes a check succeed without the lock.
AuthorityMeansLock ==
    \A c \in alive, r \in table :
        env[c] = r.token /\ OwnerLive([pid |-> r.pid, start |-> r.start])
          => lock = r.pid /\ token[r.pid] = r.token

\* What makes AuthorityMeansLock inductive.  Tokens are fresh, records name present or
\* past incarnations, and a token belongs to the process whose record has it:
TokensFresh ==
    /\ \A p \in Pids : /\ env[p] # None => env[p] <= lastToken
                       /\ saved[p] # None => saved[p] <= lastToken
                       /\ token[p] # None => token[p] <= lastToken
                       /\ pc[p] \in {"begin", "held"} => p \in alive /\ token[p] # None
    /\ \A r \in table : /\ r.token <= lastToken
                        /\ r.start <= start[r.pid]
                        /\ \A p \in Pids : token[p] = r.token => r.pid = p

\* a record with a live owner is either the lock holder's, or no environment has ever
\* been given its token.
ExposedOnlyWhileHeld ==
    \A r \in table :
        OwnerLive([pid |-> r.pid, start |-> r.start]) =>
            \/ pc[r.pid] = "held" /\ token[r.pid] = r.token
            \/ \A c \in Pids : env[c] # r.token /\ saved[c] # r.token

LockInv == TypeOK /\ TokensFresh /\ ExposedOnlyWhileHeld

\* A process that was let in by an inherited authority runs while that owner has the
\* lock, and so never beside the next owner of the lock: as long as no process died, and
\* none released or exited before the processes it had started.
NestedUnderLock ==
    ~disturbed =>
        \A c \in alive :
            pc[c] = "nested" => /\ OwnerLive(seen[c])
                                /\ lock = seen[c].pid

\* The record of the process that has the lock is there until it releases: the check
\* of its children succeeds.
HolderRecorded ==
    \A p \in alive :
        pc[p] = "held" => \E r \in table :
            r.token = token[p] /\ r.pid = p /\ r.start = start[p]

=============================================================================
