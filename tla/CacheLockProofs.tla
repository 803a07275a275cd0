--------------------------- MODULE CacheLockProofs ---------------------------
(***************************************************************************)
(* Proofs about CacheLock: any number of process ids, incarnations and     *)
(* acquisitions, with crashes at any point.                                *)
(***************************************************************************)
EXTENDS CacheLock, TLAPS

LEMMA InitInv == Init => LockInv
<1> SUFFICES ASSUME Init PROVE LockInv
  OBVIOUS
<1>1. TypeOK
  <2>1. disturbed \in BOOLEAN
    BY Zenon DEF Init
  <2> QED
    BY LockAssumption, <2>1 DEF Init, TypeOK, PcValues
<1> QED
  BY <1>1 DEF Init, LockInv, TokensFresh, ExposedOnlyWhileHeld

\* What the steps of acquire() before BEGIN, the lookups and the nested release leave
\* alone, or only shrink, keeps the invariant.
LEMMA QuietStep ==
    ASSUME LockInv, TypeOK', UNCHANGED <<alive, start, env, lock, lastToken, token, saved>>,
           table' \subseteq table,
           \A p \in Pids : pc'[p] \in {"begin", "held"} => pc'[p] = pc[p],
           \A p \in Pids : pc[p] = "held" => pc'[p] = "held"
    PROVE  LockInv'
<1>1. TokensFresh'
  BY DEF LockInv, TypeOK, TokensFresh
<1>2. ExposedOnlyWhileHeld'
  BY DEF LockInv, TypeOK, ExposedOnlyWhileHeld, OwnerLive, Record
<1> QED
  BY <1>1, <1>2 DEF LockInv

LEMMA TypeStep ==
    ASSUME LockInv, [Next]_vars
    PROVE  TypeOK'
<1> USE DEF LockInv, At, Goto, PcValues, processes, locals
<1> USE LockAssumption
<1>1. ASSUME NEW c \in Pids, NEW by \in Pids \cup {None}, NEW authority \in Tokens \cup {None},
             Begins(c, by, authority)
      PROVE  TypeOK'
  <2>1. start[c] \in 0 .. MaxStart /\ start[c] < MaxStart
    BY <1>1 DEF Begins, TypeOK
  <2>2. start' \in [Pids -> 0 .. MaxStart]
    BY <1>1, <2>1 DEF Begins, TypeOK
  <2> QED
    BY <1>1, <2>2 DEF Begins, TypeOK
<1>2. ASSUME NEW p \in Pids, Exit(p) \/ Crash(p)
      PROVE  TypeOK'
  <2>1. Ends(p)
    BY <1>2 DEF Exit, Crash
  <2>2. disturbed' \in BOOLEAN
    BY <1>2, Zenon DEF Exit, Crash
  <2> QED
    BY <2>1, <2>2 DEF Ends, TypeOK
<1>3. ASSUME NEW p \in Pids, NEW why \in {"acquire", "require"}, Lookup(p, why)
      PROVE  TypeOK'
  <2>1. CASE \E r \in table : r.token = env[p]
    <3>1. PICK r \in table :
            /\ seen' = [seen EXCEPT ![p] = [pid |-> r.pid, start |-> r.start]]
            /\ intent' = [intent EXCEPT ![p] = why]
            /\ pc' = [pc EXCEPT ![p] = "observe"]
      BY <1>3, <2>1 DEF Lookup
    <3>2. [pid |-> r.pid, start |-> r.start] \in Owner
      BY DEF TypeOK, Record, Owner
    <3> QED
      BY <1>3, <3>1, <3>2 DEF Lookup, TypeOK
  <2>2. CASE ~(\E r \in table : r.token = env[p])
    BY <1>3, <2>2 DEF Lookup, Miss, TypeOK
  <2> QED
    BY <2>1, <2>2
<1>4. ASSUME NEW p \in Pids, Observe(p) \/ NestedDone(p)
      PROVE  TypeOK'
  BY <1>4 DEF Observe, NestedDone, Miss, TypeOK
<1>5. ASSUME NEW p \in Pids, Select(p) \/ PrepareError(p)
      PROVE  TypeOK'
  BY <1>5 DEF Select, PrepareError, TypeOK
<1>6. ASSUME NEW p \in Pids, Filter(p)
      PROVE  TypeOK'
  <2>1. {r.rowid : r \in {q \in rows[p] : ~OwnerLive([pid |-> q.pid, start |-> q.start])}}
          \subseteq Nat \ {0}
    <3>1. \A q \in rows[p] : q.rowid \in Nat \ {0}
      BY DEF TypeOK, Record
    <3> QED
      BY <3>1, Zenon
  <2> QED
    BY <1>6, <2>1 DEF Filter, TypeOK
<1>7. ASSUME NEW p \in Pids, Prune(p)
      PROVE  TypeOK'
  BY <1>7 DEF Prune, TypeOK
<1>8. ASSUME NEW p \in Pids, Insert(p)
      PROVE  TypeOK'
  <2>1. PICK id \in NextRowids :
          table' = table \cup {[rowid |-> id, token |-> lastToken + 1,
                                pid |-> p, start |-> start[p]]}
    BY <1>8 DEF Insert
  <2>2. lastToken + 1 \in Tokens /\ lastToken' \in 0 .. MaxToken
    BY <1>8 DEF Insert, TypeOK, Tokens
  <2>3. id \in Nat \ {0} /\ \A r \in table : r.rowid < id /\ r.rowid \in Nat
    BY DEF NextRowids, TypeOK, Record
  <2>4. \A r \in table : r.token # lastToken + 1
    BY DEF TokensFresh, TypeOK, Record, Tokens
  <2>5. table' \in SUBSET Record
    BY <2>1, <2>2, <2>3 DEF TypeOK, Record
  <2>6. \A r, q \in table' : r.rowid = q.rowid \/ r.token = q.token => r = q
    BY <2>1, <2>3, <2>4 DEF TypeOK
  <2> QED
    BY <1>8, <2>2, <2>5, <2>6 DEF Insert, TypeOK
<1>9. ASSUME NEW p \in Pids, Begin(p)
      PROVE  TypeOK'
  BY <1>9 DEF Begin, TypeOK
<1>10. ASSUME NEW p \in Pids, BeginError(p) \/ Revoke(p)
       PROVE  TypeOK'
  BY ZenonT(60), <1>10 DEF BeginError, Revoke, WithoutToken, TypeOK
<1>11. ASSUME NEW p \in Pids, Unlock(p)
       PROVE  TypeOK'
  BY <1>11 DEF Unlock, TypeOK
<1>12. CASE UNCHANGED vars
  BY <1>12 DEF vars, TypeOK
<1>13. \A p \in Pids : env[p] \in Tokens \cup {None}
  BY DEF TypeOK
<1> QED
  BY <1>1, <1>2, <1>3, <1>4, <1>5, <1>6, <1>7, <1>8, <1>9, <1>10, <1>11, <1>12, <1>13
     DEF Next, Launch, Spawn, Exit, Crash

\* A new incarnation: no record names it, and its token is one its parent has.
LEMMA BeginsStep ==
    ASSUME LockInv, NEW c \in Pids, NEW by, NEW authority,
           authority = None \/ \E p \in Pids : authority = env[p],
           Begins(c, by, authority)
    PROVE  TokensFresh' /\ ExposedOnlyWhileHeld'
<1> USE LockAssumption DEF LockInv
<1>1. /\ alive' = alive \cup {c} /\ c \notin alive
      /\ start' = [start EXCEPT ![c] = start[c] + 1]
      /\ env' = [env EXCEPT ![c] = authority]
      /\ UNCHANGED <<table, lastToken, pc, token, saved, lock>>
  BY DEF Begins, locals
<1>2. \A r \in table : r.token \in Tokens /\ r.pid \in Pids /\ r.start \in Nat /\ r.token # None
  BY DEF TypeOK, Record, Tokens
<1>3. start[c] \in Nat
  BY DEF TypeOK
<1>4. TokensFresh'
  BY <1>1, <1>2, <1>3 DEF TokensFresh, TypeOK
<1>5. \A r \in table : OwnerLive([pid |-> r.pid, start |-> r.start])' =>
                         OwnerLive([pid |-> r.pid, start |-> r.start])
  BY <1>1, <1>2, <1>3 DEF OwnerLive, TokensFresh, TypeOK
<1>6. ExposedOnlyWhileHeld'
  BY <1>1, <1>2, <1>5 DEF ExposedOnlyWhileHeld, TypeOK
<1> QED
  BY <1>4, <1>6

\* The end of a process: its records lose their live owner.
LEMMA EndsStep ==
    ASSUME LockInv, NEW p \in Pids, Ends(p)
    PROVE  TokensFresh' /\ ExposedOnlyWhileHeld'
<1> USE LockAssumption DEF LockInv
<1>1. /\ alive' = alive \ {p} /\ env' = [env EXCEPT ![p] = None]
      /\ pc' = [pc EXCEPT ![p] = "idle"] /\ token' = [token EXCEPT ![p] = None]
      /\ saved' = [saved EXCEPT ![p] = None] /\ UNCHANGED <<start, table, lastToken>>
  BY DEF Ends, Goto
<1>2. \A r \in table : r.token \in Tokens /\ r.pid \in Pids /\ r.token # None
  BY DEF TypeOK, Record, Tokens
<1>3. TokensFresh'
  BY <1>1, <1>2 DEF TokensFresh, TypeOK
<1>4. \A r \in table : OwnerLive([pid |-> r.pid, start |-> r.start])' =>
                         r.pid # p /\ OwnerLive([pid |-> r.pid, start |-> r.start])
  BY <1>1 DEF OwnerLive
<1>5. ExposedOnlyWhileHeld'
  BY <1>1, <1>2, <1>4 DEF ExposedOnlyWhileHeld, TypeOK
<1> QED
  BY <1>3, <1>5

\* The new record has a token that no environment has.
LEMMA InsertStep ==
    ASSUME LockInv, NEW p \in Pids, Insert(p)
    PROVE  TokensFresh' /\ ExposedOnlyWhileHeld'
<1> USE LockAssumption DEF LockInv
<1>1. PICK id \in NextRowids :
        table' = table \cup {[rowid |-> id, token |-> lastToken + 1,
                              pid |-> p, start |-> start[p]]}
  BY DEF Insert
<1>2. /\ p \in alive /\ pc[p] = "prune" /\ lastToken' = lastToken + 1
      /\ token' = [token EXCEPT ![p] = lastToken + 1]
      /\ pc' = [pc EXCEPT ![p] = "begin"]
      /\ UNCHANGED <<alive, start, env, saved>>
  BY DEF Insert, At, Goto, processes
<1>3. \A r \in table : r.token \in Nat /\ r.pid \in Pids /\ r.token # None
  BY DEF TypeOK, Record, Tokens
<1>4. lastToken \in Nat /\ start[p] \in Nat
  BY DEF TypeOK
<1>5. \A q \in Pids : /\ env[q] # None => env[q] \in Nat
                      /\ saved[q] # None => saved[q] \in Nat
                      /\ token[q] # None => token[q] \in Nat
  BY DEF TypeOK, Tokens
<1>6. TokensFresh'
  BY <1>1, <1>2, <1>3, <1>4, <1>5 DEF TokensFresh, TypeOK
<1>7. \A q \in Pids : env[q] # lastToken + 1 /\ saved[q] # lastToken + 1
  BY <1>4, <1>5 DEF TokensFresh
<1>8. ExposedOnlyWhileHeld'
  BY <1>1, <1>2, <1>3, <1>7 DEF ExposedOnlyWhileHeld, OwnerLive, TypeOK
<1> QED
  BY <1>6, <1>8

\* The token enters an environment in the step that takes the lock.
LEMMA BeginStep ==
    ASSUME LockInv, NEW p \in Pids, Begin(p)
    PROVE  TokensFresh' /\ ExposedOnlyWhileHeld'
<1> USE LockAssumption DEF LockInv
<1>1. /\ p \in alive /\ pc[p] = "begin" /\ saved' = [saved EXCEPT ![p] = env[p]]
      /\ env' = [env EXCEPT ![p] = token[p]] /\ pc' = [pc EXCEPT ![p] = "held"]
      /\ UNCHANGED <<alive, start, table, lastToken, token>>
  BY DEF Begin, At, Goto, processes
<1>2. TokensFresh'
  BY <1>1 DEF TokensFresh, TypeOK
<1>3. \A r \in table : r.pid \in Pids /\ (token[p] = r.token => r.pid = p)
  BY DEF TokensFresh, TypeOK, Record
<1>4. ExposedOnlyWhileHeld'
  BY <1>1, <1>3 DEF ExposedOnlyWhileHeld, OwnerLive, TypeOK
<1> QED
  BY <1>2, <1>4

\* The record goes before the lock does.
LEMMA RevokeStep ==
    ASSUME LockInv, NEW p \in Pids, BeginError(p) \/ Revoke(p) \/ Unlock(p)
    PROVE  TokensFresh' /\ ExposedOnlyWhileHeld'
<1> USE LockAssumption DEF LockInv
<1>0. \A r \in table : r.pid \in Pids /\ r.token # None
  BY DEF TypeOK, Record, Tokens
<1>1. CASE BeginError(p)
  <2>1. /\ pc[p] = "begin" /\ table' \subseteq table
        /\ token' = [token EXCEPT ![p] = None] /\ pc' = [pc EXCEPT ![p] = "idle"]
        /\ UNCHANGED <<alive, start, env, saved, lastToken>>
    BY <1>1 DEF BeginError, WithoutToken, At, Goto, processes
  <2> QED
    BY <1>0, <2>1 DEF TokensFresh, ExposedOnlyWhileHeld, OwnerLive, TypeOK
<1>2. CASE Revoke(p)
  <2>1. /\ pc[p] = "held" /\ table' = {r \in table : r.token # token[p]}
        /\ pc' = [pc EXCEPT ![p] = "unlock"]
        /\ UNCHANGED <<alive, start, env, saved, token, lastToken>>
    BY <1>2 DEF Revoke, WithoutToken, At, Goto, processes, locals
  <2> QED
    BY <1>0, <2>1 DEF TokensFresh, ExposedOnlyWhileHeld, OwnerLive, TypeOK
<1>3. CASE Unlock(p)
  <2>1. /\ pc[p] = "unlock" /\ env' = [env EXCEPT ![p] = saved[p]]
        /\ saved' = [saved EXCEPT ![p] = None] /\ token' = [token EXCEPT ![p] = None]
        /\ pc' = [pc EXCEPT ![p] = "idle"]
        /\ UNCHANGED <<alive, start, table, lastToken>>
    BY <1>3 DEF Unlock, At, Goto, processes
  <2>2. TokensFresh'
    BY <1>0, <2>1 DEF TokensFresh, TypeOK
  <2>3. ExposedOnlyWhileHeld'
    BY <1>0, <2>1 DEF ExposedOnlyWhileHeld, OwnerLive, TypeOK
  <2> QED
    BY <2>2, <2>3
<1> QED
  BY <1>1, <1>2, <1>3

LEMMA InvStep ==
    ASSUME LockInv, [Next]_vars
    PROVE  LockInv'
<1>0. TypeOK'
  BY TypeStep
<1>1. ASSUME NEW c \in Pids, Launch(c) \/ \E p \in Pids : Spawn(p, c)
      PROVE  LockInv'
  BY <1>0, <1>1, BeginsStep DEF Launch, Spawn, LockInv
<1>2. ASSUME NEW p \in Pids, Exit(p) \/ Crash(p)
      PROVE  LockInv'
  BY <1>0, <1>2, EndsStep DEF Exit, Crash, LockInv
<1>3. ASSUME NEW p \in Pids,
             \/ \E why \in {"acquire", "require"} : Lookup(p, why)
             \/ Observe(p) \/ NestedDone(p) \/ Select(p) \/ Filter(p) \/ PrepareError(p)
      PROVE  LockInv'
  <2>1. UNCHANGED <<alive, start, env, lock, lastToken, token, saved, table>>
    BY <1>3 DEF Lookup, Observe, NestedDone, Select, Filter, PrepareError, processes
  <2>2. /\ pc[p] # "held"
        /\ \E where \in PcValues \ {"begin", "held"} : pc' = [pc EXCEPT ![p] = where]
    BY <1>3 DEF Lookup, Observe, NestedDone, Select, Filter, PrepareError, Miss, At, Goto, PcValues
  <2>3. pc \in [Pids -> PcValues]
    BY DEF LockInv, TypeOK
  <2> QED
    BY <1>0, <2>1, <2>2, <2>3, QuietStep
<1>4. ASSUME NEW p \in Pids, Prune(p)
      PROVE  LockInv'
  <2>1. UNCHANGED <<alive, start, env, lock, lastToken, token, saved, pc>> /\ table' \subseteq table
    BY <1>4 DEF Prune, processes
  <2> QED
    BY <1>0, <2>1, QuietStep
<1>5. ASSUME NEW p \in Pids, Insert(p)
      PROVE  LockInv'
  BY <1>0, <1>5, InsertStep DEF LockInv
<1>6. ASSUME NEW p \in Pids, Begin(p)
      PROVE  LockInv'
  BY <1>0, <1>6, BeginStep DEF LockInv
<1>7. ASSUME NEW p \in Pids, BeginError(p) \/ Revoke(p) \/ Unlock(p)
      PROVE  LockInv'
  BY <1>0, <1>7, RevokeStep DEF LockInv
<1>8. CASE UNCHANGED vars
  <2>1. /\ UNCHANGED <<alive, start, env, lock, lastToken, token, saved, pc>>
        /\ table' \subseteq table
    BY <1>8 DEF vars, locals
  <2> QED
    BY <1>0, <2>1, QuietStep
<1> QED
  BY <1>1, <1>2, <1>3, <1>4, <1>5, <1>6, <1>7, <1>8 DEF Next

\* Every behaviour of the lock keeps the inductive invariant.
THEOREM Invariance == Spec => []LockInv
BY InitInv, InvStep, PTL DEF Spec

\* The variables keep their types, the table its primary keys, and the transaction
\* belongs to the process between BEGIN and ROLLBACK.
THEOREM TypeCorrect == Spec => []TypeOK
BY Invariance, PTL DEF LockInv

\* An inherited authority whose check succeeds is backed by the lock, whatever crashes
\* and recycled process ids came before.
THEOREM AuthoritySound == Spec => []AuthorityMeansLock
<1>1. LockInv => AuthorityMeansLock
  <2> SUFFICES ASSUME LockInv, NEW c \in alive, NEW r \in table,
                      env[c] = r.token, OwnerLive([pid |-> r.pid, start |-> r.start])
               PROVE  lock = r.pid /\ token[r.pid] = r.token
    BY DEF AuthorityMeansLock
  <2>1. c \in Pids /\ r.pid \in Pids
    BY DEF LockInv, TypeOK, Record
  <2>2. pc[r.pid] = "held" /\ token[r.pid] = r.token
    BY <2>1 DEF LockInv, ExposedOnlyWhileHeld
  <2> QED
    BY <2>1, <2>2 DEF LockInv, TypeOK
<1> QED
  BY <1>1, Invariance, PTL

-----------------------------------------------------------------------------
(***************************************************************************)
(* Nested work stays under the lock (NestedUnderLock), for any depth of    *)
(* nesting.                                                                *)
(*                                                                         *)
(* A process that is let in by an inherited token need not be a child of   *)
(* the lock's owner; its token came through the processes between them.    *)
(* The owner only looks at its own children before it releases.  So the    *)
(* proof needs that a process with the owner's token has a parent with the *)
(* same token, and that parents do not go round in circles: then an owner  *)
(* without children has no nested process at all.                          *)
(***************************************************************************)

\* Parents run, for a process that is left behind has none; and no set of processes is
\* closed under parents, so that every chain of them ends.
Ancestry ==
    /\ \A c \in alive : parent[c] \in alive \cup {None}
    /\ \A S \in SUBSET alive : (\A c \in S : parent[c] \in S) => S = {}

\* A token belongs to one acquisition, and is in no environment before the lock is held.
OwnTokens ==
    /\ \A p, q \in Pids : token[p] = token[q] /\ token[p] # None => p = q
    /\ \A p, c \in Pids : pc[p] = "begin" => env[c] # token[p] /\ saved[c] # token[p]

\* The owner that a process read is a present or a past incarnation.
SeenOwners ==
    \A c \in Pids :
        /\ pc[c] # "idle" => c \in alive
        /\ pc[c] \in {"observe", "nested"} =>
              seen[c] \in Owner /\ seen[c].start <= start[seen[c].pid]

\* A process with the token of the lock's owner has it from its parent.
TokenFromParent ==
    ~disturbed =>
        \A h \in Pids : \A c \in alive \ {h} :
            pc[h] = "held" /\ env[c] = token[h] =>
                parent[c] # None /\ env[parent[c]] = token[h]

\* What was read from a record stays true: a live owner has the lock, and it is its token
\* that the process inherited.
SeenHolds ==
    ~disturbed =>
        \A c \in alive :
            /\ pc[c] = "nested" => OwnerLive(seen[c])
            /\ pc[c] \in {"observe", "nested"} /\ OwnerLive(seen[c]) =>
                  pc[seen[c].pid] = "held" /\ env[c] = token[seen[c].pid]

NestInv == LockInv /\ Ancestry /\ OwnTokens /\ SeenOwners /\ TokenFromParent /\ SeenHolds

LEMMA InitNest == Init => NestInv
BY InitInv, LockAssumption
   DEF Init, NestInv, Ancestry, OwnTokens, SeenOwners, TokenFromParent, SeenHolds

\* A process comes with the environment of its parent, or with none.
LEMMA Births ==
    ASSUME NEW c \in Pids, Launch(c) \/ \E p \in Pids : Spawn(p, c)
    PROVE  \E by \in alive \cup {None} : Begins(c, by, IF by = None THEN None ELSE env[by])
<1>1. CASE Launch(c)
  BY <1>1 DEF Launch
<1>2. ASSUME NEW p \in Pids, Spawn(p, c)
      PROVE  \E by \in alive \cup {None} : Begins(c, by, IF by = None THEN None ELSE env[by])
  <2>1. p # None
    BY LockAssumption
  <2> QED
    BY <1>2, <2>1 DEF Spawn
<1> QED
  BY <1>1, <1>2

\* Processes come and go in Begins and Ends only.
LEMMA ProcessStep ==
    ASSUME [Next]_vars
    PROVE  \/ \E c \in Pids, by \in alive \cup {None} :
                 Begins(c, by, IF by = None THEN None ELSE env[by])
           \/ \E p \in Pids : p \in alive /\ Ends(p)
           \/ UNCHANGED <<alive, start, parent>>
<1> USE DEF processes
<1>1. ASSUME NEW p \in Pids, Exit(p) \/ Crash(p)
      PROVE  p \in alive /\ Ends(p)
  BY <1>1 DEF Exit, Crash, At
<1>2. ASSUME NEW p \in Pids,
             \/ \E why \in {"acquire", "require"} : Lookup(p, why)
             \/ Observe(p) \/ NestedDone(p) \/ Select(p) \/ Filter(p) \/ Prune(p)
             \/ Insert(p) \/ PrepareError(p) \/ Begin(p) \/ BeginError(p)
             \/ Revoke(p) \/ Unlock(p)
      PROVE  UNCHANGED <<alive, start, parent>>
  BY <1>2 DEF Lookup, Observe, NestedDone, Select, Filter, Prune, Insert, PrepareError,
              Begin, BeginError, Revoke, Unlock
<1>3. CASE UNCHANGED vars
  BY <1>3 DEF vars
<1> QED
  BY <1>1, <1>2, <1>3, Births DEF Next

\* A new process has a parent that was there before it, and one that ends is nobody's
\* parent any more.
LEMMA AncestryStep ==
    ASSUME LockInv, Ancestry, [Next]_vars
    PROVE  Ancestry'
<1> USE LockAssumption
<1>0. alive \subseteq Pids /\ parent \in [Pids -> Pids \cup {None}]
  BY DEF LockInv, TypeOK
<1>1. ASSUME NEW c \in Pids, NEW by \in alive \cup {None}, NEW authority,
             Begins(c, by, authority)
      PROVE  Ancestry'
  <2>1. c \notin alive /\ alive' = alive \cup {c} /\ parent' = [parent EXCEPT ![c] = by]
    BY <1>1 DEF Begins
  <2>2. \A d \in alive' : parent'[d] \in alive' \cup {None}
    BY <1>0, <2>1 DEF Ancestry
  <2>3. ASSUME NEW S \in SUBSET alive', \A d \in S : parent'[d] \in S
        PROVE  S = {}
    <3>1. \A d \in S \ {c} : parent[d] \in S \ {c}
      BY <1>0, <2>1, <2>3 DEF Ancestry
    <3>2. S \ {c} \in SUBSET alive
      BY <2>1
    <3>3. S \ {c} = {}
      BY <3>1, <3>2 DEF Ancestry
    <3>4. c \notin S
      BY <1>0, <2>1, <2>3, <3>3
    <3> QED
      BY <3>3, <3>4
  <2> QED
    BY <2>2, <2>3 DEF Ancestry
<1>2. ASSUME NEW p \in Pids, Ends(p)
      PROVE  Ancestry'
  <2>1. /\ alive' = alive \ {p}
        /\ parent' = [c \in Pids |-> IF c = p \/ parent[c] = p THEN None ELSE parent[c]]
    BY <1>2 DEF Ends
  <2>2. \A d \in alive' : parent'[d] \in alive' \cup {None}
    BY <1>0, <2>1 DEF Ancestry
  <2>3. ASSUME NEW S \in SUBSET alive', \A d \in S : parent'[d] \in S
        PROVE  S = {}
    <3>1. \A d \in S : parent[d] \in S
      BY <1>0, <2>1, <2>3
    <3>2. S \in SUBSET alive
      BY <2>1
    <3> QED
      BY <3>1, <3>2 DEF Ancestry
  <2> QED
    BY <2>2, <2>3 DEF Ancestry
<1>3. CASE UNCHANGED <<alive, start, parent>>
  BY <1>3 DEF Ancestry
<1> QED
  BY <1>1, <1>2, <1>3, ProcessStep

\* Tokens are drawn anew, and given to an environment with the lock.
LEMMA OwnTokensStep ==
    ASSUME LockInv, OwnTokens, [Next]_vars
    PROVE  OwnTokens'
<1> USE LockAssumption DEF At, Goto, processes
<1>0. /\ lastToken \in Nat /\ pc \in [Pids -> PcValues]
      /\ env \in [Pids -> Tokens \cup {None}] /\ saved \in [Pids -> Tokens \cup {None}]
      /\ token \in [Pids -> Tokens \cup {None}]
  BY DEF LockInv, TypeOK
<1>1. ASSUME NEW c \in Pids, NEW by \in alive \cup {None},
             Begins(c, by, IF by = None THEN None ELSE env[by])
      PROVE  OwnTokens'
  <2>1. /\ by # None => by \in Pids
        /\ env' = [env EXCEPT ![c] = IF by = None THEN None ELSE env[by]]
        /\ UNCHANGED <<pc, token, saved>>
    BY <1>1 DEF Begins, locals, LockInv, TypeOK
  <2>2. \A p \in Pids : pc[p] = "begin" => token[p] # None
    BY DEF LockInv, TokensFresh
  <2> QED
    BY <1>0, <2>1, <2>2 DEF OwnTokens
<1>2. ASSUME NEW p \in Pids, Ends(p)
      PROVE  OwnTokens'
  <2>1. /\ env' = [env EXCEPT ![p] = None] /\ saved' = [saved EXCEPT ![p] = None]
        /\ pc' = [pc EXCEPT ![p] = "idle"] /\ token' = [token EXCEPT ![p] = None]
    BY <1>2 DEF Ends
  <2>2. \A q \in Pids : pc[q] = "begin" => token[q] # None
    BY DEF LockInv, TokensFresh
  <2> QED
    BY <1>0, <2>1, <2>2 DEF OwnTokens
<1>3. ASSUME NEW p \in Pids,
             \/ \E why \in {"acquire", "require"} : Lookup(p, why)
             \/ Observe(p) \/ NestedDone(p) \/ Select(p) \/ Filter(p) \/ Prune(p)
             \/ PrepareError(p) \/ Revoke(p)
      PROVE  OwnTokens'
  <2>1. UNCHANGED <<env, saved, token>>
    BY <1>3 DEF Lookup, Observe, NestedDone, Select, Filter, Prune, PrepareError, Revoke, locals
  <2>2. pc' = pc \/ \E where \in PcValues \ {"begin"} : pc' = [pc EXCEPT ![p] = where]
    BY <1>3 DEF Lookup, Observe, NestedDone, Select, Filter, Prune, PrepareError, Revoke, Miss,
                PcValues
  <2> QED
    BY <1>0, <2>1, <2>2 DEF OwnTokens
<1>4. ASSUME NEW p \in Pids, Insert(p)
      PROVE  OwnTokens'
  <2>1. /\ token' = [token EXCEPT ![p] = lastToken + 1] /\ pc' = [pc EXCEPT ![p] = "begin"]
        /\ UNCHANGED <<env, saved>>
    BY <1>4 DEF Insert
  <2>2. \A q \in Pids : /\ env[q] # lastToken + 1 /\ saved[q] # lastToken + 1
                        /\ token[q] # lastToken + 1
    <3>1. \A q \in Pids : /\ env[q] # None => env[q] \in Nat
                          /\ saved[q] # None => saved[q] \in Nat
                          /\ token[q] # None => token[q] \in Nat
      BY <1>0 DEF Tokens
    <3>2. lastToken + 1 \in Nat /\ lastToken + 1 # None
      BY <1>0
    <3> QED
      BY <1>0, <3>1, <3>2 DEF LockInv, TokensFresh
  <2> QED
    BY <1>0, <2>1, <2>2 DEF OwnTokens
<1>5. ASSUME NEW p \in Pids, Begin(p)
      PROVE  OwnTokens'
  <2>1. /\ pc[p] = "begin" /\ pc' = [pc EXCEPT ![p] = "held"]
        /\ saved' = [saved EXCEPT ![p] = env[p]] /\ env' = [env EXCEPT ![p] = token[p]]
        /\ UNCHANGED token
    BY <1>5 DEF Begin
  <2>2. \A q \in Pids : pc[q] = "begin" => token[q] # None
    BY DEF LockInv, TokensFresh
  <2> QED
    BY <1>0, <2>1, <2>2 DEF OwnTokens
<1>6. ASSUME NEW p \in Pids, BeginError(p)
      PROVE  OwnTokens'
  BY <1>0, <1>6 DEF BeginError, OwnTokens
<1>7. ASSUME NEW p \in Pids, Unlock(p)
      PROVE  OwnTokens'
  <2>1. /\ pc' = [pc EXCEPT ![p] = "idle"] /\ env' = [env EXCEPT ![p] = saved[p]]
        /\ saved' = [saved EXCEPT ![p] = None] /\ token' = [token EXCEPT ![p] = None]
    BY <1>7 DEF Unlock
  <2>2. \A q \in Pids : pc[q] = "begin" => token[q] # None
    BY DEF LockInv, TokensFresh
  <2> QED
    BY <1>0, <2>1, <2>2 DEF OwnTokens
<1>8. CASE UNCHANGED vars
  BY <1>8 DEF vars, locals, OwnTokens
<1> QED
  BY <1>1, <1>2, <1>3, <1>4, <1>5, <1>6, <1>7, <1>8, Births DEF Next, Exit, Crash

\* Incarnations only follow one another.
LEMMA SeenOwnersStep ==
    ASSUME LockInv, SeenOwners, [Next]_vars
    PROVE  SeenOwners'
<1> USE LockAssumption DEF At, Goto, processes, locals
<1>0. /\ alive \subseteq Pids /\ start \in [Pids -> 0 .. MaxStart]
      /\ pc \in [Pids -> PcValues] /\ seen \in [Pids -> Owner \cup {None}]
      /\ \A o \in Owner : o.pid \in Pids /\ o.start \in 0 .. MaxStart
  BY DEF LockInv, TypeOK, Owner
<1>1. ASSUME NEW c \in Pids, NEW by, NEW authority, Begins(c, by, authority)
      PROVE  SeenOwners'
  <2>1. /\ alive' = alive \cup {c} /\ start' = [start EXCEPT ![c] = start[c] + 1]
        /\ UNCHANGED <<pc, seen>>
    BY <1>1 DEF Begins
  <2>2. \A q \in Pids : start[q] \in Nat /\ start[q] <= start'[q]
    BY <1>0, <2>1
  <2>3. \A q \in Pids : seen[q] \in Owner =>
          seen[q].pid \in Pids /\ seen[q].start \in Nat
    BY <1>0
  <2>4. \A q \in Pids : start'[q] \in Nat
    BY <1>0, <2>1
  <2> QED
    BY <2>1, <2>2, <2>3, <2>4 DEF SeenOwners
<1>2. ASSUME NEW p \in Pids, Ends(p)
      PROVE  SeenOwners'
  <2>1. /\ alive' = alive \ {p} /\ pc' = [pc EXCEPT ![p] = "idle"]
        /\ seen' = [seen EXCEPT ![p] = None] /\ UNCHANGED start
    BY <1>2 DEF Ends
  <2> QED
    BY <1>0, <2>1 DEF SeenOwners
<1>3. ASSUME NEW p \in Pids, NEW why \in {"acquire", "require"}, Lookup(p, why)
      PROVE  SeenOwners'
  <2>1. CASE \E r \in table : r.token = env[p]
    <3>1. PICK r \in table :
            /\ seen' = [seen EXCEPT ![p] = [pid |-> r.pid, start |-> r.start]]
            /\ pc' = [pc EXCEPT ![p] = "observe"]
      BY <1>3, <2>1 DEF Lookup
    <3>2. [pid |-> r.pid, start |-> r.start] \in Owner /\ r.start <= start[r.pid]
      BY DEF LockInv, TypeOK, TokensFresh, Record, Owner
    <3> QED
      BY <1>0, <1>3, <3>1, <3>2 DEF Lookup, SeenOwners
  <2>2. CASE ~(\E r \in table : r.token = env[p])
    BY <1>0, <1>3, <2>2 DEF Lookup, Miss, SeenOwners
  <2> QED
    BY <2>1, <2>2
<1>4. ASSUME NEW p \in Pids, Observe(p)
      PROVE  SeenOwners'
  <2>1. pc[p] = "observe" /\ p \in alive /\ seen[p] \in Owner
    BY <1>4 DEF Observe, SeenOwners
  <2>2. UNCHANGED <<alive, start>>
    BY <1>4 DEF Observe
  <2>3. seen' = seen \/ seen' = [seen EXCEPT ![p] = None]
    BY <1>0, <1>4 DEF Observe
  <2>4. \/ \E where \in PcValues \ {"observe", "nested"} : pc' = [pc EXCEPT ![p] = where]
        \/ pc' = [pc EXCEPT ![p] = "nested"] /\ seen' = seen
    BY <1>0, <1>4 DEF Observe, Miss, PcValues
  <2> QED
    BY <1>0, <2>1, <2>2, <2>3, <2>4 DEF SeenOwners
<1>5. ASSUME NEW p \in Pids, NestedDone(p)
      PROVE  SeenOwners'
  BY <1>0, <1>5 DEF NestedDone, SeenOwners
<1>6. ASSUME NEW p \in Pids,
             \/ Select(p) \/ Filter(p) \/ Prune(p) \/ Insert(p) \/ PrepareError(p)
             \/ Begin(p) \/ BeginError(p) \/ Revoke(p) \/ Unlock(p)
      PROVE  SeenOwners'
  <2>1. UNCHANGED <<alive, start, seen>> /\ p \in alive
    BY <1>6 DEF Select, Filter, Prune, Insert, PrepareError, Begin, BeginError, Revoke, Unlock
  <2>2. \/ pc' = pc
        \/ \E where \in PcValues \ {"observe", "nested"} : pc' = [pc EXCEPT ![p] = where]
    BY <1>6 DEF Select, Filter, Prune, Insert, PrepareError, Begin, BeginError, Revoke, Unlock,
                PcValues
  <2> QED
    BY <1>0, <2>1, <2>2 DEF SeenOwners
<1>7. CASE UNCHANGED vars
  BY <1>7 DEF vars, SeenOwners
<1> QED
  BY <1>1, <1>2, <1>3, <1>4, <1>5, <1>6, <1>7 DEF Next, Launch, Spawn, Exit, Crash

\* A lock owner without children has given its token to nobody.
LEMMA NoDescendants ==
    ASSUME LockInv, Ancestry, TokenFromParent, ~disturbed,
           NEW h \in Pids, pc[h] = "held", Childless(h)
    PROVE  \A c \in alive \ {h} : env[c] # token[h]
<1> DEFINE S == {c \in alive \ {h} : env[c] = token[h]}
<1>1. ASSUME NEW c \in S
      PROVE  parent[c] \in S
  <2>1. parent[c] # None /\ env[parent[c]] = token[h]
    BY <1>1 DEF TokenFromParent
  <2>2. parent[c] \in alive /\ parent[c] # h
    BY <1>1, <2>1 DEF Ancestry, Childless
  <2> QED
    BY <2>1, <2>2
<1>2. S = {}
  BY <1>1 DEF Ancestry
<1> QED
  BY <1>2

\* A step that leaves the processes and environments alone, and the lock with its owner.
LEMMA SameTokens ==
    ASSUME LockInv, TokenFromParent, UNCHANGED <<alive, parent, env>>, disturbed => disturbed',
           \A h \in Pids : pc'[h] = "held" => pc[h] = "held" /\ token'[h] = token[h]
    PROVE  TokenFromParent'
BY DEF TokenFromParent

\* A token comes from a parent that has it, and the parent neither ends nor changes its
\* environment as long as the token's owner has the lock.
LEMMA TokenFromParentStep ==
    ASSUME LockInv, Ancestry, OwnTokens, SeenOwners, TokenFromParent, [Next]_vars
    PROVE  TokenFromParent'
<1> USE LockAssumption DEF At, Goto, processes, locals
<1>0. /\ alive \subseteq Pids /\ parent \in [Pids -> Pids \cup {None}]
      /\ pc \in [Pids -> PcValues] /\ env \in [Pids -> Tokens \cup {None}]
      /\ token \in [Pids -> Tokens \cup {None}]
      /\ \A p, q \in Pids : pc[p] = "held" /\ lock = q => p = q
      /\ \A p \in Pids : pc[p] = "held" => token[p] # None /\ lock = p
  BY DEF LockInv, TypeOK, TokensFresh
<1>1. ASSUME NEW c \in Pids, NEW by \in alive \cup {None},
             Begins(c, by, IF by = None THEN None ELSE env[by])
      PROVE  TokenFromParent'
  <2>1. /\ c \notin alive /\ alive' = alive \cup {c} /\ parent' = [parent EXCEPT ![c] = by]
        /\ env' = [env EXCEPT ![c] = IF by = None THEN None ELSE env[by]]
        /\ UNCHANGED <<disturbed, pc, token>>
    BY <1>1 DEF Begins
  <2> SUFFICES ASSUME ~disturbed, NEW h \in Pids, NEW d \in alive' \ {h},
                      pc[h] = "held", env'[d] = token[h]
               PROVE  parent'[d] # None /\ env'[parent'[d]] = token[h]
    BY <2>1 DEF TokenFromParent
  <2>2. CASE d = c
    <3>1. by # None
      BY <1>0, <2>1, <2>2
    <3> QED
      BY <1>0, <2>1, <2>2, <3>1
  <2>3. CASE d # c
    <3>1. d \in alive \ {h} /\ env[d] = token[h]
      BY <1>0, <2>1, <2>3
    <3>2. parent[d] # None /\ env[parent[d]] = token[h] /\ parent[d] \in alive
      BY <3>1 DEF TokenFromParent, Ancestry
    <3> QED
      BY <1>0, <2>1, <2>3, <3>1, <3>2
  <2> QED
    BY <2>2, <2>3
<1>2. ASSUME NEW p \in Pids, Exit(p)
      PROVE  TokenFromParent'
  <2>1. /\ pc[p] = "idle" /\ alive' = alive \ {p}
        /\ parent' = [c \in Pids |-> IF c = p \/ parent[c] = p THEN None ELSE parent[c]]
        /\ env' = [env EXCEPT ![p] = None] /\ pc' = [pc EXCEPT ![p] = "idle"]
        /\ token' = [token EXCEPT ![p] = None]
    BY <1>2 DEF Exit, Ends
  <2> SUFFICES ASSUME ~disturbed', NEW h \in Pids, NEW d \in alive' \ {h},
                      pc'[h] = "held", env'[d] = token'[h]
               PROVE  parent'[d] # None /\ env'[parent'[d]] = token'[h]
    BY DEF TokenFromParent
  <2>2. ~disturbed /\ Childless(p)
    BY <1>2 DEF Exit
  <2>3. h # p /\ d # p /\ pc[h] = "held" /\ env[d] = token[h] /\ d \in alive \ {h}
    BY <1>0, <2>1
  <2>4. parent[d] # None /\ env[parent[d]] = token[h] /\ parent[d] \in alive /\ parent[d] # p
    BY <2>2, <2>3 DEF TokenFromParent, Ancestry, Childless
  <2> QED
    BY <1>0, <2>1, <2>3, <2>4
<1>3. ASSUME NEW p \in Pids, Crash(p)
      PROVE  TokenFromParent'
  BY <1>3 DEF Crash, TokenFromParent
<1>4. ASSUME NEW p \in Pids,
             \/ \E why \in {"acquire", "require"} : Lookup(p, why)
             \/ Observe(p) \/ NestedDone(p) \/ Select(p) \/ Filter(p) \/ Prune(p)
             \/ PrepareError(p)
      PROVE  TokenFromParent'
  <2>1. UNCHANGED <<alive, parent, env, disturbed, token>>
    BY <1>4 DEF Lookup, Observe, NestedDone, Select, Filter, Prune, PrepareError
  <2>2. pc' = pc \/ \E where \in PcValues \ {"held"} : pc' = [pc EXCEPT ![p] = where]
    BY <1>4 DEF Lookup, Observe, NestedDone, Select, Filter, Prune, PrepareError, Miss, PcValues
  <2> QED
    BY <1>0, <2>1, <2>2, SameTokens
<1>5. ASSUME NEW p \in Pids, Insert(p) \/ BeginError(p)
      PROVE  TokenFromParent'
  <2>1. /\ UNCHANGED <<alive, parent, env, disturbed>> /\ pc[p] # "held"
        /\ \E t : token' = [token EXCEPT ![p] = t]
        /\ \E where \in {"begin", "idle"} : pc' = [pc EXCEPT ![p] = where]
    BY <1>5 DEF Insert, BeginError
  <2> QED
    BY <1>0, <2>1, SameTokens
<1>6. ASSUME NEW p \in Pids, Begin(p)
      PROVE  TokenFromParent'
  <2>1. /\ pc[p] = "begin" /\ lock = None /\ pc' = [pc EXCEPT ![p] = "held"]
        /\ env' = [env EXCEPT ![p] = token[p]] /\ UNCHANGED <<alive, parent, token>>
    BY <1>6 DEF Begin
  <2>2. \A h \in Pids : pc'[h] = "held" => h = p
    BY <1>0, <2>1
  <2>3. \A c \in alive' \ {p} : env'[c] # token'[p]
    BY <1>0, <2>1 DEF OwnTokens
  <2> QED
    BY <2>2, <2>3 DEF TokenFromParent
<1>7. ASSUME NEW p \in Pids, Revoke(p) \/ Unlock(p)
      PROVE  TokenFromParent'
  <2>1. /\ pc[p] \in {"held", "unlock"}
        /\ \E where \in {"unlock", "idle"} : pc' = [pc EXCEPT ![p] = where]
    BY <1>7 DEF Revoke, Unlock
  <2>2. lock = p
    BY <2>1 DEF LockInv, TypeOK
  <2>3. \A h \in Pids : pc'[h] # "held"
    BY <1>0, <2>1, <2>2
  <2> QED
    BY <2>3 DEF TokenFromParent
<1>8. CASE UNCHANGED vars
  BY <1>8, SameTokens DEF vars
<1> QED
  BY <1>1, <1>2, <1>3, <1>4, <1>5, <1>6, <1>7, <1>8, Births DEF Next

\* A step that leaves alone what a nested process and the owner it read rely on.
LEMMA SameHolds ==
    ASSUME SeenHolds, UNCHANGED <<alive, start, env, seen>>, disturbed => disturbed',
           \A c \in alive : pc'[c] \in {"observe", "nested"} => pc'[c] = pc[c],
           \A c \in alive : OwnerLive(seen[c]) /\ pc[c] \in {"observe", "nested"}
                                /\ pc[seen[c].pid] = "held" =>
               pc'[seen[c].pid] = "held" /\ token'[seen[c].pid] = token[seen[c].pid]
    PROVE  SeenHolds'
BY DEF SeenHolds, OwnerLive

\* The record that a process looks at names the owner of the lock, or nobody alive; and the
\* owner keeps the lock as long as there is a process with its token.
LEMMA SeenHoldsStep ==
    ASSUME NestInv, [Next]_vars
    PROVE  SeenHolds'
<1> USE LockAssumption DEF At, Goto, processes, locals, NestInv
<1>0. /\ alive \subseteq Pids /\ start \in [Pids -> 0 .. MaxStart]
      /\ pc \in [Pids -> PcValues] /\ env \in [Pids -> Tokens \cup {None}]
      /\ token \in [Pids -> Tokens \cup {None}] /\ seen \in [Pids -> Owner \cup {None}]
      /\ \A o \in Owner : o.pid \in Pids /\ o.start \in 0 .. MaxStart
      /\ \A p \in Pids : lock = p <=> pc[p] \in {"held", "unlock"}
  BY DEF LockInv, TypeOK, Owner
<1>1. \A c \in alive : pc[c] \in {"observe", "nested"} =>
         /\ seen[c] \in Owner /\ seen[c].pid \in Pids /\ seen[c].start \in Nat
         /\ seen[c].start <= start[seen[c].pid]
  BY <1>0 DEF SeenOwners
<1>2. ASSUME NEW b \in Pids, NEW by \in alive \cup {None}, NEW authority,
             Begins(b, by, authority)
      PROVE  SeenHolds'
  <2>1. /\ b \notin alive /\ alive' = alive \cup {b} /\ start' = [start EXCEPT ![b] = start[b] + 1]
        /\ env' = [env EXCEPT ![b] = authority] /\ UNCHANGED <<disturbed, pc, seen, token>>
    BY <1>2 DEF Begins
  <2>2. pc[b] = "idle"
    BY <2>1 DEF SeenOwners
  <2> SUFFICES ASSUME ~disturbed, NEW c \in alive, pc[c] \in {"observe", "nested"}
               PROVE  /\ pc[c] = "nested" => OwnerLive(seen[c])'
                      /\ OwnerLive(seen[c])' =>
                            pc[seen[c].pid] = "held" /\ env'[c] = token[seen[c].pid]
    BY <2>1, <2>2 DEF SeenHolds
  <2>3. OwnerLive(seen[c])' <=> OwnerLive(seen[c])
    BY <1>0, <1>1, <2>1 DEF OwnerLive
  <2> QED
    BY <1>0, <2>1, <2>3 DEF SeenHolds
<1>3. ASSUME NEW p \in Pids, Exit(p)
      PROVE  SeenHolds'
  <2>1. /\ pc[p] = "idle" /\ alive' = alive \ {p} /\ pc' = [pc EXCEPT ![p] = "idle"]
        /\ env' = [env EXCEPT ![p] = None] /\ seen' = [seen EXCEPT ![p] = None]
        /\ token' = [token EXCEPT ![p] = None] /\ UNCHANGED start
        /\ disturbed => disturbed'
    BY <1>3 DEF Exit, Ends
  <2> SUFFICES ASSUME ~disturbed, NEW c \in alive \ {p}, pc[c] \in {"observe", "nested"}
               PROVE  /\ pc[c] = "nested" => OwnerLive(seen[c])'
                      /\ OwnerLive(seen[c])' =>
                            pc'[seen[c].pid] = "held" /\ env[c] = token'[seen[c].pid]
    BY <1>0, <2>1 DEF SeenHolds, OwnerLive
  <2>2. /\ pc[c] = "nested" => OwnerLive(seen[c])
        /\ OwnerLive(seen[c]) =>
              seen[c].pid # p /\ pc[seen[c].pid] = "held" /\ env[c] = token[seen[c].pid]
    BY <2>1 DEF SeenHolds
  <2>3. seen'[c] = seen[c] /\ seen[c].pid \in Pids
    BY <1>0, <1>1, <2>1
  <2> QED
    BY <1>0, <2>1, <2>2, <2>3 DEF OwnerLive
<1>4. ASSUME NEW p \in Pids, Crash(p)
      PROVE  SeenHolds'
  BY <1>4 DEF Crash, SeenHolds
<1>5. ASSUME NEW p \in Pids, NEW why \in {"acquire", "require"}, Lookup(p, why)
      PROVE  SeenHolds'
  <2>0. pc[p] = "idle" /\ p \in alive /\ UNCHANGED <<alive, start, disturbed, env, token>>
    BY <1>5 DEF Lookup
  <2>1. CASE \E r \in table : r.token = env[p]
    <3>1. PICK r \in table :
            /\ r.token = env[p]
            /\ seen' = [seen EXCEPT ![p] = [pid |-> r.pid, start |-> r.start]]
            /\ pc' = [pc EXCEPT ![p] = "observe"]
      BY <1>5, <2>1 DEF Lookup
    <3>2. OwnerLive([pid |-> r.pid, start |-> r.start]) =>
            pc[r.pid] = "held" /\ token[r.pid] = env[p]
      BY <3>1 DEF LockInv, ExposedOnlyWhileHeld
    <3> SUFFICES ASSUME ~disturbed, NEW c \in alive, pc'[c] \in {"observe", "nested"}
                 PROVE  /\ pc'[c] = "nested" => OwnerLive(seen'[c])
                        /\ OwnerLive(seen'[c]) =>
                              pc'[seen'[c].pid] = "held" /\ env[c] = token[seen'[c].pid]
      BY <2>0 DEF SeenHolds, OwnerLive
    <3>3. CASE c = p
      <4>1. r.pid \in Pids
        BY DEF LockInv, TypeOK, Record
      <4> QED
        BY <1>0, <2>0, <3>1, <3>2, <3>3, <4>1
    <3>4. CASE c # p
      <4>1. seen'[c] = seen[c] /\ pc'[c] = pc[c]
        BY <1>0, <3>1, <3>4
      <4>2. seen[c].pid \in Pids
        BY <1>1, <4>1
      <4> QED
        BY <1>0, <2>0, <3>1, <4>1, <4>2 DEF SeenHolds
    <3> QED
      BY <3>3, <3>4
  <2>2. CASE ~(\E r \in table : r.token = env[p])
    <3>1. /\ UNCHANGED seen
          /\ \E where \in {"select", "idle"} : pc' = [pc EXCEPT ![p] = where]
      BY <1>5, <2>2 DEF Lookup, Miss
    <3>2. \A c \in alive : pc'[c] \in {"observe", "nested"} => pc'[c] = pc[c]
      BY <1>0, <3>1
    <3>3. \A q \in Pids : pc[q] = "held" => pc'[q] = "held" /\ token'[q] = token[q]
      BY <1>0, <2>0, <3>1
    <3> QED
      BY <1>1, <2>0, <3>1, <3>2, <3>3, SameHolds
  <2> QED
    BY <2>1, <2>2
<1>6. ASSUME NEW p \in Pids, Observe(p)
      PROVE  SeenHolds'
  <2>0. /\ pc[p] = "observe" /\ p \in alive
        /\ UNCHANGED <<alive, start, disturbed, env, token>>
    BY <1>6 DEF Observe
  <2>1. CASE OwnerLive(seen[p]) /\ seen[p].pid # p
    <3>1. /\ pc' = [pc EXCEPT ![p] = "nested"] /\ seen' = seen
      BY <1>0, <1>6, <2>1 DEF Observe
    <3> SUFFICES ASSUME ~disturbed, NEW c \in alive, pc'[c] \in {"observe", "nested"}
                 PROVE  /\ pc'[c] = "nested" => OwnerLive(seen[c])
                        /\ OwnerLive(seen[c]) =>
                              pc'[seen[c].pid] = "held" /\ env[c] = token[seen[c].pid]
      BY <2>0, <3>1 DEF SeenHolds, OwnerLive
    <3>2. pc[c] \in {"observe", "nested"} /\ (c # p => pc'[c] = pc[c])
      BY <1>0, <2>0, <3>1
    <3>3. /\ pc'[c] = "nested" => OwnerLive(seen[c])
          /\ OwnerLive(seen[c]) => pc[seen[c].pid] = "held" /\ env[c] = token[seen[c].pid]
      BY <2>1, <3>2 DEF SeenHolds
    <3>4. seen[c].pid \in Pids
      BY <1>1, <3>2
    <3> QED
      BY <1>0, <2>0, <3>1, <3>3, <3>4
  <2>2. CASE ~(OwnerLive(seen[p]) /\ seen[p].pid # p)
    <3>1. /\ seen' = [seen EXCEPT ![p] = None]
          /\ \E where \in {"select", "idle"} : pc' = [pc EXCEPT ![p] = where]
      BY <1>0, <1>6, <2>2 DEF Observe, Miss
    <3> SUFFICES ASSUME ~disturbed, NEW c \in alive, pc'[c] \in {"observe", "nested"}
                 PROVE  /\ pc'[c] = "nested" => OwnerLive(seen'[c])
                        /\ OwnerLive(seen'[c]) =>
                              pc'[seen'[c].pid] = "held" /\ env[c] = token[seen'[c].pid]
      BY <2>0 DEF SeenHolds, OwnerLive
    <3>2. c # p /\ pc'[c] = pc[c] /\ seen'[c] = seen[c]
      BY <1>0, <3>1
    <3>3. /\ pc[c] = "nested" => OwnerLive(seen[c])
          /\ OwnerLive(seen[c]) => pc[seen[c].pid] = "held" /\ env[c] = token[seen[c].pid]
      BY <3>2 DEF SeenHolds
    <3>4. seen[c].pid \in Pids
      BY <1>1, <3>2
    <3> QED
      BY <1>0, <2>0, <3>1, <3>2, <3>3, <3>4
  <2> QED
    BY <2>1, <2>2
<1>7. ASSUME NEW p \in Pids,
             \/ NestedDone(p) \/ Select(p) \/ Filter(p) \/ Prune(p) \/ Insert(p)
             \/ PrepareError(p) \/ BeginError(p)
      PROVE  SeenHolds'
  <2>1. UNCHANGED <<alive, start, disturbed, env>> /\ pc[p] # "held"
    BY <1>7 DEF NestedDone, Select, Filter, Prune, Insert, PrepareError, BeginError
  <2>2. /\ \E t : token' = [token EXCEPT ![p] = t]
        /\ \E where \in PcValues \ {"observe", "nested"} : pc' = [pc EXCEPT ![p] = where]
    <3>1. token = [token EXCEPT ![p] = token[p]] /\ pc = [pc EXCEPT ![p] = pc[p]]
      BY <1>0
    <3> QED
      BY <1>7, <3>1 DEF NestedDone, Select, Filter, Prune, Insert, PrepareError, BeginError,
                        PcValues
  <2>3. \A c \in alive : pc'[c] \in {"observe", "nested"} => pc'[c] = pc[c] /\ c # p
    BY <1>0, <2>2
  <2>4. \A q \in Pids : pc[q] = "held" => pc'[q] = "held" /\ token'[q] = token[q]
    BY <1>0, <2>1, <2>2
  <2>5. CASE NestedDone(p)
    <3>1. seen' = [seen EXCEPT ![p] = None] /\ UNCHANGED disturbed
      BY <2>5 DEF NestedDone
    <3>2. \A c \in alive : pc'[c] \in {"observe", "nested"} => seen'[c] = seen[c]
      BY <1>0, <2>3, <3>1
    <3> QED
      BY <1>1, <2>1, <2>3, <2>4, <3>2 DEF SeenHolds, OwnerLive
  <2>6. CASE ~NestedDone(p)
    <3>1. UNCHANGED seen
      BY <1>7, <2>6 DEF Select, Filter, Prune, Insert, PrepareError, BeginError
    <3> QED
      BY <1>1, <2>1, <2>3, <2>4, <3>1, SameHolds
  <2> QED
    BY <2>5, <2>6
<1>8. ASSUME NEW p \in Pids, Begin(p)
      PROVE  SeenHolds'
  <2>1. /\ lock = None /\ pc' = [pc EXCEPT ![p] = "held"]
        /\ UNCHANGED <<alive, start, disturbed, seen>>
    BY <1>8 DEF Begin
  <2>2. ~disturbed => \A c \in alive : pc[c] \in {"observe", "nested"} =>
            pc[c] = "observe" /\ ~OwnerLive(seen[c])
    <3>1. \A q \in Pids : pc[q] # "held"
      BY <1>0, <2>1
    <3> QED
      BY <1>1, <3>1 DEF SeenHolds
  <2>3. \A c \in alive : pc'[c] \in {"observe", "nested"} => pc'[c] = pc[c]
    BY <1>0, <2>1
  <2> QED
    BY <2>1, <2>2, <2>3 DEF SeenHolds, OwnerLive
<1>9. ASSUME NEW p \in Pids, Revoke(p)
      PROVE  SeenHolds'
  <2>1. /\ pc[p] = "held" /\ p \in alive /\ pc' = [pc EXCEPT ![p] = "unlock"]
        /\ UNCHANGED <<alive, start, seen>> /\ disturbed' = (disturbed \/ ~Childless(p))
    BY <1>9 DEF Revoke
  <2> SUFFICES ASSUME ~disturbed'
               PROVE  SeenHolds'
    BY DEF SeenHolds
  <2>2. ~disturbed /\ \A c \in alive \ {p} : env[c] # token[p]
    BY <2>1, NoDescendants
  <2>3. \A q \in Pids : pc[q] = "held" => q = p
    BY <1>0, <2>1
  <2>4. \A c \in alive : pc[c] \in {"observe", "nested"} =>
            pc[c] = "observe" /\ ~OwnerLive(seen[c])
    BY <1>1, <2>1, <2>2, <2>3 DEF SeenHolds
  <2>5. \A c \in alive : pc'[c] \in {"observe", "nested"} => pc'[c] = pc[c]
    BY <1>0, <2>1
  <2> QED
    BY <2>1, <2>4, <2>5 DEF SeenHolds, OwnerLive
<1>10. ASSUME NEW p \in Pids, Unlock(p)
       PROVE  SeenHolds'
  <2>1. /\ pc[p] = "unlock" /\ pc' = [pc EXCEPT ![p] = "idle"]
        /\ UNCHANGED <<alive, start, disturbed, seen>>
    BY <1>10 DEF Unlock
  <2>2. ~disturbed => \A c \in alive : pc[c] \in {"observe", "nested"} =>
            pc[c] = "observe" /\ ~OwnerLive(seen[c])
    <3>1. \A q \in Pids : pc[q] # "held"
      BY <1>0, <2>1
    <3> QED
      BY <1>1, <3>1 DEF SeenHolds
  <2>3. \A c \in alive : pc'[c] \in {"observe", "nested"} => pc'[c] = pc[c]
    BY <1>0, <2>1
  <2> QED
    BY <2>1, <2>2, <2>3 DEF SeenHolds, OwnerLive
<1>11. CASE UNCHANGED vars
  BY <1>11 DEF vars, SeenHolds, OwnerLive
<1> QED
  BY <1>2, <1>3, <1>4, <1>5, <1>6, <1>7, <1>8, <1>9, <1>10, <1>11, Births DEF Next

\* Every behaviour of the lock keeps it, whatever crashes.
THEOREM NestInvariance == Spec => []NestInv
<1>1. NestInv /\ [Next]_vars => NestInv'
  BY InvStep, AncestryStep, OwnTokensStep, SeenOwnersStep, TokenFromParentStep, SeenHoldsStep
     DEF NestInv
<1> QED
  BY <1>1, InitNest, PTL DEF Spec

\* requireConvexWasmCacheLockAuthority and a nested acquisition check once, and what they let
\* in may be started through any number of processes in between; it still runs while the
\* owner that it read has the lock, unless a process died or went on without its children.
THEOREM Nesting == Spec => []NestedUnderLock
<1>1. NestInv => NestedUnderLock
  <2> SUFFICES ASSUME NestInv, ~disturbed, NEW c \in alive, pc[c] = "nested"
               PROVE  OwnerLive(seen[c]) /\ lock = seen[c].pid
    BY DEF NestedUnderLock
  <2>1. OwnerLive(seen[c]) /\ pc[seen[c].pid] = "held"
    BY DEF NestInv, SeenHolds
  <2>2. c \in Pids
    BY DEF NestInv, LockInv, TypeOK
  <2>3. seen[c].pid \in Pids
    BY <2>2 DEF NestInv, SeenOwners, Owner
  <2> QED
    BY <2>1, <2>3 DEF NestInv, LockInv, TypeOK
<1> QED
  BY <1>1, NestInvariance, PTL

=============================================================================
