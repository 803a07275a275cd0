--------------------- MODULE CacheEntryValidationProofs ---------------------
(***************************************************************************)
(* What MCCacheEntryValidation checks of an answer, proved for every set   *)
(* of callers and any number of attempts, changes, links and               *)
(* authentications.  The argument: the physical state of a payload tells   *)
(* whether its bytes are right (Bad), for all states that anybody may have *)
(* seen (Seen), and an authentication of bad bytes never succeeds (Sound), *)
(* whatever digest, read or memoized validation it goes back to.  The      *)
(* second part is about the calls that give up (GivesUp).                  *)
(***************************************************************************)
EXTENDS MCCacheEntryValidation, WellFoundedInduction, TLAPS

Refers == {"validating", "after", "fenced"}
Pcs == {"before", "captured"} \cup Refers \cup Over
Running == {"look", "admit", "hash", "hashed", "verify"}
Outcomes == {"entry", "miss", "changed", "error"}

CallType == [pc : Pcs, left : 1..Attempts, fits : BOOLEAN, before : Phys \cup {None}, key : Keys,
             val : Ids \cup {0}, after : Payload \cup {None}, published : BOOLEAN, changes : Nat]
ValType == [step : {"free"} \cup Running \cup Outcomes, fits : BOOLEAN, id : {0, 1, None},
            before : Phys \cup {None}, good : BOOLEAN]

TypeInv ==
    /\ admitted \in BOOLEAN
    /\ payload \in Payload \cup {None}
    /\ DOMAIN memo \subseteq Keys /\ \A k \in DOMAIN memo : memo[k] \in Ids
    /\ retained \in Retained \cup {None}
    /\ DOMAIN digests \subseteq Phys
    /\ flight \in Flight \cup {None}
    /\ val \in [Ids -> ValType]
    /\ call \in [Callers -> CallType]

\* The state of a payload whose bytes are wrong: it was written after it was admitted, or its
\* time of modification was restored, after which it is as it was but for its ctime.
Bad(s) == s.mtime = 1 \/ (s.ctime = 1 /\ s.nlink = 1)
Faithful(p) == p # None => (p.good <=> ~Bad(PhysOf(p)))
Restored(p) == p # None /\ p.mtime = 0 /\ ~p.good

\* What somebody may have seen of a payload that is p now.
Seen(s, p) ==
    s # None =>
        /\ p # None /\ s \in Phys /\ s.ctime <= p.ctime
        /\ s.ctime = 0 => s.mtime = 0 /\ s.nlink = 1
        /\ s.mtime = 1 => p.mtime = 1
        /\ s.mtime = 0 /\ Bad(s) => Restored(p)
        /\ Restored(p) => s.ctime = 0 \/ s = PhysOf(p)

\* No authentication of bytes that are wrong succeeds.
Sound(s, w) == s # None /\ Bad(s) => w.step \notin {"verify", "entry"} /\ ~w.good

PayloadInv == Faithful(payload) /\ Seen(PhysOf(payload), payload)

FlightInv ==
    /\ (flight # None) = \E c \in Callers : call[c].pc \in {"before", "after"}
    /\ flight # None => Seen(PhysOf(flight.state), payload) /\ Faithful(flight.state)

MemoInv ==
    /\ \A k \in DOMAIN memo :
          /\ Seen(k[1], payload) /\ Sound(k[1], val[memo[k]])
          /\ val[memo[k]].step \notin {"free", "error"}
    /\ retained # None =>
          Seen(retained.state, payload) /\ ~Bad(retained.state) /\ Seen(retained.key[1], payload)
    /\ \A s \in DOMAIN digests : digests[s] <=> ~Bad(s)

ValInv ==
    \A v \in Ids :
        /\ val[v].step \in {"admit", "hash", "hashed", "verify"} => payload # None
        /\ val[v].step \in {"hash", "hashed"} => val[v].before # None

\* What a call r read, when the payload is p, what the authentication among w that it refers to
\* has come to, and, if the entry was published before the call, that no read f which it still
\* waits for is older.
CallInv(r, p, f, w) ==
    /\ Seen(r.before, p) /\ Seen(r.key[1], p) /\ Seen(PhysOf(r.after), p) /\ Faithful(r.after)
    /\ r.pc \in Refers => r.val \in Ids /\ Sound(r.before, w[r.val])
    /\ r.pc \in {"after", "fenced"} => w[r.val].step \in {"entry", "miss"}
    /\ r.pc = "entry" => r.after # None /\ r.after.good /\ r.fits
    /\ r.published => p # None
    /\ r.published /\ r.pc \in {"captured", "validating", "after"} /\ f # None /\ f.seen
          => f.state # None
    /\ r.published /\ r.pc = "fenced" => r.after # None
    /\ r.pc = "miss" => ~r.published

CallsInv == \A c \in Callers : CallInv(call[c], payload, flight, val)

Inv == TypeInv /\ PayloadInv /\ FlightInv /\ MemoInv /\ ValInv /\ CallsInv

-----------------------------------------------------------------------------
(* The operators.                                                          *)

\* Min, of which the library has no theorem.
LEMMA MinIsLeast ==
    ASSUME NEW S, S \subseteq Nat, S # {}
    PROVE  Min(S) \in S /\ \A y \in S : Min(S) <= y
<1>1. IsWellFoundedOn({ss \in Nat \X Nat : ss[1] < ss[2]}, Nat)
  BY NatLessThanWellFounded DEF OpToRel
<1>2. PICK x \in S : \A y \in S : ~ (<<y, x>> \in {ss \in Nat \X Nat : ss[1] < ss[2]})
  <2> HIDE DEF IsWellFoundedOn
  <2> QED
    BY <1>1, WFMin, Zenon
<1>3. ASSUME NEW y \in S PROVE x <= y
  <2>1. x \in Nat /\ y \in Nat /\ ~ (<<y, x>> \in {ss \in Nat \X Nat : ss[1] < ss[2]})
    BY <1>2
  <2>2. ~ (y < x)
    BY <2>1
  <2> QED
    BY <2>1, <2>2
<1> QED
  BY <1>3 DEF Min

LEMMA Types == Ids \subseteq Nat \ {0} /\ Times \subseteq Nat /\ 0 \in Times /\ 1 \in 1..MaxLinks
  BY ScopeAssumption DEF Ids, Times

\* A physical state, and what is not one.
LEMMA PhysOfPayload ==
    ASSUME NEW p \in Payload
    PROVE  /\ PhysOf(p) \in Phys /\ PhysOf(p) # None /\ p # None
           /\ PhysOf(p).ctime = p.ctime /\ PhysOf(p).mtime = p.mtime /\ PhysOf(p).nlink = p.nlink
           /\ p.ctime \in Nat /\ p.nlink \in Nat /\ p.mtime \in {0, 1} /\ p.good \in BOOLEAN
<1>0. p.ctime \in Nat /\ p.nlink \in Nat /\ p.mtime \in {0, 1} /\ p.good \in BOOLEAN
  BY ScopeAssumption DEF Payload, Times
<1>1. p # None
  BY NoneIsNothing
<1>2. PhysOf(p) \in Phys
  BY <1>1 DEF PhysOf, Payload, Phys
<1> QED
  BY <1>0, <1>1, <1>2, NoneIsNothing DEF PhysOf

LEMMA PhysOfNone == PhysOf(None) = None
  BY DEF PhysOf

\* Of two states that were seen, one that retains the other's bytes is bad as the other is.
LEMMA SameBytes ==
    ASSUME NEW z \in Payload, Faithful(z), NEW p, NEW q, Seen(p, z), Seen(q, z),
           Retains(p, q), p # None
    PROVE  q # None /\ (Bad(p) <=> Bad(q))
<1>1. CASE p = q
  BY <1>1
<1>2. CASE q # None /\ SameContent(p, q)
  <2>1. p \in Phys /\ q \in Phys
    BY <1>2 DEF Seen
  <2>2. CASE p.mtime = 1
    BY <1>2, <2>2 DEF SameContent, Bad
  <2>3. CASE p.mtime = 0 /\ Restored(z)
    <3>1. PhysOf(z).ctime = 1 /\ PhysOf(z).nlink = 1 /\ PhysOf(z).mtime = 0
      BY <2>3, PhysOfPayload DEF Faithful, Restored, Bad
    <3>2. \A s \in {p, q} : (s.ctime = 0 /\ s.mtime = 0 /\ s.nlink = 1) \/ s = PhysOf(z)
      BY <1>2, <2>3 DEF Seen
    <3> QED
      BY <1>2, <3>1, <3>2 DEF SameContent, Bad
  <2>4. CASE p.mtime = 0 /\ ~Restored(z)
    BY <1>2, <2>4 DEF SameContent, Bad, Seen
  <2> QED
    BY <2>1, <2>2, <2>3, <2>4 DEF Phys
<1> QED
  BY <1>1, <1>2 DEF Retains

\* Bytes that were wrong are wrong.
LEMMA BadStays ==
    ASSUME NEW z \in Payload, Faithful(z), NEW s, Seen(s, z), s # None, Bad(s)
    PROVE  ~z.good
<1>1. s \in Phys
  BY DEF Seen
<1>2. CASE s.mtime = 1
  BY <1>2, PhysOfPayload DEF Seen, Faithful, Bad
<1>3. CASE s.mtime = 0
  BY <1>3 DEF Seen, Restored
<1> QED
  BY <1>1, <1>2, <1>3 DEF Phys

\* The publisher's admission stands for the right bytes.
LEMMA AdmittedIsGood ==
    ASSUME NEW z \in Payload, Faithful(z), SameContent(Admission, PhysOf(z))
    PROVE  z.good
<1>1. PhysOf(z).mtime = 0 /\ (PhysOf(z).ctime = 0 \/ PhysOf(z).nlink # 1)
  BY DEF SameContent, Admission
<1> QED
  BY <1>1, PhysOfPayload DEF Faithful, Bad

\* What is left of the memo says what it said.
Within(f, g) == DOMAIN f \subseteq DOMAIN g /\ \A x \in DOMAIN f : f[x] = g[x]

LEMMA Forgets == \A k, v : Within(Forget(k, v), memo)
<1> SUFFICES ASSUME NEW k, NEW v PROVE Within(Forget(k, v), memo)
  OBVIOUS
<1>1. CASE Forget(k, v) = memo
  BY <1>1 DEF Within
<1>2. CASE Forget(k, v) = Without(memo, k)
  BY <1>2 DEF Within, Without
<1> QED
  BY <1>1, <1>2 DEF Forget

-----------------------------------------------------------------------------
(* The payload: whatever was seen stays among what may have been seen.     *)

LEMMA PayloadStep ==
    ASSUME Inv, Publish \/ Link \/ \E restoring \in BOOLEAN : Rewrite(restoring)
    PROVE  /\ payload' \in Payload /\ Faithful(payload') /\ Seen(PhysOf(payload'), payload')
           /\ \A s : Seen(s, payload) => Seen(s, payload')
<1>1. CASE Publish
  <2>1. payload = None /\ payload' = [ctime |-> 0, mtime |-> 0, nlink |-> 1, good |-> TRUE]
    BY <1>1 DEF Publish
  <2>2. payload' \in Payload
    BY <2>1, Types DEF Payload
  <2>3. PhysOf(payload') = [ctime |-> 0, mtime |-> 0, nlink |-> 1]
    BY <2>1, <2>2, PhysOfPayload DEF PhysOf
  <2>4. PhysOf(payload') \in Phys
    BY <2>2, PhysOfPayload
  <2>5. /\ payload'.mtime = 0 /\ payload'.ctime = 0 /\ payload'.good /\ payload' # None
        /\ PhysOf(payload').ctime = 0 /\ PhysOf(payload').mtime = 0 /\ PhysOf(payload').nlink = 1
    BY <2>1, <2>2, <2>3, PhysOfPayload
  <2>6. Faithful(payload') /\ Seen(PhysOf(payload'), payload')
    BY <2>4, <2>5 DEF Faithful, Seen, Bad, Restored
  <2>7. \A s : Seen(s, payload) => Seen(s, payload')
    BY <2>1 DEF Seen
  <2> QED
    BY <2>2, <2>6, <2>7
<1>2. CASE Link
  <2>1. PICK n \in {payload.nlink - 1, payload.nlink + 1} \cap 1..MaxLinks :
           payload' = [payload EXCEPT !.ctime = @ + 1, !.nlink = n]
    BY <1>2 DEF Link
  <2>2. payload \in Payload /\ payload.ctime < MaxChanges /\ (payload.good \/ payload.mtime = 1)
    BY <1>2 DEF Link, Inv, TypeInv
  <2>3. /\ payload'.ctime = payload.ctime + 1 /\ payload'.mtime = payload.mtime
        /\ payload'.nlink = n /\ payload'.good = payload.good
        /\ payload' \in Payload
    <3>1. payload.ctime + 1 \in Times /\ n \in 1..MaxLinks
      BY <2>2, ScopeAssumption DEF Payload, Times
    <3> QED
      BY <2>1, <2>2, <3>1 DEF Payload
  <2>4. /\ PhysOf(payload').ctime = payload.ctime + 1 /\ PhysOf(payload').mtime = payload.mtime
        /\ PhysOf(payload').nlink = n /\ PhysOf(payload') \in Phys
    BY <2>3, PhysOfPayload
  <2>5. /\ PhysOf(payload).ctime = payload.ctime /\ PhysOf(payload).mtime = payload.mtime
        /\ PhysOf(payload).nlink = payload.nlink
    BY <2>2, PhysOfPayload
  <2>6. payload.ctime \in Nat /\ payload.nlink \in Nat /\ payload.mtime \in {0, 1}
    BY <2>2, PhysOfPayload
  <2>7. Faithful(payload')
    BY <2>2, <2>3, <2>4, <2>5, <2>6, PhysOfPayload
       DEF Faithful, Seen, Bad, Inv, PayloadInv
  <2>8. ~Restored(payload')
    BY <2>2, <2>3 DEF Restored
  <2>9. Seen(PhysOf(payload'), payload')
    BY <2>2, <2>3, <2>4, <2>6, <2>7, <2>8, PhysOfPayload DEF Seen, Bad, Faithful
  <2>10. \A s : Seen(s, payload) => Seen(s, payload')
    BY <2>2, <2>3, <2>6, <2>8, NoneIsNothing DEF Seen, Restored, Phys, Times
  <2> QED
    BY <2>3, <2>7, <2>9, <2>10
<1>3. CASE \E restoring \in BOOLEAN : Rewrite(restoring)
  <2>1. PICK restoring \in BOOLEAN : Rewrite(restoring)
    BY <1>3
  <2>2. /\ payload \in Payload /\ payload.good /\ payload.ctime < MaxChanges
        /\ restoring => payload.ctime = 0
    BY <2>1 DEF Rewrite, Inv, TypeInv
  <2>3. /\ payload'.ctime = payload.ctime + 1 /\ payload'.nlink = payload.nlink
        /\ payload'.mtime = IF restoring THEN 0 ELSE 1
        /\ ~payload'.good /\ payload' \in Payload
    <3> DEFINE m == IF restoring THEN 0 ELSE 1
    <3>1. payload.ctime + 1 \in Times /\ m \in {0, 1}
      BY <2>2, ScopeAssumption DEF Payload, Times
    <3>2. payload' = [payload EXCEPT !.ctime = payload.ctime + 1, !.good = FALSE, !.mtime = m]
      BY <2>1 DEF Rewrite
    <3> HIDE DEF m
    <3>3. payload' \in Payload /\ payload'.ctime = payload.ctime + 1 /\ ~payload'.good
          /\ payload'.mtime = m /\ payload'.nlink = payload.nlink
      BY <2>2, <3>1, <3>2 DEF Payload
    <3> QED
      BY <3>3 DEF m
  <2>4. /\ PhysOf(payload').ctime = payload.ctime + 1
        /\ PhysOf(payload').mtime = IF restoring THEN 0 ELSE 1
        /\ PhysOf(payload').nlink = payload.nlink /\ PhysOf(payload') \in Phys
    BY <2>3, PhysOfPayload
  <2>5. /\ PhysOf(payload).ctime = payload.ctime /\ PhysOf(payload).mtime = payload.mtime
        /\ PhysOf(payload).nlink = payload.nlink /\ PhysOf(payload) # None
    BY <2>2, PhysOfPayload
  <2>6. payload.ctime \in Nat /\ payload.nlink \in Nat /\ payload.mtime = 0
    <3>1. Faithful(payload)
      BY DEF Inv, PayloadInv
    <3> QED
      BY <2>2, <2>5, <3>1, PhysOfPayload DEF Faithful, Bad
  <2>7. restoring => payload.nlink = 1
    BY <2>2, <2>5 DEF Inv, PayloadInv, Seen
  <2>8. payload' # None /\ payload'.ctime = payload.ctime + 1 /\ ~payload'.good
        /\ payload'.mtime = IF restoring THEN 0 ELSE 1
    BY <2>3, NoneIsNothing
  <2>9. Faithful(payload')
    BY <2>2, <2>4, <2>7, <2>8 DEF Faithful, Bad
  <2>10. Seen(PhysOf(payload'), payload')
    BY <2>4, <2>6, <2>7, <2>8 DEF Seen, Bad, Restored
  <2>11. ASSUME NEW s, Seen(s, payload), s # None PROVE Seen(s, payload')
    <3>1. s \in Phys /\ s.ctime \in Nat /\ s.ctime <= payload.ctime
      BY <2>11, Types DEF Seen, Phys
    <3>2. s.mtime = 0 /\ ~Bad(s)
      BY <2>2, <2>6, <2>11, <3>1 DEF Seen, Restored, Phys
    <3> QED
      BY <2>2, <2>6, <2>8, <2>11, <3>1, <3>2 DEF Seen, Restored
  <2> QED
    BY <2>3, <2>9, <2>10, <2>11 DEF Seen
<1> QED
  BY <1>1, <1>2, <1>3

-----------------------------------------------------------------------------
(* The records.                                                            *)

LEMMA Joins ==
    ASSUME TypeInv
    PROVE  /\ Joined \in Flight /\ Joined # None
           /\ flight # None => Joined = flight
           /\ flight = None => ~Joined.seen /\ Joined.state = None
<1>1. None \notin Flight /\ flight \in Flight \cup {None}
  BY NoneIsNothing DEF TypeInv
<1>2. [seen |-> FALSE, state |-> None] \in Flight
  BY DEF Flight
<1> QED
  BY <1>1, <1>2 DEF Joined

LEMMA NoCallType == NoCall \in CallType
<1>1. Attempts \in 1..Attempts
  BY ScopeAssumption
<1>2. "idle" \in Pcs
  BY DEF Pcs, Over
<1>3. <<None, TRUE>> \in Keys
  BY DEF Keys
<1> DEFINE k == <<None, TRUE>>
<1>4. NoCall = [pc |-> "idle", left |-> Attempts, fits |-> TRUE, before |-> None, key |-> k,
                val |-> 0, after |-> None, published |-> FALSE, changes |-> 0]
  BY DEF NoCall
<1>5. k \in Keys
  BY <1>3
<1> HIDE DEF k
<1> QED
  BY <1>1, <1>2, <1>4, <1>5 DEF CallType

\* A record that refers to no authentication, and has got to pc, with some attempts left and
\* the last read of the entry.
Ended(r, pc, left, after) == [Cleared(r) EXCEPT !.pc = pc, !.left = left, !.after = after]

LEMMA EndedType ==
    ASSUME NEW r \in CallType, NEW pc \in Pcs, NEW left \in 1..Attempts,
           NEW after \in Payload \cup {None}
    PROVE  /\ Ended(r, pc, left, after) \in CallType
           /\ Ended(r, pc, left, after).pc = pc /\ Ended(r, pc, left, after).before = None
           /\ Ended(r, pc, left, after).key[1] = None /\ Ended(r, pc, left, after).after = after
           /\ Ended(r, pc, left, after).published = r.published
           /\ Ended(r, pc, left, after).fits = r.fits
<1> DEFINE k == NoCall.key
           x == Ended(r, pc, left, after)
<1>1. k \in Keys /\ k[1] = None
  BY NoCallType DEF CallType, NoCall
<1>2. x = [r EXCEPT !.pc = pc, !.left = left, !.before = None, !.key = k, !.val = 0,
                    !.after = after]
  BY DEF Cleared, CallType, Ended
<1> HIDE DEF k, x
<1>3. /\ x \in CallType /\ x.pc = pc /\ x.before = None /\ x.key = k /\ x.after = after
      /\ x.published = r.published /\ x.fits = r.fits
  BY <1>1, <1>2 DEF CallType
<1> QED
  BY <1>1, <1>3 DEF x

LEMMA ValidatesType ==
    ASSUME NEW r \in CallType, NEW key \in Keys, NEW v \in Ids
    PROVE  /\ Validates(r, key, v) \in CallType
           /\ Validates(r, key, v).pc = "validating" /\ Validates(r, key, v).val = v
           /\ Validates(r, key, v).before = r.before /\ Validates(r, key, v).after = r.after
           /\ Validates(r, key, v).published = r.published /\ Validates(r, key, v).key = key
  BY DEF Validates, CallType, Pcs, Refers

-----------------------------------------------------------------------------
(* The frame: what happens elsewhere leaves a call in order.               *)

\* A read that others join, or that somebody who needs one starts.
LEMMA JoinedIsLate ==
    ASSUME TypeInv, NEW r, NEW p, NEW w, CallInv(r, p, flight, w)
    PROVE  CallInv(r, p, Joined, w)
<1>1. CASE flight # None
  BY <1>1, Joins
<1>2. CASE flight = None
  BY <1>2, Joins DEF CallInv
<1> QED
  BY <1>1, <1>2

\* A step of one call.
LEMMA CallGoes ==
    ASSUME Inv, NEW c \in Callers, NEW r \in CallType, call' = [call EXCEPT ![c] = r],
           call[c].pc \notin {"before", "after"},
           flight' = (IF r.pc \in {"before", "after"} THEN Joined ELSE flight),
           payload' = payload,
           \A d \in Callers \ {c} : CallInv(call[d], payload, flight, val'),
           CallInv(r, payload, flight', val')
    PROVE  /\ call' \in [Callers -> CallType] /\ flight' \in Flight \cup {None}
           /\ FlightInv' /\ CallsInv'
<1>1. /\ TypeInv /\ call \in [Callers -> CallType]
      /\ flight \in Flight \cup {None} /\ Joined \in Flight /\ Joined # None
  BY Joins DEF Inv, TypeInv
<1>2. call' \in [Callers -> CallType] /\ flight' \in Flight \cup {None}
  BY <1>1
<1>3. call'[c] = r /\ \A d \in Callers \ {c} : call'[d] = call[d]
  BY <1>1
<1>4. CallsInv'
  <2>1. ASSUME NEW d \in Callers \ {c} PROVE CallInv(call[d], payload, flight', val')
    BY <1>1, <2>1, JoinedIsLate
  <2> QED
    BY <1>3, <2>1 DEF CallsInv
<1>5. FlightInv'
  <2>1. (flight' # None) = \E d \in Callers : call'[d].pc \in {"before", "after"}
    <3>1. CASE r.pc \in {"before", "after"}
      BY <1>1, <1>3, <3>1
    <3>2. CASE r.pc \notin {"before", "after"}
      BY <1>3, <3>2 DEF Inv, FlightInv
    <3> QED
      BY <3>1, <3>2
  <2>2. flight' # None => Seen(PhysOf(flight'.state), payload) /\ Faithful(flight'.state)
    <3>1. CASE flight' = flight
      BY <3>1 DEF Inv, FlightInv
    <3>2. CASE flight = None /\ flight' = Joined
      BY <1>1, <3>2, Joins, PhysOfNone DEF Seen, Faithful
    <3> QED
      BY <1>1, <3>1, <3>2, Joins
  <2> QED
    BY <2>1, <2>2 DEF FlightInv
<1> QED
  BY <1>2, <1>4, <1>5

\* A step of an authentication: one that is concluded stays, and one of bytes that are wrong
\* does not succeed.
LEMMA ValGoes ==
    ASSUME Inv, NEW v \in Ids, NEW w \in ValType, val' = [val EXCEPT ![v] = w],
           val[v].step \in Running,
           \A s : Seen(s, payload) /\ Sound(s, val[v]) => Sound(s, w),
           w.step \in {"admit", "hash", "hashed", "verify"} => payload # None,
           w.step \in {"hash", "hashed"} => w.before # None,
           w.step # "free",
           DOMAIN digests' \subseteq Phys, \A s \in DOMAIN digests' : digests'[s] <=> ~Bad(s),
           IF w.step = "error" THEN memo' = [k \in {k \in DOMAIN memo : memo[k] # v} |-> memo[k]]
                               ELSE memo' = memo,
           UNCHANGED <<admitted, payload, retained, flight, call>>
    PROVE  Inv'
<1>1. val \in [Ids -> ValType] /\ call \in [Callers -> CallType]
  BY DEF Inv, TypeInv
<1>2. val'[v] = w /\ (\A u \in Ids \ {v} : val'[u] = val[u]) /\ val' \in [Ids -> ValType]
  BY <1>1
<1>3. \A s, u : Seen(s, payload) /\ u \in Ids /\ Sound(s, val[u]) => Sound(s, val'[u])
  BY <1>2
<1>4. Within(memo', memo) /\ \A k \in DOMAIN memo' : w.step = "error" => memo[k] # v
  BY DEF Within
<1>5. TypeInv'
  BY <1>2, <1>4 DEF Inv, TypeInv, Within
<1>6. PayloadInv' /\ FlightInv'
  BY DEF Inv, PayloadInv, FlightInv
<1>7. ValInv'
  BY <1>2 DEF Inv, ValInv
<1>8. MemoInv'
  <2>1. ASSUME NEW k \in DOMAIN memo'
        PROVE  /\ Seen(k[1], payload) /\ Sound(k[1], val'[memo'[k]])
               /\ val'[memo'[k]].step \notin {"free", "error"}
    <3>1. /\ k \in DOMAIN memo /\ memo'[k] = memo[k] /\ memo[k] \in Ids
          /\ Seen(k[1], payload) /\ Sound(k[1], val[memo[k]])
          /\ val[memo[k]].step \notin {"free", "error"}
      BY <1>4, <2>1 DEF Within, Inv, MemoInv, TypeInv
    <3>2. Sound(k[1], val'[memo'[k]])
      BY <1>3, <3>1
    <3> QED
      BY <1>2, <1>4, <3>1, <3>2
  <2> QED
    BY <2>1 DEF Inv, MemoInv
<1>9. CallsInv'
  <2>1. ASSUME NEW c \in Callers PROVE CallInv(call[c], payload, flight, val')
    <3>1. CallInv(call[c], payload, flight, val)
      BY DEF Inv, CallsInv
    <3>2. call[c].pc \in Refers => call[c].val \in Ids /\ Sound(call[c].before, val'[call[c].val])
      BY <1>3, <3>1 DEF CallInv
    <3>3. call[c].pc \in {"after", "fenced"} => val'[call[c].val].step \in {"entry", "miss"}
      BY <1>2, <3>1, <3>2 DEF CallInv, Refers, Running
    <3> QED
      BY <3>1, <3>2, <3>3 DEF CallInv
  <2> QED
    BY <2>1 DEF CallsInv
<1> QED
  BY <1>5, <1>6, <1>7, <1>8, <1>9 DEF Inv

-----------------------------------------------------------------------------
(* The authentications.                                                    *)

LEMMA SettledType ==
    ASSUME NEW result \in {"look"} \cup Outcomes, NEW fits \in BOOLEAN
    PROVE  LET w == [NoVal EXCEPT !.step = result, !.fits = fits] IN
           w \in ValType /\ w.step = result /\ ~w.good
  BY DEF NoVal, ValType, Outcomes, Running

\* A result other than an entry leaves nothing to be wrong.
LEMMA Settles ==
    ASSUME Inv, NEW v \in Ids, val[v].step \in Running, NEW result \in Outcomes,
           Settle(v, result),
           \A s : Seen(s, payload) /\ Sound(s, val[v]) /\ s # None /\ Bad(s) => result # "entry",
           IF result = "error" THEN memo' = [k \in {k \in DOMAIN memo : memo[k] # v} |-> memo[k]]
                               ELSE memo' = memo,
           DOMAIN digests' \subseteq Phys, \A s \in DOMAIN digests' : digests'[s] <=> ~Bad(s),
           UNCHANGED <<admitted, payload, retained, flight, call>>
    PROVE  Inv'
<1> DEFINE w == [NoVal EXCEPT !.step = result, !.fits = val[v].fits]
<1>1. val[v].fits \in BOOLEAN
  BY DEF Inv, TypeInv, ValType
<1>2. w \in ValType /\ w.step = result /\ ~w.good
  BY <1>1, SettledType
<1>3. val' = [val EXCEPT ![v] = w]
  BY DEF Settle
<1> HIDE DEF w
<1>4. \A s : Seen(s, payload) /\ Sound(s, val[v]) => Sound(s, w)
  BY <1>2 DEF Sound, Outcomes
<1>5. w.step \in Outcomes
  BY <1>2
<1> QED
  BY <1>2, <1>3, <1>4, <1>5, ValGoes DEF Outcomes

LEMMA DigestsHold ==
    ASSUME Inv
    PROVE  DOMAIN digests \subseteq Phys /\ \A s \in DOMAIN digests : digests[s] <=> ~Bad(s)
  BY DEF Inv, TypeInv, MemoInv

LEMMA ThereWhileRunning ==
    ASSUME Inv, NEW v \in Ids, val[v].step \in {"admit", "hash", "hashed", "verify"}
    PROVE  payload \in Payload /\ Faithful(payload) /\ val[v] \in ValType
  BY DEF Inv, TypeInv, ValInv, PayloadInv

LEMMA LookStep == ASSUME Inv, NEW v \in Ids, ValLook(v) PROVE Inv'
<1> USE DEF ValLook
<1>1. val[v].step \in Running /\ val[v] \in ValType
  BY DEF Running, Inv, TypeInv
<1>2. CASE payload = None
  <2>1. Settle(v, "miss")
    BY <1>2
  <2> QED
    BY <1>1, <2>1, Settles, DigestsHold DEF Outcomes
<1>3. CASE payload # None
  <2> DEFINE w == [val[v] EXCEPT !.step = "admit", !.id = payload.mtime]
  <2>1. payload.mtime \in {0, 1}
    BY <1>3, PhysOfPayload DEF Inv, TypeInv
  <2>2. w \in ValType /\ w.step = "admit" /\ w.good = val[v].good
    BY <1>1, <2>1 DEF ValType, Running
  <2>3. val' = [val EXCEPT ![v] = w]
    BY <1>3
  <2> HIDE DEF w
  <2>4. \A s : Sound(s, val[v]) => Sound(s, w)
    BY <2>2 DEF Sound
  <2> QED
    BY <1>1, <1>3, <2>2, <2>3, <2>4, ValGoes, DigestsHold
<1> QED
  BY <1>2, <1>3

LEMMA AdmitStep == ASSUME Inv, NEW v \in Ids, ValAdmit(v) PROVE Inv'
<1>1. /\ val[v].step \in Running /\ val[v].step = "admit" /\ val[v] \in ValType
      /\ payload \in Payload /\ Faithful(payload)
      /\ UNCHANGED <<admitted, payload, retained, digests, flight, call>>
  BY ThereWhileRunning DEF Running, ValAdmit
<1>2. CASE ~val[v].fits
  <2>1. Settle(v, "error") /\ memo' = [k \in {k \in DOMAIN memo : memo[k] # v} |-> memo[k]]
    BY <1>2 DEF ValAdmit, Fail
  <2> QED
    BY <1>1, <2>1, Settles, DigestsHold DEF Outcomes
<1>3. CASE val[v].fits
  <2> DEFINE step == IF AdmissionHolds THEN "verify"
                     ELSE IF PhysOf(payload) \in DOMAIN digests THEN "hashed" ELSE "hash"
             good == \/ AdmissionHolds
                     \/ PhysOf(payload) \in DOMAIN digests /\ digests[PhysOf(payload)]
             b == PhysOf(payload)
             w == [val[v] EXCEPT !.step = step, !.before = b, !.good = good]
  <2>1. val' = [val EXCEPT ![v] = w] /\ memo' = memo
    BY <1>3 DEF ValAdmit
  <2>2. good \in BOOLEAN /\ (good => payload.good)
    <3>1. AdmissionHolds => payload.good
      BY <1>1, AdmittedIsGood DEF AdmissionHolds
    <3>2. b \in DOMAIN digests /\ digests[b] => payload.good
      BY <1>1, DigestsHold, PhysOfPayload DEF Faithful
    <3> QED
      BY <3>1, <3>2
  <2>3. step \in {"verify", "hashed", "hash"} /\ (step = "verify" => good)
    OBVIOUS
  <2>4. b \in Phys /\ b # None
    BY <1>1, PhysOfPayload
  <2> HIDE DEF step, good, b
  <2>5. w \in ValType /\ w.step = step /\ w.before = b /\ w.good = good
    BY <1>1, <2>2, <2>3, <2>4 DEF ValType, Running
  <2> HIDE DEF w
  <2>6. ASSUME NEW s, Seen(s, payload) PROVE Sound(s, w)
    BY <1>1, <2>2, <2>3, <2>5, <2>6, BadStays DEF Sound
  <2> QED
    BY <1>1, <2>1, <2>3, <2>4, <2>5, <2>6, ValGoes, DigestsHold, PhysOfPayload
<1> QED
  BY <1>1, <1>2, <1>3 DEF ValType

LEMMA HashStep == ASSUME Inv, NEW v \in Ids, ValHash(v) PROVE Inv'
<1>1. /\ val[v].step \in Running /\ val[v].step = "hash" /\ val[v] \in ValType
      /\ payload \in Payload /\ Faithful(payload)
      /\ UNCHANGED <<admitted, payload, retained, flight, call>>
  BY ThereWhileRunning DEF Running, ValHash
<1>2. CASE payload.mtime # val[v].id
  <2>1. /\ Settle(v, "error") /\ memo' = [k \in {k \in DOMAIN memo : memo[k] # v} |-> memo[k]]
        /\ digests' = digests
    BY <1>2 DEF ValHash, Fail
  <2> QED
    BY <1>1, <2>1, Settles, DigestsHold DEF Outcomes
<1>3. CASE payload.mtime = val[v].id
  <2> DEFINE w == [val[v] EXCEPT !.step = "hashed", !.good = payload.good]
  <2>1. val' = [val EXCEPT ![v] = w] /\ memo' = memo
    BY <1>3 DEF ValHash
  <2>2. /\ w \in ValType /\ w.step = "hashed" /\ w.before = val[v].before
        /\ w.good = payload.good
    BY <1>1, PhysOfPayload DEF ValType, Running
  <2> HIDE DEF w
  <2>3. ASSUME NEW s, Seen(s, payload) PROVE Sound(s, w)
    BY <1>1, <2>2, <2>3, BadStays DEF Sound
  <2>4. DOMAIN digests' \subseteq Phys /\ \A s \in DOMAIN digests' : digests'[s] <=> ~Bad(s)
    <3>1. CASE digests' = digests
      BY <3>1, DigestsHold
    <3>2. CASE val[v].before = PhysOf(payload)
               /\ digests' = With(digests, val[v].before, payload.good)
      <4>1. /\ DOMAIN digests' = DOMAIN digests \cup {val[v].before}
            /\ digests'[val[v].before] = payload.good
            /\ \A s \in DOMAIN digests \ {val[v].before} : digests'[s] = digests[s]
        BY <3>2 DEF With
      <4>2. val[v].before \in Phys /\ (payload.good <=> ~Bad(val[v].before))
        BY <1>1, <3>2, PhysOfPayload DEF Faithful
      <4> QED
        BY <4>1, <4>2, DigestsHold
    <3> QED
      BY <1>3, <3>1, <3>2 DEF ValHash
  <2>5. val[v].before # None
    BY <1>1 DEF Inv, ValInv
  <2> QED
    BY <1>1, <2>1, <2>2, <2>3, <2>4, <2>5, ValGoes, PhysOfPayload
<1> QED
  BY <1>2, <1>3

LEMMA HashedStep == ASSUME Inv, NEW v \in Ids, ValHashed(v) PROVE Inv'
<1>1. /\ val[v].step \in Running /\ val[v].step = "hashed" /\ val[v] \in ValType
      /\ payload \in Payload /\ Faithful(payload)
      /\ UNCHANGED <<admitted, payload, retained, flight, call>>
  BY ThereWhileRunning DEF Running, ValHashed
<1>2. CASE ~SameContent(val[v].before, PhysOf(payload))
  <2>1. /\ Settle(v, "changed") /\ memo' = memo
        /\ digests' = Without(digests, val[v].before)
    BY <1>2 DEF ValHashed
  <2>2. DOMAIN digests' \subseteq Phys /\ \A s \in DOMAIN digests' : digests'[s] <=> ~Bad(s)
    BY <2>1, DigestsHold DEF Without
  <2> QED
    BY <1>1, <2>1, <2>2, Settles DEF Outcomes
<1>3. CASE SameContent(val[v].before, PhysOf(payload)) /\ val[v].good
  <2> DEFINE w == [val[v] EXCEPT !.step = "verify"]
  <2>1. val' = [val EXCEPT ![v] = w] /\ memo' = memo /\ digests' = digests
    BY <1>3 DEF ValHashed
  <2>2. w \in ValType /\ w.step = "verify" /\ w.good
    BY <1>1, <1>3 DEF ValType, Running
  <2> HIDE DEF w
  <2>3. \A s : Sound(s, val[v]) => Sound(s, w)
    BY <1>3 DEF Sound
  <2> QED
    BY <1>1, <2>1, <2>2, <2>3, ValGoes, DigestsHold, PhysOfPayload
<1>4. CASE SameContent(val[v].before, PhysOf(payload)) /\ ~val[v].good
  <2>1. /\ Settle(v, "error") /\ memo' = [k \in {k \in DOMAIN memo : memo[k] # v} |-> memo[k]]
        /\ digests' = digests
    BY <1>4 DEF ValHashed, Fail
  <2> QED
    BY <1>1, <2>1, Settles, DigestsHold DEF Outcomes
<1> QED
  BY <1>2, <1>3, <1>4

LEMMA VerifyStep == ASSUME Inv, NEW v \in Ids, ValVerify(v) PROVE Inv'
<1>1. /\ val[v].step \in Running /\ val[v].step = "verify"
      /\ UNCHANGED <<admitted, payload, retained, digests, flight, call>>
  BY DEF Running, ValVerify
<1>2. CASE payload.mtime # val[v].id
  <2>1. Settle(v, "error") /\ memo' = [k \in {k \in DOMAIN memo : memo[k] # v} |-> memo[k]]
    BY <1>2 DEF ValVerify, Fail
  <2> QED
    BY <1>1, <2>1, Settles, DigestsHold DEF Outcomes
<1>3. CASE payload.mtime = val[v].id
  <2>1. Settle(v, "entry") /\ memo' = memo
    BY <1>3 DEF ValVerify
  <2>2. \A s : Sound(s, val[v]) => s = None \/ ~Bad(s)
    BY <1>1 DEF Sound
  <2> QED
    BY <1>1, <2>1, <2>2, Settles, DigestsHold DEF Outcomes
<1> QED
  BY <1>2, <1>3

-----------------------------------------------------------------------------
(* The other processes, and the reads.                                     *)

LEMMA CountedType ==
    ASSUME Inv
    PROVE  /\ Counted \in [Callers -> CallType]
           /\ \A c \in Callers :
                 /\ Counted[c].pc = call[c].pc /\ Counted[c].before = call[c].before
                 /\ Counted[c].after = call[c].after /\ Counted[c].val = call[c].val
                 /\ Counted[c].fits = call[c].fits /\ Counted[c].published = call[c].published
                 /\ Counted[c].key = call[c].key
<1>1. ASSUME NEW c \in Callers
      PROVE  /\ Counted[c] \in CallType
             /\ Counted[c].pc = call[c].pc /\ Counted[c].before = call[c].before
             /\ Counted[c].after = call[c].after /\ Counted[c].val = call[c].val
             /\ Counted[c].fits = call[c].fits /\ Counted[c].published = call[c].published
             /\ Counted[c].key = call[c].key
  <2>1. call[c] \in CallType
    BY DEF Inv, TypeInv
  <2> DEFINE n == Min({call[c].changes + 1, 2 * Attempts})
  <2>2. n \in Nat
    <3>1. {call[c].changes + 1, 2 * Attempts} \subseteq Nat
      BY <2>1, ScopeAssumption DEF CallType
    <3> QED
      BY <3>1, MinIsLeast
  <2>3. Counted[c] = call[c] \/ Counted[c] = [call[c] EXCEPT !.changes = n]
    BY DEF Counted
  <2> HIDE DEF n
  <2> QED
    BY <2>1, <2>2, <2>3 DEF CallType
<1>2. Counted = [c \in Callers |-> Counted[c]]
  BY DEF Counted
<1> QED
  BY <1>1, <1>2

LEMMA OutsideStep ==
    ASSUME Inv, Publish \/ Link \/ \E restoring \in BOOLEAN : Rewrite(restoring)
    PROVE  Inv'
<1>1. /\ call' = Counted /\ UNCHANGED <<admitted, memo, retained, flight, val>>
      /\ digests' = digests \/ digests' = NoDigests
  BY DEF Publish, Link, Rewrite
<1>2. /\ payload' \in Payload /\ payload' # None /\ Faithful(payload')
      /\ Seen(PhysOf(payload'), payload')
      /\ \A s : Seen(s, payload) => Seen(s, payload')
  BY PayloadStep, PhysOfPayload
<1>3. /\ call' \in [Callers -> CallType]
      /\ \A c \in Callers :
            /\ call'[c].pc = call[c].pc /\ call'[c].before = call[c].before
            /\ call'[c].after = call[c].after /\ call'[c].val = call[c].val
            /\ call'[c].fits = call[c].fits /\ call'[c].published = call[c].published
            /\ call'[c].key = call[c].key
  BY <1>1, CountedType
<1>4. DOMAIN digests' \subseteq Phys /\ \A s \in DOMAIN digests' : digests'[s] <=> ~Bad(s)
  BY <1>1, DigestsHold DEF NoDigests
<1>5. TypeInv'
  BY <1>1, <1>2, <1>3, <1>4 DEF Inv, TypeInv
<1>6. PayloadInv'
  BY <1>2 DEF PayloadInv
<1>7. FlightInv'
  BY <1>1, <1>2, <1>3 DEF Inv, FlightInv
<1>8. MemoInv'
  BY <1>1, <1>2, <1>4 DEF Inv, MemoInv
<1>9. ValInv'
  BY <1>1, <1>2 DEF Inv, ValInv
<1>10. CallsInv'
  <2>1. ASSUME NEW c \in Callers PROVE CallInv(call'[c], payload', flight', val')
    <3>1. CallInv(call[c], payload, flight, val)
      BY DEF Inv, CallsInv
    <3> QED
      BY <1>1, <1>2, <1>3, <3>1 DEF CallInv
  <2> QED
    BY <2>1 DEF CallsInv
<1> QED
  BY <1>5, <1>6, <1>7, <1>8, <1>9, <1>10 DEF Inv

LEMMA ObserveStep == ASSUME Inv, FlightObserve PROVE Inv'
<1>1. /\ flight # None /\ flight' = [seen |-> TRUE, state |-> payload]
      /\ UNCHANGED <<admitted, payload, memo, retained, digests, val, call>>
  BY DEF FlightObserve
<1>2. flight' \in Flight /\ flight' # None /\ flight'.state = payload
  <2>1. flight' \in Flight
    BY <1>1 DEF Inv, TypeInv, Flight
  <2> QED
    BY <1>1, <2>1, NoneIsNothing
<1>3. TypeInv'
  BY <1>1, <1>2 DEF Inv, TypeInv
<1>4. FlightInv'
  BY <1>1, <1>2 DEF Inv, FlightInv, PayloadInv
<1>5. PayloadInv' /\ MemoInv' /\ ValInv'
  BY <1>1 DEF Inv, PayloadInv, MemoInv, ValInv
<1>6. CallsInv'
  BY <1>1, <1>2 DEF Inv, CallsInv, CallInv
<1> QED
  BY <1>3, <1>4, <1>5, <1>6 DEF Inv

LEMMA SettleStep == ASSUME Inv, FlightSettle PROVE Inv'
<1> DEFINE s == flight.state
           w(c) == IF call[c].pc = "before"
                   THEN [call[c] EXCEPT !.pc = "captured", !.before = PhysOf(s)]
                   ELSE IF call[c].pc = "after" THEN [call[c] EXCEPT !.pc = "fenced", !.after = s]
                   ELSE call[c]
<1>1. /\ flight # None /\ flight.seen /\ flight' = None
      /\ UNCHANGED <<admitted, payload, memo, retained, digests, val>>
      /\ call' = [c \in Callers |-> w(c)]
  BY DEF FlightSettle
<1>2. s \in Payload \cup {None} /\ Seen(PhysOf(s), payload) /\ Faithful(s)
  BY <1>1 DEF Inv, TypeInv, FlightInv, Flight
<1>3. PhysOf(s) \in Phys \cup {None}
  BY <1>2, PhysOfPayload, PhysOfNone
<1>4. ASSUME NEW c \in Callers
      PROVE  /\ w(c) \in CallType /\ w(c).pc \notin {"before", "after"}
             /\ CallInv(w(c), payload, None, val)
  <2>1. call[c] \in CallType /\ CallInv(call[c], payload, flight, val)
    BY DEF Inv, TypeInv, CallsInv
  <2>2. CASE call[c].pc = "before"
    <3> DEFINE b == PhysOf(s)
               r == [call[c] EXCEPT !.pc = "captured", !.before = b]
    <3>1. w(c) = r
      BY <2>2
    <3>2. b \in Phys \cup {None} /\ Seen(b, payload)
      BY <1>2, <1>3
    <3> HIDE DEF b
    <3>3. /\ r \in CallType /\ r.pc = "captured" /\ r.before = b /\ r.after = call[c].after
          /\ r.published = call[c].published /\ r.key = call[c].key
      BY <2>1, <3>2 DEF CallType, Pcs
    <3> HIDE DEF r, w
    <3> QED
      BY <2>1, <3>1, <3>2, <3>3 DEF CallInv, Refers
  <2>3. CASE call[c].pc = "after"
    <3> DEFINE r == [call[c] EXCEPT !.pc = "fenced", !.after = s]
    <3>1. w(c) = r
      BY <2>3
    <3> HIDE DEF s
    <3>2. /\ r \in CallType /\ r.pc = "fenced" /\ r.after = s /\ r.before = call[c].before
          /\ r.val = call[c].val /\ r.published = call[c].published /\ r.key = call[c].key
      BY <1>2, <2>1 DEF CallType, Pcs, Refers
    <3>3. r.published => s # None
      BY <1>1, <2>1, <2>3, <3>2 DEF CallInv, s
    <3> HIDE DEF r, w
    <3> QED
      BY <1>2, <2>1, <2>3, <3>1, <3>2, <3>3 DEF CallInv, Refers
  <2>4. CASE call[c].pc \notin {"before", "after"}
    <3>1. w(c) = call[c]
      BY <2>4
    <3> QED
      BY <2>1, <2>4, <3>1 DEF CallInv
  <2> QED
    BY <2>2, <2>3, <2>4
<1> HIDE DEF w
<1>5. call' \in [Callers -> CallType] /\ \A c \in Callers : call'[c] = w(c)
  BY <1>1, <1>4
<1>6. TypeInv'
  BY <1>1, <1>5 DEF Inv, TypeInv
<1>7. FlightInv'
  BY <1>1, <1>4, <1>5 DEF FlightInv
<1>8. PayloadInv' /\ MemoInv' /\ ValInv'
  BY <1>1 DEF Inv, PayloadInv, MemoInv, ValInv
<1>9. CallsInv'
  BY <1>1, <1>4, <1>5 DEF CallsInv
<1> QED
  BY <1>6, <1>7, <1>8, <1>9 DEF Inv

-----------------------------------------------------------------------------
(* The calls.                                                              *)

\* What the scope may retain of an entry, when its payload is p.
Kept(t, p) ==
    /\ t \in Retained \cup {None}
    /\ t # None => Seen(t.state, p) /\ ~Bad(t.state) /\ Seen(t.key[1], p)

\* A step of a call that starts no authentication.
LEMMA CallStep ==
    ASSUME Inv, NEW c \in Callers, NEW r \in CallType, call' = [call EXCEPT ![c] = r],
           call[c].pc \notin {"before", "after"},
           flight' = (IF r.pc \in {"before", "after"} THEN Joined ELSE flight),
           UNCHANGED <<admitted, payload, digests, val>>,
           Within(memo', memo), Kept(retained', payload),
           CallInv(r, payload, flight', val)
    PROVE  Inv'
<1>1. \A d \in Callers : CallInv(call[d], payload, flight, val')
  BY DEF Inv, CallsInv
<1>2. /\ call' \in [Callers -> CallType] /\ flight' \in Flight \cup {None}
      /\ FlightInv' /\ CallsInv'
  BY <1>1, CallGoes
<1>3. TypeInv'
  BY <1>2 DEF Inv, TypeInv, Within, Kept
<1>4. PayloadInv' /\ ValInv'
  BY DEF Inv, PayloadInv, ValInv
<1>5. MemoInv'
  BY DEF Inv, MemoInv, Within, Kept
<1> QED
  BY <1>2, <1>3, <1>4, <1>5 DEF Inv

\* What the calls and the scope keep, at hand.
LEMMA CallHolds ==
    ASSUME Inv, NEW c \in Callers
    PROVE  /\ call[c] \in CallType /\ CallInv(call[c], payload, flight, val) /\ TypeInv
           /\ Kept(retained, payload) /\ Kept(None, payload) /\ Within(memo, memo)
  BY DEF Inv, TypeInv, CallsInv, MemoInv, Within, Kept

LEMMA StartStep == ASSUME Inv, NEW c \in Callers, NEW fits \in BOOLEAN, Call(c, fits) PROVE Inv'
<1> DEFINE there == payload # None
           r == [NoCall EXCEPT !.pc = "before", !.fits = fits, !.published = there]
<1>1. /\ call[c].pc = "idle" /\ call' = [call EXCEPT ![c] = r] /\ flight' = Joined
      /\ UNCHANGED <<admitted, payload, memo, retained, digests, val>>
  BY DEF Call
<1>2. /\ NoCall.before = None /\ NoCall.after = None /\ NoCall.key[1] = None
  BY DEF NoCall
<1>3. there \in BOOLEAN
  OBVIOUS
<1> HIDE DEF there
<1>4. /\ r \in CallType /\ r.pc = "before" /\ r.before = None /\ r.after = None
      /\ r.key = NoCall.key /\ r.published = there
  BY <1>2, <1>3, NoCallType DEF CallType, Pcs
<1> HIDE DEF r
<1>5. CallInv(r, payload, flight', val)
  BY <1>2, <1>4, PhysOfNone DEF CallInv, Seen, Faithful, Refers, there
<1> QED
  BY <1>1, <1>4, <1>5, CallHolds, CallStep

LEMMA ReturnStep == ASSUME Inv, NEW c \in Callers, Return(c) PROVE Inv'
<1>1. /\ call[c].pc \notin {"before", "after"} /\ call' = [call EXCEPT ![c] = NoCall]
      /\ UNCHANGED <<admitted, payload, memo, retained, digests, flight, val>>
  BY DEF Return, Over
<1>2. /\ NoCall.before = None /\ NoCall.after = None /\ NoCall.key[1] = None
      /\ NoCall.pc = "idle" /\ ~NoCall.published
  BY DEF NoCall
<1>3. CallInv(NoCall, payload, flight', val)
  BY <1>2, PhysOfNone DEF CallInv, Seen, Faithful, Refers
<1> QED
  BY <1>1, <1>2, <1>3, NoCallType, CallHolds, CallStep

\* A call gets between two attempts, or is done, with what it saw at last.
Ends(c, pc, left, after) ==
    /\ call' = [call EXCEPT ![c] = Ended(call[c], pc, left, after)]
    /\ flight' = IF pc = "before" THEN Joined ELSE flight
    /\ UNCHANGED <<admitted, payload, digests, val>>
    /\ Seen(PhysOf(after), payload) /\ Faithful(after)

LEMMA ClearedStep ==
    ASSUME Inv, NEW c \in Callers, call[c].pc \notin {"before", "after"},
           NEW pc \in {"before"} \cup (Over \ {"idle"}), NEW left \in 1..Attempts,
           NEW after \in Payload \cup {None},
           Ends(c, pc, left, after), Within(memo', memo), Kept(retained', payload),
           pc = "entry" => after # None /\ after.good /\ call[c].fits,
           pc = "miss" => ~call[c].published
    PROVE  Inv'
<1> DEFINE r == Ended(call[c], pc, left, after)
<1>1. call[c] \in CallType /\ CallInv(call[c], payload, flight, val)
  BY CallHolds
<1>2. pc \in Pcs /\ pc \notin Refers \cup {"captured"} /\ pc # "after"
  BY DEF Pcs, Over, Refers
<1>3. /\ r \in CallType /\ r.pc = pc /\ r.before = None /\ r.key[1] = None
      /\ r.after = after /\ r.published = call[c].published /\ r.fits = call[c].fits
  BY <1>1, <1>2, EndedType
<1>4. /\ call' = [call EXCEPT ![c] = r] /\ flight' = (IF pc = "before" THEN Joined ELSE flight)
      /\ UNCHANGED <<admitted, payload, digests, val>>
      /\ Seen(PhysOf(after), payload) /\ Faithful(after)
  BY DEF Ends
<1> HIDE DEF r
<1>5. CallInv(r, payload, flight', val)
  BY <1>1, <1>2, <1>3, <1>4 DEF CallInv, Seen, Refers
<1>6. flight' = (IF r.pc \in {"before", "after"} THEN Joined ELSE flight)
  <2>1. (r.pc \in {"before", "after"}) <=> (pc = "before")
    BY <1>2, <1>3
  <2> QED
    BY <1>4, <2>1
<1> QED
  BY <1>3, <1>4, <1>5, <1>6, CallStep

LEMMA AgainStep ==
    ASSUME Inv, NEW c \in Callers, call[c].pc \in {"validating", "fenced"}, Again(c),
           UNCHANGED <<admitted, payload, digests, val>>,
           Within(memo', memo), retained' = None
    PROVE  Inv'
<1>1. call[c] \in CallType /\ call \in [Callers -> CallType] /\ Kept(retained', payload)
  BY CallHolds DEF TypeInv
<1>2. Seen(PhysOf(None), payload) /\ Faithful(None) /\ None \in Payload \cup {None}
  BY PhysOfNone DEF Seen, Faithful
<1>3. CASE call[c].left = 1
  <2>1. /\ [Cleared(call[c]) EXCEPT !.pc = "gaveUp"] = Ended(call[c], "gaveUp", call[c].left, None)
        /\ flight' = flight
    BY <1>1, <1>3 DEF Again, Ended, Cleared, CallType
  <2>2. Ends(c, "gaveUp", call[c].left, None)
    BY <1>1, <1>2, <1>3, <2>1 DEF Again, Ends
  <2>3. "gaveUp" \in Over \ {"idle"} /\ call[c].left \in 1..Attempts
    BY <1>1 DEF Over, CallType
  <2> QED
    BY <1>1, <1>2, <2>2, <2>3, ClearedStep
<1>4. CASE call[c].left # 1
  <2> DEFINE n == call[c].left - 1
             x == [Cleared(call[c]) EXCEPT !.pc = "before", !.left = n]
  <2>1. x = Ended(call[c], "before", n, None)
    BY <1>1 DEF Ended, Cleared, CallType
  <2>2. call' = [call EXCEPT ![c] = x] /\ flight' = Joined
    BY <1>1, <1>4 DEF Again
  <2>3. n \in 1..Attempts
    BY <1>1, <1>4, ScopeAssumption DEF CallType
  <2> HIDE DEF n, x
  <2>4. Ends(c, "before", n, None)
    BY <1>2, <2>1, <2>2 DEF Ends
  <2> QED
    BY <1>1, <1>2, <2>3, <2>4, ClearedStep
<1> QED
  BY <1>3, <1>4

LEMMA ValidatedStep == ASSUME Inv, NEW c \in Callers, Validated(c) PROVE Inv'
<1> DEFINE result == val[call[c].val].step
<1>1. call[c].pc = "validating" /\ UNCHANGED <<admitted, payload, digests, val>>
  BY DEF Validated
<1>2. /\ call[c] \in CallType /\ CallInv(call[c], payload, flight, val)
      /\ call \in [Callers -> CallType]
  BY CallHolds DEF TypeInv
<1>3. CASE result = "error" /\ UNCHANGED <<memo, retained, flight>>
           /\ call' = [call EXCEPT ![c] = [Cleared(@) EXCEPT !.pc = "threw"]]
  <2>1. [Cleared(call[c]) EXCEPT !.pc = "threw"] = Ended(call[c], "threw", call[c].left, None)
    BY <1>2 DEF Ended, Cleared, CallType
  <2>2. Seen(PhysOf(None), payload) /\ Faithful(None) /\ None \in Payload \cup {None}
    BY PhysOfNone DEF Seen, Faithful
  <2>3. Ends(c, "threw", call[c].left, None)
    BY <1>1, <1>2, <1>3, <2>1, <2>2 DEF Ends
  <2>4. "threw" \in Over \ {"idle"} /\ call[c].left \in 1..Attempts
    BY <1>2 DEF Over, CallType
  <2> QED
    BY <1>1, <1>3, <2>2, <2>3, <2>4, ClearedStep, CallHolds
<1>4. CASE result = "changed" /\ memo' = Forget(call[c].key, call[c].val) /\ retained' = None
           /\ Again(c)
  BY <1>1, <1>4, AgainStep, Forgets
<1>5. CASE result \in {"entry", "miss"} /\ flight' = Joined /\ UNCHANGED <<memo, retained>>
           /\ call' = [call EXCEPT ![c].pc = "after"]
  <2> DEFINE r == [call[c] EXCEPT !.pc = "after"]
  <2>1. call' = [call EXCEPT ![c] = r]
    BY <1>2, <1>5
  <2>2. /\ r \in CallType /\ r.pc = "after" /\ r.before = call[c].before /\ r.key = call[c].key
        /\ r.after = call[c].after /\ r.val = call[c].val /\ r.published = call[c].published
    BY <1>2 DEF CallType, Pcs, Refers
  <2>3. CallInv(call[c], payload, Joined, val)
    BY <1>2, CallHolds, JoinedIsLate
  <2> HIDE DEF r
  <2>4. CallInv(r, payload, flight', val)
    BY <1>1, <1>5, <2>2, <2>3 DEF CallInv, Refers
  <2> QED
    BY <1>1, <1>5, <2>1, <2>2, <2>4, CallStep, CallHolds
<1> QED
  BY <1>3, <1>4, <1>5 DEF Validated

LEMMA ConcludedStep == ASSUME Inv, NEW c \in Callers, Concluded(c) PROVE Inv'
<1> DEFINE w == val[call[c].val]
           b == call[c].before
           a == call[c].after
<1>1. call[c].pc = "fenced" /\ UNCHANGED <<admitted, payload, digests, val>>
  BY DEF Concluded
<1>2. /\ call[c] \in CallType /\ CallInv(call[c], payload, flight, val)
      /\ call \in [Callers -> CallType] /\ call[c].val \in Ids /\ w.step \in {"entry", "miss"}
      /\ Sound(b, w) /\ Seen(b, payload) /\ Seen(PhysOf(a), payload) /\ Faithful(a)
      /\ Seen(call[c].key[1], payload) /\ a \in Payload \cup {None} /\ call[c].left \in 1..Attempts
      /\ call[c].key \in Keys /\ call[c].fits \in BOOLEAN
  BY <1>1, CallHolds DEF TypeInv, CallInv, Refers, CallType
<1>3. CASE ~Stable(c)
  <2>1. memo' = Forget(call[c].key, call[c].val) /\ retained' = None /\ Again(c)
    BY <1>3 DEF Concluded
  <2> QED
    BY <1>1, <2>1, AgainStep, Forgets
<1>4. CASE Stable(c) /\ w.step = "entry"
  <2> DEFINE pc == IF call[c].fits THEN "entry" ELSE "threw"
             t == [state |-> PhysOf(a), val |-> call[c].val, key |-> call[c].key]
  <2>1. memo' = memo /\ flight' = flight /\ retained' = t
        /\ call' = [call EXCEPT ![c] = [Cleared(@) EXCEPT !.pc = pc, !.after = a]]
    BY <1>4, <1>2 DEF Concluded, Fits
  <2>2. [Cleared(call[c]) EXCEPT !.pc = pc, !.after = a] = Ended(call[c], pc, call[c].left, a)
    BY <1>2 DEF Ended, Cleared, CallType
  <2>4. a # None /\ Retains(b, PhysOf(a))
    BY <1>4 DEF Stable
  <2>5. a \in Payload /\ PhysOf(a) \in Phys /\ PhysOf(a) # None
    BY <1>2, <2>4, PhysOfPayload
  <2>6. b # None
    BY <2>4, <2>5 DEF Retains
  <2>7. ~Bad(b)
    BY <1>2, <1>4, <2>6 DEF Sound
  <2>8. payload \in Payload /\ Faithful(payload)
    BY <1>2, <2>6 DEF Inv, TypeInv, PayloadInv, Seen
  <2>9. ~Bad(PhysOf(a))
    BY <1>2, <2>4, <2>6, <2>7, <2>8, SameBytes
  <2>10. a.good
    BY <1>2, <2>4, <2>9 DEF Faithful
  <2>11. /\ t \in Retained /\ t.state = PhysOf(a) /\ t.key = call[c].key
    BY <1>2, <2>5 DEF Retained
  <2>12. pc \in Over \ {"idle"} /\ pc # "before" /\ pc # "miss" /\ (pc = "entry" => call[c].fits)
    BY DEF Over
  <2>13. Within(memo', memo) /\ Kept(retained', payload)
    BY <1>2, <2>1, <2>9, <2>11 DEF Within, Kept
  <2> HIDE DEF pc, t, a, b
  <2>14. Ends(c, pc, call[c].left, a)
    BY <1>1, <1>2, <2>1, <2>2, <2>12 DEF Ends
  <2> QED
    BY <1>1, <1>2, <2>4, <2>10, <2>12, <2>13, <2>14, ClearedStep
<1>5. CASE Stable(c) /\ w.step = "miss"
  <2>1. memo' = Forget(call[c].key, call[c].val) /\ flight' = flight
        /\ (retained' = retained \/ retained' = None)
        /\ call' = [call EXCEPT ![c] = [Cleared(@) EXCEPT !.pc = "miss", !.after = a]]
    BY <1>5 DEF Concluded
  <2>2. [Cleared(call[c]) EXCEPT !.pc = "miss", !.after = a]
           = Ended(call[c], "miss", call[c].left, a)
    BY <1>2 DEF Ended, Cleared, CallType
  <2>4. a = None
    BY <1>5 DEF Stable
  <2>5. ~call[c].published
    BY <1>1, <1>2, <2>4 DEF CallInv
  <2>6. "miss" \in Over \ {"idle"}
    BY DEF Over
  <2>7. Within(memo', memo) /\ Kept(retained', payload)
    BY <2>1, CallHolds, Forgets
  <2> HIDE DEF a, b
  <2>8. Ends(c, "miss", call[c].left, a)
    BY <1>1, <1>2, <2>1, <2>2 DEF Ends
  <2> QED
    BY <1>1, <1>2, <2>5, <2>6, <2>7, <2>8, ClearedStep
<1> QED
  BY <1>2, <1>3, <1>4, <1>5

\* A call finds an authentication, or starts one with a validation that nothing refers to.
LEMMA CapturedStep == ASSUME Inv, NEW c \in Callers, Captured(c) PROVE Inv'
<1> DEFINE before == call[c].before
           reuse == retained # None /\ Retains(retained.state, before)
           kept == IF retained # None /\ ~reuse THEN Forget(retained.key, retained.val) ELSE memo
           key == IF reuse THEN retained.key ELSE <<before, call[c].fits>>
<1>1. /\ call[c].pc = "captured" /\ retained' = (IF reuse THEN retained ELSE None)
      /\ UNCHANGED <<admitted, payload, digests, flight>>
      /\ \/ key \in DOMAIN kept /\ memo' = kept /\ val' = val
            /\ call' = [call EXCEPT ![c] = Validates(@, key, kept[key])]
         \/ /\ key \notin DOMAIN kept /\ Free # {} /\ memo' = With(kept, key, Min(Free))
            /\ val' = [val EXCEPT
                         ![Min(Free)] = [NoVal EXCEPT !.step = "look", !.fits = call[c].fits]]
            /\ call' = [call EXCEPT ![c] = Validates(@, key, Min(Free))]
  BY DEF Captured
<1>2. /\ call[c] \in CallType /\ CallInv(call[c], payload, flight, val)
      /\ call \in [Callers -> CallType] /\ val \in [Ids -> ValType]
      /\ Seen(before, payload) /\ call[c].fits \in BOOLEAN /\ before \in Phys \cup {None}
  BY CallHolds DEF TypeInv, CallInv, CallType
<1>3. Within(kept, memo) /\ Kept(retained', payload) /\ Kept(retained, payload)
  BY <1>1, CallHolds, Forgets
<1>4. key \in Keys /\ Seen(key[1], payload)
  <2>1. CASE reuse
    BY <1>3, <2>1 DEF Kept, Retained
  <2>2. CASE ~reuse
    BY <1>2, <2>2 DEF Keys
  <2> QED
    BY <2>1, <2>2
<1>5. (before # None /\ Bad(before)) => key[1] = before
  <2>1. CASE reuse
    <3>1. /\ retained # None /\ retained.state # None
          /\ Seen(retained.state, payload) /\ ~Bad(retained.state)
      BY <1>3, <2>1, NoneIsNothing DEF Kept, Retained
    <3>2. payload \in Payload /\ Faithful(payload)
      BY <3>1 DEF Seen, Inv, TypeInv, PayloadInv
    <3>3. ~Bad(before)
      BY <1>2, <2>1, <3>1, <3>2, SameBytes
    <3> QED
      BY <3>3
  <2>2. CASE ~reuse
    BY <2>2
  <2> QED
    BY <2>1, <2>2
<1>6. ASSUME NEW v \in Ids, NEW w, Sound(key[1], w[v]), NEW r, r = Validates(call[c], key, v)
      PROVE  /\ r \in CallType /\ CallInv(r, payload, flight, w)
             /\ r.pc \notin {"before", "after"}
  <2>1. /\ r \in CallType /\ r.pc = "validating" /\ r.val = v /\ r.key = key
        /\ r.before = before /\ r.after = call[c].after /\ r.published = call[c].published
    BY <1>2, <1>4, <1>6, ValidatesType
  <2>2. Sound(r.before, w[v])
    BY <1>5, <1>6, <2>1 DEF Sound
  <2> HIDE DEF before, key
  <2> QED
    BY <1>1, <1>2, <1>4, <2>1, <2>2 DEF CallInv, Refers
<1> HIDE DEF key, kept, before, reuse
<1>7. CASE key \in DOMAIN kept /\ memo' = kept /\ val' = val
           /\ call' = [call EXCEPT ![c] = Validates(@, key, kept[key])]
  <2> DEFINE v == kept[key]
             r == Validates(call[c], key, v)
  <2>1. v \in Ids /\ Sound(key[1], val[v])
    BY <1>3, <1>7 DEF Within, Inv, TypeInv, MemoInv
  <2>2. call' = [call EXCEPT ![c] = r]
    BY <1>2, <1>7
  <2> HIDE DEF v
  <2>3. r \in CallType /\ CallInv(r, payload, flight, val) /\ r.pc \notin {"before", "after"}
    BY <1>6, <2>1
  <2> HIDE DEF r
  <2> QED
    BY <1>1, <1>3, <1>7, <2>2, <2>3, CallStep
<1>8. CASE /\ key \notin DOMAIN kept /\ Free # {} /\ memo' = With(kept, key, Min(Free))
           /\ val' = [val EXCEPT
                        ![Min(Free)] = [NoVal EXCEPT !.step = "look", !.fits = call[c].fits]]
           /\ call' = [call EXCEPT ![c] = Validates(@, key, Min(Free))]
  <2> DEFINE v == Min(Free)
             w == [NoVal EXCEPT !.step = "look", !.fits = call[c].fits]
             r == Validates(call[c], key, v)
  <2>1. /\ v \in Ids /\ \A k \in DOMAIN memo : memo[k] # v
        /\ \A d \in Callers : call[d].pc \in Refers => call[d].val # v
    <3>1. Free \subseteq Nat
      BY Types DEF Free
    <3>2. v \in Free
      BY <1>8, <3>1, MinIsLeast
    <3> HIDE DEF v
    <3> QED
      BY <3>2 DEF Free, Refers
  <2>2. w \in ValType /\ w.step = "look" /\ ~w.good
    BY <1>2, SettledType
  <2>3. val' = [val EXCEPT ![v] = w] /\ call' = [call EXCEPT ![c] = r]
    BY <1>2, <1>8
  <2>4. /\ DOMAIN memo' = DOMAIN kept \cup {key} /\ memo'[key] = v
        /\ \A k \in DOMAIN kept : memo'[k] = memo[k] /\ k \in DOMAIN memo
    <3> HIDE DEF v
    <3>1. memo' = With(kept, key, v)
      BY <1>8 DEF v
    <3> QED
      BY <1>3, <1>8, <3>1 DEF With, Within
  <2> HIDE DEF v, w
  <2>5. val'[v] = w /\ (\A u \in Ids \ {v} : val'[u] = val[u]) /\ val' \in [Ids -> ValType]
    BY <1>2, <2>1, <2>2, <2>3
  <2>6. Sound(key[1], val'[v])
    BY <2>2, <2>5 DEF Sound
  <2>7. r \in CallType /\ CallInv(r, payload, flight, val') /\ r.pc \notin {"before", "after"}
    BY <1>6, <2>1, <2>6
  <2> HIDE DEF r
  <2>8. ASSUME NEW d \in Callers \ {c} PROVE CallInv(call[d], payload, flight, val')
    <3>1. CallInv(call[d], payload, flight, val)
      BY CallHolds
    <3>2. call[d].pc \in Refers => val'[call[d].val] = val[call[d].val]
      BY <2>1, <2>5, <3>1 DEF CallInv
    <3> QED
      BY <3>1, <3>2 DEF CallInv, Refers
  <2>9. /\ call' \in [Callers -> CallType] /\ flight' \in Flight \cup {None}
        /\ FlightInv' /\ CallsInv'
    BY <1>1, <2>3, <2>7, <2>8, CallGoes
  <2>10. ASSUME NEW k \in DOMAIN memo'
         PROVE  /\ k \in Keys /\ memo'[k] \in Ids /\ Seen(k[1], payload)
                /\ Sound(k[1], val'[memo'[k]]) /\ val'[memo'[k]].step \notin {"free", "error"}
    <3>1. CASE k = key
      BY <1>4, <2>1, <2>2, <2>4, <2>5, <2>6, <3>1
    <3>2. CASE k \in DOMAIN kept
      <4>1. k \in DOMAIN memo /\ memo'[k] = memo[k] /\ memo[k] \in Ids \ {v}
        BY <2>1, <2>4, <3>2 DEF Inv, TypeInv
      <4>2. k \in Keys /\ Seen(k[1], payload) /\ Sound(k[1], val[memo[k]])
            /\ val[memo[k]].step \notin {"free", "error"}
        BY <4>1 DEF Inv, TypeInv, MemoInv
      <4> QED
        BY <2>5, <4>1, <4>2
    <3> QED
      BY <2>4, <3>1, <3>2
  <2>11. TypeInv'
    BY <1>1, <1>3, <2>5, <2>9, <2>10 DEF Inv, TypeInv, Kept
  <2>12. MemoInv'
    BY <1>1, <1>3, <2>10, DigestsHold DEF MemoInv, Kept
  <2>13. ValInv'
    BY <1>1, <2>2, <2>5 DEF Inv, ValInv
  <2>14. PayloadInv'
    BY <1>1 DEF Inv, PayloadInv
  <2> QED
    BY <2>9, <2>11, <2>12, <2>13, <2>14 DEF Inv
<1> QED
  BY <1>1, <1>7, <1>8

-----------------------------------------------------------------------------
LEMMA InitInv == Init => Inv
<1> SUFFICES ASSUME Init PROVE Inv
  OBVIOUS
<1> USE DEF Init
<1>1. NoVal \in ValType /\ NoVal.step = "free"
  BY DEF NoVal, ValType
<1>2. \A c \in Callers : call[c] = NoCall /\ call[c] \in CallType
  BY NoCallType
<1>3. /\ NoCall.pc = "idle" /\ NoCall.before = None /\ NoCall.after = None
      /\ NoCall.key[1] = None /\ ~NoCall.published
  BY DEF NoCall
<1>4. payload # None => /\ payload \in Payload /\ payload.ctime = 0 /\ payload.mtime = 0
                        /\ payload.nlink = 1 /\ payload.good
  <2> SUFFICES ASSUME payload # None
               PROVE  /\ payload \in Payload /\ payload.ctime = 0 /\ payload.mtime = 0
                      /\ payload.nlink = 1 /\ payload.good
    OBVIOUS
  <2>1. payload = [ctime |-> 0, mtime |-> 0, nlink |-> 1, good |-> TRUE]
    OBVIOUS
  <2> QED
    BY <2>1, Types DEF Payload
<1>5. TypeInv
  <2>1. payload \in Payload \cup {None} /\ admitted \in BOOLEAN
    BY <1>4
  <2>2. DOMAIN memo = {} /\ DOMAIN digests = {} /\ retained = None /\ flight = None
    BY DEF NoDigests
  <2>3. val \in [Ids -> ValType] /\ call \in [Callers -> CallType]
    BY <1>1, NoCallType
  <2> QED
    BY <2>1, <2>2, <2>3 DEF TypeInv
<1>6. PayloadInv
  <2>1. CASE payload = None
    BY <2>1, PhysOfNone DEF PayloadInv, Faithful, Seen
  <2>2. CASE payload # None
    BY <1>4, <2>2, PhysOfPayload DEF PayloadInv, Faithful, Seen, Bad, Restored
  <2> QED
    BY <2>1, <2>2
<1>7. FlightInv
  BY <1>2, <1>3 DEF FlightInv
<1>8. MemoInv
  BY DEF MemoInv, NoDigests
<1>9. ValInv
  BY <1>1 DEF ValInv
<1>10. CallsInv
  BY <1>2, <1>3, PhysOfNone DEF CallsInv, CallInv, Seen, Faithful, Refers
<1> QED
  BY <1>5, <1>6, <1>7, <1>8, <1>9, <1>10 DEF Inv

LEMMA NextInv == Inv /\ [Next]_vars => Inv'
<1> SUFFICES ASSUME Inv, [Next]_vars PROVE Inv'
  OBVIOUS
<1>1. CASE UNCHANGED vars
  BY <1>1 DEF vars, Inv, TypeInv, PayloadInv, FlightInv, MemoInv, ValInv, CallsInv
<1>2. CASE \E c \in Callers : \E fits \in BOOLEAN : Call(c, fits)
  BY <1>2, StartStep
<1>3. CASE \E c \in Callers : Captured(c)
  BY <1>3, CapturedStep
<1>4. CASE \E c \in Callers : Validated(c)
  BY <1>4, ValidatedStep
<1>5. CASE \E c \in Callers : Concluded(c)
  BY <1>5, ConcludedStep
<1>6. CASE \E c \in Callers : Return(c)
  BY <1>6, ReturnStep
<1>7. CASE \E v \in Ids : ValLook(v) \/ ValAdmit(v) \/ ValHash(v) \/ ValHashed(v) \/ ValVerify(v)
  BY <1>7, LookStep, AdmitStep, HashStep, HashedStep, VerifyStep
<1>8. CASE FlightObserve \/ FlightSettle
  BY <1>8, ObserveStep, SettleStep
<1>9. CASE Publish \/ Link \/ \E restoring \in BOOLEAN : Rewrite(restoring)
  BY <1>9, OutsideStep
<1> QED
  BY <1>1, <1>2, <1>3, <1>4, <1>5, <1>6, <1>7, <1>8, <1>9 DEF Next

LEMMA InvIsSound == Inv => AnswersAreSound
<1> SUFFICES ASSUME Inv PROVE AnswersAreSound
  OBVIOUS
<1>1. TypeOK
  BY DEF TypeOK, Inv, TypeInv, FlightInv, CallType
<1>2. EntryIsAuthentic /\ PublishedIsFound /\ LimitHolds
  BY DEF EntryIsAuthentic, PublishedIsFound, LimitHolds, Inv, CallsInv, CallInv
<1>3. MemoIsLive
  BY DEF MemoIsLive, Inv, MemoInv
<1> QED
  BY <1>1, <1>2, <1>3 DEF AnswersAreSound

\* An entry that validateArtifactCacheEntryInValidationScope returns had the right bytes when
\* the last read of its physical state looked, whether the call authenticated it, joined another
\* call's authentication or reused a retained one; it is within the caller's own byte limit,
\* an entry that was there when the call began is not reported as missing, and no answer that
\* failed stays in the memo.
THEOREM AnswersSound == Spec => []AnswersAreSound
<1>1. Spec => []Inv
  BY InitInv, NextInv, PTL DEF Spec
<1> QED
  BY <1>1, InvIsSound, PTL

-----------------------------------------------------------------------------
(***************************************************************************)
(* When a call gives up.  Unless the payload is rewritten, its states      *)
(* follow one another in an order that a version stands for, and its links *)
(* and its ctime change together (Linked): of two states with the same     *)
(* number of links, one is two changes older.  An attempt of a call fails  *)
(* for two such changes; but they may have come before the call, as it     *)
(* joins a read that is older, and the attempt after one that failed may   *)
(* fail for the same changes.  So the attempts come in pairs, and what a   *)
(* second one reads, reuses or joins is from after the failure of the      *)
(* first (Since, Late).                                                    *)
(***************************************************************************)

Version(s) == IF s = None THEN 0 ELSE s.ctime + 1
Linked(s) == s # None => s.mtime = 0 /\ \E i \in Nat : s.ctime + s.nlink = 2 * i + 1
Sane == payload # None => payload.good

\* The changes due for the pairs of attempts of a call r that are over.
Passed(r) == Attempts - r.left
Due(r) == 2 * (Passed(r) \div 2)
Second(r) == Passed(r) = Due(r) + 1

\* With the changes that a call r saw since the state s, up to the version n, it has those due.
Since(r, s, n) == r.changes = 2 * Attempts \/ Version(s) + r.changes >= n + Due(r)

Looked(f) == f # None /\ f.seen
Hashing(w) == w.step \in {"hash", "hashed"}
\* What is authenticated among w under the key k of the memo m was, if anything, read since.
Late(r, k, m, w, n) == k \in DOMAIN m /\ Hashing(w[m[k]]) => Since(r, w[m[k]].before, n)
\* The key of a call that was authenticated is that of another authentication only if that one
\* has just begun.
Fresh(r, m, w) == r.key \in DOMAIN m => m[r.key] = r.val \/ w[m[r.key]].step = "look"

\* What a call r has read, when f is the pending read and n the version of the payload.
ReadsInv(r, f, n) ==
    /\ Linked(r.before) /\ Linked(r.after) /\ r.changes <= 2 * Attempts
    /\ r.pc = "gaveUp" => r.changes >= 2 * (Attempts \div 2)
    /\ r.pc \notin Over => Due(r) <= r.changes /\ (Passed(r) > 0 => n >= 1)
    /\ r.pc = "before" /\ Looked(f) =>
        /\ Second(r) => Since(r, f.state, n)
        /\ Passed(r) > 0 /\ f.state = None => n >= 3
    /\ r.pc \in {"captured"} \cup Refers =>
        /\ Second(r) => Since(r, r.before, n) /\ (r.before = None => n >= 3)
        /\ Looked(f) => /\ ~Second(r) => Since(r, f.state, n)
                        /\ Version(r.before) <= Version(f.state)
    /\ r.pc = "fenced" => Version(r.before) <= Version(r.after)
    /\ r.pc \in {"captured", "fenced"} => ~Looked(f)

\* The authentication of a call r.
JoinsInv(r, m, w, n) ==
    /\ r.pc = "validating" =>
        /\ w[r.val].step \in Running => r.key \in DOMAIN m /\ m[r.key] = r.val
        /\ w[r.val].step \in {"entry", "miss"} => Fresh(r, m, w)
        /\ w[r.val].step = "changed" => n >= 3 /\ (Second(r) => r.changes >= Due(r) + 2)
        /\ Second(r) /\ Hashing(w[r.val]) => Since(r, w[r.val].before, n)
    /\ r.pc \in Refers => (r.key[1] = None => r.before = None)
    /\ r.pc \in Refers /\ w[r.val].step = "miss" => r.before = None

\* What the end of a call d that uses the authentication of its key leaves to the call r.
PairInv(r, d, m, w, n) ==
    /\ r.pc = "validating" /\ w[r.val].step = "changed" => d.pc \notin {"captured", "fenced"}
    /\ r.pc = "after" /\ d.pc = "captured" => Fresh(r, m, w)
    /\ ~Second(r) /\ r.pc \in Refers /\ (d.pc = "after" \/ (d.pc = "fenced" /\ r.pc = "fenced"))
        => Late(r, d.key, m, w, n)
    /\ Second(r) /\ r.pc \in {"before", "captured"}
       /\ (d.pc = "fenced" \/ (d.pc = "after" /\ r.pc = "before"))
        => Late(r, d.key, m, w, n)

StatesInv ==
    /\ Linked(payload) /\ (flight # None => Linked(flight.state))
    /\ \A v \in Ids :
          /\ Hashing(val[v]) => Linked(val[v].before) /\ Version(val[v].before) <= Version(payload)
          /\ val[v].step \in {"entry", "changed"} => payload # None

KeysInv ==
    /\ \A k \in DOMAIN memo :
          /\ Hashing(val[memo[k]]) => Version(k[1]) <= Version(val[memo[k]].before)
          /\ val[memo[k]].step = "miss" => k[1] = None
          /\ val[memo[k]].step \in Running \cup {"changed"} =>
                \E c \in Callers :
                    call[c].pc = "validating" /\ call[c].key = k /\ call[c].val = memo[k]
    /\ retained # None =>
          /\ retained.key[1] # None /\ val[retained.val].step = "entry"
          /\ \A c \in Callers : Second(call[c]) /\ call[c].pc \in {"before", "captured"}
                => Late(call[c], retained.key, memo, val, Version(payload))

AttemptsInv ==
    \A c \in Callers :
        /\ ReadsInv(call[c], flight, Version(payload))
        /\ JoinsInv(call[c], memo, val, Version(payload))
        /\ \A d \in Callers : PairInv(call[c], call[d], memo, val, Version(payload))

Churn == StatesInv /\ KeysInv /\ AttemptsInv
ChurnInv == Sane => Churn

-----------------------------------------------------------------------------
(* Versions, links and attempts.                                           *)

LEMMA VersionIsNat ==
    ASSUME NEW s \in Payload \cup Phys \cup {None}
    PROVE  /\ Version(s) \in Nat /\ (Version(s) = 0 <=> s = None)
           /\ s # None => s.ctime \in Nat /\ s.nlink \in Nat /\ Version(s) = s.ctime + 1
<1>1. s # None => s.ctime \in Nat /\ s.nlink \in Nat
  BY Types, ScopeAssumption DEF Payload, Phys, Times
<1> QED
  BY <1>1 DEF Version

LEMMA VersionOfPhys ==
    ASSUME NEW p \in Payload \cup {None}
    PROVE  /\ Version(PhysOf(p)) = Version(p) /\ (PhysOf(p) = None <=> p = None)
           /\ PhysOf(p) \in Phys \cup {None} /\ (Linked(p) => Linked(PhysOf(p)))
<1>1. CASE p = None
  BY <1>1, PhysOfNone
<1>2. CASE p \in Payload
  BY <1>2, PhysOfPayload DEF Version, Linked
<1> QED
  BY <1>1, <1>2

\* Two states with the same number of links are two changes apart.
LEMMA ChangesUndone ==
    ASSUME NEW s \in Payload \cup Phys, NEW t \in Payload \cup Phys, s # None, t # None,
           Linked(s), Linked(t), ~SameContent(s, t), Version(s) <= Version(t)
    PROVE  Version(s) + 2 <= Version(t)
<1>1. s.ctime # t.ctime /\ s.nlink = t.nlink
  BY DEF SameContent, Linked
<1>2. PICK i \in Nat : s.ctime + s.nlink = 2 * i + 1
  BY DEF Linked
<1>3. PICK j \in Nat : t.ctime + t.nlink = 2 * j + 1
  BY DEF Linked
<1>4. s.ctime \in Nat /\ t.ctime \in Nat /\ s.nlink \in Nat /\ s.ctime <= t.ctime
  BY VersionIsNat
<1>5. t.ctime - s.ctime = 2 * (j - i)
  BY <1>1, <1>2, <1>3, <1>4
<1> HIDE <1>2, <1>3
<1>6. s.ctime + 2 <= t.ctime
  BY <1>1, <1>4, <1>5
<1> QED
  BY <1>4, <1>6, VersionIsNat

\* A change of the links changes the number of links with the ctime.
LEMMA LinksChange ==
    ASSUME NEW s \in Payload, Linked(s), NEW t \in Payload, t.mtime = s.mtime,
           t.ctime = s.ctime + 1, t.nlink = s.nlink - 1 \/ t.nlink = s.nlink + 1
    PROVE  Linked(t)
<1>1. s # None /\ s.ctime \in Nat /\ s.nlink \in Nat
  BY PhysOfPayload
<1>2. PICK i \in Nat : s.ctime + s.nlink = 2 * i + 1
  BY <1>1 DEF Linked
<1>3. t.ctime + t.nlink = 2 * i + 1 \/ t.ctime + t.nlink = 2 * (i + 1) + 1
  BY <1>1, <1>2
<1>4. \E j \in Nat : t.ctime + t.nlink = 2 * j + 1
  <2>1. i \in Nat /\ i + 1 \in Nat
    OBVIOUS
  <2> QED
    BY <1>3, <2>1
<1> QED
  BY <1>1, <1>4 DEF Linked

LEMMA Halves ==
    ASSUME NEW n \in Nat
    PROVE  /\ n \div 2 \in Nat /\ (n = 2 * (n \div 2) \/ n = 2 * (n \div 2) + 1)
           /\ (n + 1) \div 2 = (IF n = 2 * (n \div 2) THEN n \div 2 ELSE (n \div 2) + 1)
  OBVIOUS

LEMMA AttemptsPassed ==
    ASSUME NEW r \in CallType
    PROVE  /\ Passed(r) \in Nat /\ Due(r) \in Nat /\ Due(r) <= Passed(r) /\ Passed(r) < Attempts
           /\ Second(r) \/ Passed(r) = Due(r)
           /\ Attempts \in Nat /\ Due(r) + 2 <= 2 * Attempts /\ r.changes \in Nat
<1>1. Passed(r) \in Nat /\ Passed(r) < Attempts /\ Attempts \in Nat /\ r.changes \in Nat
  BY ScopeAssumption DEF CallType, Passed
<1>2. Due(r) \in Nat /\ (Passed(r) = Due(r) \/ Passed(r) = Due(r) + 1)
  BY <1>1, Halves DEF Due
<1> QED
  BY <1>1, <1>2 DEF Second

\* After an attempt that failed comes the second of its pair, or the first of the next, to
\* which two more changes are due.
LEMMA NextAttempt ==
    ASSUME NEW r \in CallType, NEW x \in CallType, x.left = r.left - 1
    PROVE  IF Second(r) THEN ~Second(x) /\ Due(x) = Due(r) + 2
                        ELSE Second(x) /\ Due(x) = Due(r) /\ Passed(x) > 0
<1>1. Passed(r) \in Nat /\ Passed(x) = Passed(r) + 1
  BY ScopeAssumption DEF CallType, Passed
<1>2. Passed(r) \div 2 \in Nat
  BY <1>1, Halves
<1>3. Passed(x) \div 2 = IF Passed(r) = 2 * (Passed(r) \div 2)
                         THEN Passed(r) \div 2 ELSE (Passed(r) \div 2) + 1
  BY <1>1, Halves
<1>4. Passed(r) = 2 * (Passed(r) \div 2) \/ Passed(r) = 2 * (Passed(r) \div 2) + 1
  BY <1>1, Halves
<1> QED
  BY <1>1, <1>2, <1>3, <1>4 DEF Due, Second

LEMMA LastAttempt ==
    ASSUME NEW r \in CallType, r.left = 1
    PROVE  2 * (Attempts \div 2) = IF Second(r) THEN Due(r) + 2 ELSE Due(r)
<1>1. Passed(r) \in Nat /\ Attempts = Passed(r) + 1
  BY ScopeAssumption DEF CallType, Passed
<1>2. Passed(r) \div 2 \in Nat
  BY <1>1, Halves
<1>3. Attempts \div 2 = IF Passed(r) = 2 * (Passed(r) \div 2)
                        THEN Passed(r) \div 2 ELSE (Passed(r) \div 2) + 1
  BY <1>1, Halves
<1>4. Passed(r) = 2 * (Passed(r) \div 2) \/ Passed(r) = 2 * (Passed(r) \div 2) + 1
  BY <1>1, Halves
<1> QED
  BY <1>1, <1>2, <1>3, <1>4 DEF Due, Second

LEMMA SinceLater ==
    ASSUME NEW r \in CallType, NEW n \in Nat,
           NEW s \in Payload \cup Phys \cup {None}, NEW t \in Payload \cup Phys \cup {None},
           Since(r, s, n), Version(s) <= Version(t)
    PROVE  Since(r, t, n)
  BY VersionIsNat, AttemptsPassed DEF Since

LEMMA SinceNow ==
    ASSUME NEW r \in CallType, NEW s \in Payload \cup Phys \cup {None}, Due(r) <= r.changes
    PROVE  Since(r, s, Version(s))
  BY VersionIsNat, AttemptsPassed DEF Since

\* A second attempt that fails for two changes since what it read.
LEMMA SinceFails ==
    ASSUME NEW r \in CallType, NEW n \in Nat, NEW s \in Payload \cup Phys \cup {None},
           Since(r, s, n), Version(s) + 2 <= n
    PROVE  Due(r) + 2 <= r.changes
  BY VersionIsNat, AttemptsPassed DEF Since

\* What counts for a call are the attempts it has left and the changes it saw.
SameCount(x, r) == x.left = r.left /\ x.changes = r.changes

LEMMA SameCounts ==
    ASSUME NEW r, NEW x, SameCount(x, r)
    PROVE  /\ Passed(x) = Passed(r) /\ Due(x) = Due(r) /\ (Second(x) <=> Second(r))
           /\ \A s, n : Since(x, s, n) <=> Since(r, s, n)
           /\ \A k, m, w, n : Late(x, k, m, w, n) <=> Late(r, k, m, w, n)
<1>1. Passed(x) = Passed(r)
  BY DEF SameCount, Passed
<1>2. Due(x) = Due(r)
  BY <1>1 DEF Due
<1>3. \A s, n : Since(x, s, n) <=> Since(r, s, n)
  BY <1>2 DEF Since, SameCount
<1> QED
  BY <1>1, <1>2, <1>3 DEF Second, Late

-----------------------------------------------------------------------------
(* The payload: a change counts for every call that is under way.          *)

Later(x, r) ==
    /\ x.pc = r.pc /\ x.before = r.before /\ x.after = r.after /\ x.val = r.val /\ x.key = r.key
    /\ x.left = r.left /\ x.changes <= 2 * Attempts /\ r.changes <= x.changes
    /\ r.pc \in Over => x.changes = r.changes
    /\ r.pc \notin Over => x.changes = r.changes + 1 \/ x.changes = 2 * Attempts

LEMMA CountedIsLater ==
    ASSUME Inv, NEW c \in Callers, call[c].changes <= 2 * Attempts
    PROVE  Counted[c] \in CallType /\ Later(Counted[c], call[c])
<1> DEFINE r == call[c]
           x == Counted[c]
           s == {r.changes + 1, 2 * Attempts}
<1> SUFFICES x \in CallType /\ Later(x, r)
  OBVIOUS
<1>1. r \in CallType /\ x \in CallType
  BY CountedType DEF Inv, TypeInv
<1>2. /\ x.pc = r.pc /\ x.before = r.before /\ x.after = r.after /\ x.val = r.val
      /\ x.key = r.key
  BY CountedType
<1>3. x = IF r.pc \in Over THEN r ELSE [r EXCEPT !.changes = Min(s)]
  BY DEF Counted
<1>4. r.changes \in Nat /\ Attempts \in Nat /\ s \subseteq Nat /\ r.changes <= 2 * Attempts
  BY <1>1, ScopeAssumption DEF CallType
<1>5. Min(s) \in s /\ Min(s) <= 2 * Attempts
  BY <1>4, MinIsLeast
<1> HIDE DEF r, x
<1>6. ASSUME r.pc \in Over PROVE Later(x, r)
  BY <1>3, <1>4, <1>6 DEF Later
<1>7. ASSUME r.pc \notin Over PROVE Later(x, r)
  <2>1. x.changes = Min(s) /\ x.left = r.left
    BY <1>1, <1>3, <1>7 DEF CallType
  <2> QED
    BY <1>2, <1>4, <1>5, <1>7, <2>1 DEF Later
<1> QED
  BY <1>1, <1>6, <1>7

LEMMA LaterCounts ==
    ASSUME NEW r \in CallType, NEW x \in CallType, Later(x, r), NEW n \in Nat
    PROVE  /\ Passed(x) = Passed(r) /\ Due(x) = Due(r) /\ (Second(x) <=> Second(r))
           /\ r.pc \notin Over =>
                 /\ \A s \in Payload \cup Phys \cup {None} :
                       Since(r, s, n) => Since(x, s, n + 1)
                 /\ Due(r) <= r.changes => Due(x) <= x.changes
                 /\ r.changes >= Due(r) + 2 => x.changes >= Due(x) + 2
<1>1. Passed(x) = Passed(r)
  BY DEF Later, Passed
<1>2. Due(x) = Due(r)
  BY <1>1 DEF Due
<1>3. /\ Due(r) \in Nat /\ r.changes \in Nat /\ x.changes \in Nat /\ Attempts \in Nat
      /\ Due(r) + 2 <= 2 * Attempts
  BY AttemptsPassed
<1>4. ASSUME r.pc \notin Over, NEW s \in Payload \cup Phys \cup {None}, Since(r, s, n)
      PROVE  Since(x, s, n + 1)
  BY <1>2, <1>3, <1>4, VersionIsNat DEF Later, Since
<1> QED
  BY <1>1, <1>2, <1>3, <1>4 DEF Later, Second

LEMMA LookedState ==
    ASSUME NEW f \in Flight \cup {None}, Looked(f)
    PROVE  f.state \in Payload \cup {None}
  BY DEF Looked, Flight

LEMMA LaterReads ==
    ASSUME NEW r \in CallType, NEW x \in CallType, Later(x, r), NEW n \in Nat,
           NEW f \in Flight \cup {None}, ReadsInv(r, f, n)
    PROVE  ReadsInv(x, f, n + 1)
<1>1. r.before \in Payload \cup Phys \cup {None}
  BY DEF CallType
<1>2. Looked(f) => f.state \in Payload \cup Phys \cup {None}
  BY LookedState
<1>3. /\ Passed(x) = Passed(r) /\ Due(x) = Due(r) /\ (Second(x) <=> Second(r))
      /\ r.pc \notin Over =>
            /\ Since(r, r.before, n) => Since(x, r.before, n + 1)
            /\ Looked(f) /\ Since(r, f.state, n) => Since(x, f.state, n + 1)
            /\ Due(r) <= r.changes => Due(x) <= x.changes
  BY <1>1, <1>2, LaterCounts
<1>4. /\ x.pc = r.pc /\ x.before = r.before /\ x.after = r.after /\ x.changes <= 2 * Attempts
      /\ r.pc \in Over => x.changes = r.changes
  BY DEF Later
<1>5. "gaveUp" \in Over /\ \A pc \in {"before", "captured"} \cup Refers : pc \notin Over
  BY DEF Over, Refers
<1>6. \A i \in {1, 3} : n >= i => n + 1 >= i
  OBVIOUS
<1>7. x.pc = "gaveUp" => x.changes >= 2 * (Attempts \div 2)
  BY <1>4, <1>5 DEF ReadsInv
<1>8. x.pc \notin Over => Due(x) <= x.changes /\ (Passed(x) > 0 => n + 1 >= 1)
  BY <1>3, <1>4, <1>6 DEF ReadsInv
<1>9. x.pc = "before" /\ Looked(f) =>
        /\ Second(x) => Since(x, f.state, n + 1)
        /\ Passed(x) > 0 /\ f.state = None => n + 1 >= 3
  BY <1>3, <1>4, <1>5, <1>6 DEF ReadsInv
<1>10. x.pc \in {"captured"} \cup Refers =>
        /\ Second(x) => Since(x, x.before, n + 1) /\ (x.before = None => n + 1 >= 3)
        /\ Looked(f) => /\ ~Second(x) => Since(x, f.state, n + 1)
                        /\ Version(x.before) <= Version(f.state)
  BY <1>3, <1>4, <1>5, <1>6 DEF ReadsInv
<1>11. /\ x.pc = "fenced" => Version(x.before) <= Version(x.after)
       /\ x.pc \in {"captured", "fenced"} => ~Looked(f)
       /\ Linked(x.before) /\ Linked(x.after)
  BY <1>4 DEF ReadsInv
<1> QED
  BY <1>4, <1>7, <1>8, <1>9, <1>10, <1>11 DEF ReadsInv

LEMMA LaterJoins ==
    ASSUME NEW r \in CallType, NEW x \in CallType, Later(x, r), NEW n \in Nat,
           NEW m, NEW w \in [Ids -> ValType], r.pc \in Refers => r.val \in Ids,
           JoinsInv(r, m, w, n)
    PROVE  JoinsInv(x, m, w, n + 1)
<1>1. CASE r.pc \notin Refers
  BY <1>1 DEF JoinsInv, Later, Refers
<1>2. CASE r.pc \in Refers
  <2>1. w[r.val].before \in Payload \cup Phys \cup {None}
    BY <1>2 DEF ValType
  <2>2. /\ (Second(x) <=> Second(r)) /\ r.pc \notin Over
        /\ Since(r, w[r.val].before, n) => Since(x, w[r.val].before, n + 1)
        /\ r.changes >= Due(r) + 2 => x.changes >= Due(x) + 2
    BY <1>2, <2>1, LaterCounts DEF Refers, Over
  <2>3. x.pc = r.pc /\ x.before = r.before /\ x.val = r.val /\ x.key = r.key
    BY DEF Later
  <2>4. Fresh(r, m, w) => Fresh(x, m, w)
    BY <2>3 DEF Fresh
  <2> QED
    BY <2>2, <2>3, <2>4 DEF JoinsInv
<1> QED
  BY <1>1, <1>2

LEMMA LaterLate ==
    ASSUME NEW r \in CallType, NEW x \in CallType, Later(x, r), NEW n \in Nat, r.pc \notin Over,
           NEW m, \A k \in DOMAIN m : m[k] \in Ids, NEW w \in [Ids -> ValType], NEW k,
           Late(r, k, m, w, n)
    PROVE  Late(x, k, m, w, n + 1)
<1>1. k \in DOMAIN m => w[m[k]].before \in Payload \cup Phys \cup {None}
  BY DEF ValType
<1> QED
  BY <1>1, LaterCounts DEF Late

LEMMA LaterPairs ==
    ASSUME NEW r \in CallType, NEW x \in CallType, Later(x, r), NEW n \in Nat,
           NEW m, \A k \in DOMAIN m : m[k] \in Ids, NEW w \in [Ids -> ValType],
           NEW d, NEW e, Later(e, d), PairInv(r, d, m, w, n)
    PROVE  PairInv(x, e, m, w, n + 1)
<1>1. /\ x.pc = r.pc /\ x.val = r.val /\ x.key = r.key /\ e.pc = d.pc /\ e.key = d.key
  BY DEF Later
<1>2. Second(x) <=> Second(r)
  BY LaterCounts
<1>3. r.pc \notin Over => (Late(r, d.key, m, w, n) => Late(x, d.key, m, w, n + 1))
  BY LaterLate
<1>4. \A pc \in {"before", "captured"} \cup Refers : pc \notin Over
  BY DEF Over, Refers
<1>5. Fresh(r, m, w) => Fresh(x, m, w)
  BY <1>1 DEF Fresh
<1> QED
  BY <1>1, <1>2, <1>3, <1>4, <1>5 DEF PairInv

LEMMA OutsideVersion ==
    ASSUME Inv, Sane', Linked(payload),
           Publish \/ Link \/ \E restoring \in BOOLEAN : Rewrite(restoring)
    PROVE  Linked(payload') /\ Version(payload') = Version(payload) + 1
<1>1. payload' \in Payload /\ payload' # None
  BY PayloadStep, PhysOfPayload
<1>2. CASE Publish
  <2>1. payload = None /\ payload' = [ctime |-> 0, mtime |-> 0, nlink |-> 1, good |-> TRUE]
    BY <1>2 DEF Publish
  <2>2. payload'.ctime = 0 /\ payload'.mtime = 0 /\ payload'.nlink = 1 /\ 0 + 1 = 2 * 0 + 1
    BY <2>1
  <2>3. 0 \in Nat
    OBVIOUS
  <2> QED
    BY <1>1, <2>1, <2>2, <2>3 DEF Version, Linked
<1>3. CASE Link
  <2>1. payload # None /\ payload \in Payload
    BY <1>3 DEF Link, Inv, TypeInv
  <2>2. PICK n \in {payload.nlink - 1, payload.nlink + 1} \cap 1..MaxLinks :
            payload' = [payload EXCEPT !.ctime = @ + 1, !.nlink = n]
    BY <1>3 DEF Link
  <2>3. /\ payload'.ctime = payload.ctime + 1 /\ payload'.mtime = payload.mtime
        /\ payload'.nlink = n
    BY <2>1, <2>2 DEF Payload
  <2>4. Version(payload') = Version(payload) + 1
    BY <1>1, <2>1, <2>3, VersionIsNat
  <2>5. Linked(payload')
    BY <1>1, <2>1, <2>2, <2>3, LinksChange
  <2> QED
    BY <2>4, <2>5
<1>4. ASSUME NEW restoring \in BOOLEAN, Rewrite(restoring) PROVE FALSE
  <2>1. payload \in Payload
    BY <1>4 DEF Rewrite, Inv, TypeInv
  <2>2. ~payload'.good
    BY <1>4, <2>1 DEF Rewrite, Payload
  <2> QED
    BY <1>1, <2>2 DEF Sane
<1> QED
  BY <1>2, <1>3, <1>4

LEMMA OutsideChurn ==
    ASSUME Inv, Churn, Sane', Publish \/ Link \/ \E restoring \in BOOLEAN : Rewrite(restoring)
    PROVE  Churn'
<1> DEFINE n == Version(payload)
<1>1. call' = Counted /\ UNCHANGED <<admitted, memo, retained, flight, val>>
  BY DEF Publish, Link, Rewrite
<1>2. n \in Nat /\ val \in [Ids -> ValType] /\ flight \in Flight \cup {None}
      /\ \A k \in DOMAIN memo : memo[k] \in Ids
  BY VersionIsNat DEF Inv, TypeInv
<1>3. Linked(payload') /\ Version(payload') = n + 1 /\ payload' # None
  BY OutsideVersion, PayloadStep, PhysOfPayload DEF Churn, StatesInv
<1>4. ASSUME NEW c \in Callers
      PROVE  /\ call[c] \in CallType /\ call'[c] \in CallType /\ Later(call'[c], call[c])
             /\ call[c].pc \in Refers => call[c].val \in Ids
             /\ ReadsInv(call[c], flight, n) /\ JoinsInv(call[c], memo, val, n)
             /\ \A d \in Callers : PairInv(call[c], call[d], memo, val, n)
  <2>1. /\ ReadsInv(call[c], flight, n) /\ JoinsInv(call[c], memo, val, n)
        /\ \A d \in Callers : PairInv(call[c], call[d], memo, val, n)
    BY DEF Churn, AttemptsInv
  <2>2. call[c].changes <= 2 * Attempts
    BY <2>1 DEF ReadsInv
  <2> QED
    BY <1>1, <2>1, <2>2, CountedIsLater DEF Inv, TypeInv, CallsInv, CallInv
<1> HIDE DEF n
<1>5. ASSUME NEW c \in Callers
      PROVE  /\ ReadsInv(call'[c], flight, n + 1) /\ JoinsInv(call'[c], memo, val, n + 1)
             /\ \A d \in Callers : PairInv(call'[c], call'[d], memo, val, n + 1)
  BY <1>2, <1>4, LaterReads, LaterJoins, LaterPairs
<1>6. AttemptsInv'
  BY <1>1, <1>3, <1>5 DEF AttemptsInv
<1>7. StatesInv'
  <2>1. ASSUME NEW v \in Ids, Hashing(val[v])
        PROVE  Linked(val[v].before) /\ Version(val[v].before) <= n + 1
    <3>1. Linked(val[v].before) /\ Version(val[v].before) <= n
      BY <2>1 DEF Churn, StatesInv, n
    <3>2. Version(val[v].before) \in Nat
      BY <1>2, VersionIsNat DEF ValType
    <3> QED
      BY <1>2, <3>1, <3>2
  <2> QED
    BY <1>1, <1>3, <2>1 DEF Churn, StatesInv
<1>8. KeysInv'
  <2>1. ASSUME NEW k \in DOMAIN memo, val[memo[k]].step \in Running \cup {"changed"}
        PROVE  \E c \in Callers :
                  call'[c].pc = "validating" /\ call'[c].key = k /\ call'[c].val = memo[k]
    <3>1. PICK c \in Callers :
            call[c].pc = "validating" /\ call[c].key = k /\ call[c].val = memo[k]
      BY <2>1 DEF Churn, KeysInv
    <3> QED
      BY <1>4, <3>1 DEF Later
  <2>2. ASSUME retained # None, NEW c \in Callers, Second(call'[c]),
               call'[c].pc \in {"before", "captured"}
        PROVE  Late(call'[c], retained.key, memo, val, n + 1)
    <3>1. Second(call[c]) /\ call[c].pc \in {"before", "captured"} /\ call[c].pc \notin Over
      BY <1>2, <1>4, <2>2, LaterCounts DEF Later, Over
    <3>2. Late(call[c], retained.key, memo, val, n)
      BY <2>2, <3>1 DEF Churn, KeysInv, n
    <3> QED
      BY <1>2, <1>4, <3>1, <3>2, LaterLate
  <2> QED
    BY <1>1, <1>3, <2>1, <2>2 DEF Churn, KeysInv
<1> QED
  BY <1>6, <1>7, <1>8 DEF Churn

-----------------------------------------------------------------------------
(* The read that is pending.                                               *)

LEMMA QuietCalls ==
    ASSUME Quiet, NEW c \in Callers
    PROVE  /\ call[c].pc \notin {"captured", "fenced"}
           /\ call[c].pc = "validating" => val[call[c].val].step \notin Outcomes
  BY DEF Quiet, Ready, Settled, Outcomes

LEMMA ObserveChurn == ASSUME Inv, Churn, FlightObserve PROVE Churn'
<1> DEFINE n == Version(payload)
<1>1. /\ ~Looked(flight) /\ flight' = [seen |-> TRUE, state |-> payload] /\ Quiet
      /\ UNCHANGED <<admitted, payload, memo, retained, digests, val, call>>
  BY DEF FlightObserve, Looked
<1>2. n \in Nat /\ (n = 0 <=> payload = None) /\ payload \in Payload \cup Phys \cup {None}
  BY VersionIsNat DEF Inv, TypeInv
<1>3. StatesInv' /\ KeysInv'
  BY <1>1 DEF Churn, StatesInv, KeysInv
<1>4. ASSUME NEW c \in Callers PROVE ReadsInv(call[c], flight', n)
  <2> DEFINE r == call[c]
  <2>1. r \in CallType /\ Seen(r.before, payload) /\ ReadsInv(r, flight, n)
    BY DEF Inv, TypeInv, CallsInv, CallInv, Churn, AttemptsInv
  <2>2. r.pc \notin {"captured", "fenced"}
    BY <1>1, QuietCalls
  <2>3. r.pc \notin Over => Since(r, payload, n)
    BY <1>2, <2>1, SinceNow DEF ReadsInv
  <2>4. Version(r.before) <= n
    <3>1. CASE r.before = None
      BY <1>2, <3>1 DEF Version
    <3>2. CASE r.before # None
      BY <2>1, <3>2, VersionIsNat DEF Seen, Version, Inv, TypeInv
    <3> QED
      BY <3>1, <3>2
  <2>5. Passed(r) > 0 /\ payload = None => r.pc \in Over
    BY <1>2, <2>1 DEF ReadsInv
  <2>6. \A pc \in {"before", "captured"} \cup Refers : pc \notin Over
    BY DEF Over, Refers
  <2> HIDE DEF r, n
  <2>7. flight'.state = payload
    BY <1>1
  <2>8. ReadsInv(r, flight', n)
    BY <2>1, <2>2, <2>3, <2>4, <2>5, <2>6, <2>7 DEF ReadsInv, n
  <2> QED
    BY <2>8 DEF r
<1>5. AttemptsInv'
  BY <1>1, <1>4 DEF Churn, AttemptsInv
<1> QED
  BY <1>3, <1>5 DEF Churn

\* What the end of the read f, of a payload with the version n, makes of a call.
SettlesTo(x, r, f) ==
    /\ SameCount(x, r) /\ x.key = r.key /\ x.val = r.val
    /\ r.pc = "before" =>
          x.pc = "captured" /\ x.before = PhysOf(f.state) /\ x.after = r.after
    /\ r.pc = "after" => x.pc = "fenced" /\ x.before = r.before /\ x.after = f.state
    /\ r.pc \notin {"before", "after"} => x = r

LEMMA SettledCall ==
    ASSUME Inv, FlightSettle, NEW c \in Callers
    PROVE  call[c] \in CallType /\ SettlesTo(call'[c], call[c], flight)
<1> DEFINE r == call[c]
<1>1. r \in CallType
  BY DEF Inv, TypeInv
<1>2. call'[c] = CASE r.pc = "before" ->
                       [r EXCEPT !.pc = "captured", !.before = PhysOf(flight.state)]
                   [] r.pc = "after" -> [r EXCEPT !.pc = "fenced", !.after = flight.state]
                   [] OTHER -> r
  BY DEF FlightSettle
<1> HIDE DEF r
<1>3. CASE r.pc = "before"
  <2>1. call'[c] = [r EXCEPT !.pc = "captured", !.before = PhysOf(flight.state)]
    BY <1>2, <1>3
  <2> QED
    BY <1>1, <1>3, <2>1 DEF CallType, SettlesTo, SameCount, r
<1>4. CASE r.pc = "after"
  <2>1. call'[c] = [r EXCEPT !.pc = "fenced", !.after = flight.state]
    BY <1>2, <1>4
  <2> QED
    BY <1>1, <1>4, <2>1 DEF CallType, SettlesTo, SameCount, r
<1>5. CASE r.pc \notin {"before", "after"}
  <2>1. call'[c] = r
    BY <1>2, <1>5
  <2> QED
    BY <1>1, <1>5, <2>1 DEF SettlesTo, SameCount, r
<1> QED
  BY <1>3, <1>4, <1>5

LEMMA SettleReads ==
    ASSUME NEW r \in CallType, NEW f \in Flight, Looked(f), Linked(f.state), NEW n \in Nat,
           NEW x, SettlesTo(x, r, f), ReadsInv(r, f, n)
    PROVE  ReadsInv(x, None, n)
<1>1. /\ Passed(x) = Passed(r) /\ Due(x) = Due(r) /\ (Second(x) <=> Second(r))
      /\ \A s : Since(x, s, n) <=> Since(r, s, n)
  BY SameCounts DEF SettlesTo
<1>2. x.changes = r.changes /\ ~Looked(None)
  BY DEF SettlesTo, SameCount, Looked
<1>3. f.state \in Payload \cup {None}
  BY LookedState
<1>4. /\ Version(PhysOf(f.state)) = Version(f.state) /\ Linked(PhysOf(f.state))
      /\ (PhysOf(f.state) = None <=> f.state = None)
  BY <1>3, VersionOfPhys
<1>5. CASE r.pc = "before"
  <2>1. x.pc = "captured" /\ x.before = PhysOf(f.state) /\ x.after = r.after
    BY <1>5 DEF SettlesTo
  <2>2. Second(r) => Since(r, f.state, n) /\ (f.state = None => n >= 3)
    BY <1>5, AttemptsPassed DEF ReadsInv, Second
  <2>3. Since(x, x.before, n) <=> Since(r, f.state, n)
    BY <1>1, <1>4, <2>1 DEF Since
  <2>4. Due(r) <= r.changes /\ (Passed(r) > 0 => n >= 1) /\ Linked(r.after)
        /\ r.changes <= 2 * Attempts
    BY <1>5 DEF ReadsInv, Over
  <2> QED
    BY <1>1, <1>2, <1>4, <2>1, <2>2, <2>3, <2>4 DEF ReadsInv
<1>6. CASE r.pc = "after"
  <2>1. x.pc = "fenced" /\ x.before = r.before /\ x.after = f.state
    BY <1>6 DEF SettlesTo
  <2> QED
    BY <1>1, <1>2, <1>6, <2>1 DEF ReadsInv, Over, Refers
<1>7. CASE r.pc \notin {"before", "after"}
  BY <1>2, <1>7 DEF SettlesTo, ReadsInv
<1> QED
  BY <1>5, <1>6, <1>7

LEMMA SettleJoins ==
    ASSUME NEW r, NEW f, NEW x, SettlesTo(x, r, f), NEW m, NEW w, NEW n, JoinsInv(r, m, w, n)
    PROVE  JoinsInv(x, m, w, n)
<1>1. CASE r.pc = "before"
  <2>1. x.pc = "captured"
    BY <1>1 DEF SettlesTo
  <2> QED
    BY <2>1 DEF JoinsInv, Refers
<1>2. CASE r.pc = "after"
  <2>1. x.pc = "fenced" /\ x.before = r.before /\ x.key = r.key /\ x.val = r.val
    BY <1>2 DEF SettlesTo
  <2> QED
    BY <1>2, <2>1 DEF JoinsInv, Refers
<1>3. CASE r.pc \notin {"before", "after"}
  BY <1>3 DEF SettlesTo
<1> QED
  BY <1>1, <1>2, <1>3

LEMMA SettlePairs ==
    ASSUME NEW r, NEW d, NEW f, NEW x, NEW y, SettlesTo(x, r, f), SettlesTo(y, d, f),
           r.pc \notin {"captured", "fenced"}, d.pc \notin {"captured", "fenced"},
           NEW m, NEW w, NEW n, PairInv(r, d, m, w, n),
           r.pc = "validating" => w[r.val].step # "changed"
    PROVE  PairInv(x, y, m, w, n)
<1>1. /\ Second(x) <=> Second(r)
      /\ \A k : Late(x, k, m, w, n) <=> Late(r, k, m, w, n)
  BY SameCounts DEF SettlesTo
<1>2. /\ x.key = r.key /\ x.val = r.val /\ y.key = d.key
      /\ x.pc \notin {"before", "after"} /\ y.pc \notin {"before", "after"}
      /\ x.pc = "fenced" => r.pc = "after"
      /\ y.pc = "fenced" => d.pc = "after"
      /\ x.pc = "captured" => r.pc = "before"
      /\ x.pc = "validating" => r.pc = "validating"
  BY DEF SettlesTo
<1>3. x.pc = "validating" => w[x.val].step # "changed"
  BY <1>2
<1>4. ASSUME ~Second(x), x.pc \in Refers,
             y.pc = "after" \/ (y.pc = "fenced" /\ x.pc = "fenced")
      PROVE  Late(x, y.key, m, w, n)
  BY <1>1, <1>2, <1>4 DEF PairInv, Refers
<1>5. ASSUME Second(x), x.pc \in {"before", "captured"},
             y.pc = "fenced" \/ (y.pc = "after" /\ x.pc = "before")
      PROVE  Late(x, y.key, m, w, n)
  BY <1>1, <1>2, <1>5 DEF PairInv
<1> QED
  BY <1>2, <1>3, <1>4, <1>5 DEF PairInv

LEMMA SettleChurn == ASSUME Inv, Churn, FlightSettle PROVE Churn'
<1> DEFINE n == Version(payload)
<1>1. /\ flight \in Flight /\ Looked(flight) /\ Linked(flight.state) /\ Quiet /\ flight' = None
      /\ UNCHANGED <<admitted, payload, memo, retained, digests, val>>
  BY DEF FlightSettle, Looked, Churn, StatesInv, Inv, TypeInv
<1>2. n \in Nat
  BY VersionIsNat DEF Inv, TypeInv
<1>3. ASSUME NEW c \in Callers
      PROVE  /\ call[c] \in CallType /\ SettlesTo(call'[c], call[c], flight)
             /\ call[c].pc \notin {"captured", "fenced"}
             /\ call[c].pc = "validating" => val[call[c].val].step # "changed"
             /\ ReadsInv(call[c], flight, n) /\ JoinsInv(call[c], memo, val, n)
             /\ \A d \in Callers : PairInv(call[c], call[d], memo, val, n)
  BY <1>1, SettledCall, QuietCalls DEF Churn, AttemptsInv, Outcomes
<1> HIDE DEF n
<1>4. ASSUME NEW c \in Callers
      PROVE  /\ ReadsInv(call'[c], None, n) /\ JoinsInv(call'[c], memo, val, n)
             /\ \A d \in Callers : PairInv(call'[c], call'[d], memo, val, n)
  <2>1. ReadsInv(call'[c], None, n)
    BY <1>1, <1>2, <1>3, SettleReads
  <2>2. JoinsInv(call'[c], memo, val, n)
    BY <1>3, SettleJoins
  <2>3. ASSUME NEW d \in Callers PROVE PairInv(call'[c], call'[d], memo, val, n)
    BY <1>3, SettlePairs
  <2> QED
    BY <2>1, <2>2, <2>3
<1>5. AttemptsInv'
  BY <1>1, <1>4 DEF AttemptsInv, n
<1>6. StatesInv'
  BY <1>1 DEF Churn, StatesInv
<1>7. KeysInv'
  <2>1. ASSUME NEW k \in DOMAIN memo, val[memo[k]].step \in Running \cup {"changed"}
        PROVE  \E c \in Callers :
                  call'[c].pc = "validating" /\ call'[c].key = k /\ call'[c].val = memo[k]
    <3>1. PICK c \in Callers :
            call[c].pc = "validating" /\ call[c].key = k /\ call[c].val = memo[k]
      BY <2>1 DEF Churn, KeysInv
    <3> QED
      BY <1>3, <3>1 DEF SettlesTo
  <2>2. ASSUME retained # None, NEW c \in Callers, Second(call'[c]),
               call'[c].pc \in {"before", "captured"}
        PROVE  Late(call'[c], retained.key, memo, val, n)
    <3>1. Second(call[c]) /\ call[c].pc = "before" /\ SameCount(call'[c], call[c])
      BY <1>3, <2>2, SameCounts DEF SettlesTo
    <3>2. Late(call[c], retained.key, memo, val, n)
      BY <2>2, <3>1 DEF Churn, KeysInv, n
    <3> QED
      BY <3>1, <3>2, SameCounts
  <2> QED
    BY <1>1, <2>1, <2>2 DEF Churn, KeysInv, n
<1> QED
  BY <1>5, <1>6, <1>7 DEF Churn

-----------------------------------------------------------------------------
(* The authentications.                                                    *)

\* What is read now is late for every call.
LEMMA SeesNow ==
    ASSUME Inv, Churn, NEW c \in Callers, call[c].pc \notin Over
    PROVE  Since(call[c], PhysOf(payload), Version(payload))
<1>1. Due(call[c]) <= call[c].changes /\ call[c] \in CallType /\ payload \in Payload \cup {None}
  BY DEF Churn, AttemptsInv, ReadsInv, Inv, TypeInv
<1>2. /\ PhysOf(payload) \in Payload \cup Phys \cup {None}
      /\ Version(PhysOf(payload)) = Version(payload)
  BY <1>1, VersionOfPhys
<1> QED
  BY <1>1, <1>2, SinceNow

LEMMA ValChurn ==
    ASSUME Inv, Churn, Quiet, NEW v \in Ids, NEW w \in ValType, val' = [val EXCEPT ![v] = w],
           val[v].step \in Running, w.step \in Running \cup Outcomes,
           Hashing(w) => \/ w.before = PhysOf(payload)
                         \/ Hashing(val[v]) /\ w.before = val[v].before,
           w.step = "entry" => payload # None,
           w.step = "miss" => payload = None,
           w.step = "changed" =>
              Hashing(val[v]) /\ Version(val[v].before) + 2 <= Version(payload),
           IF w.step = "error" THEN memo' = [k \in {k \in DOMAIN memo : memo[k] # v} |-> memo[k]]
                               ELSE memo' = memo,
           UNCHANGED <<payload, retained, flight, call>>
    PROVE  Churn'
<1> DEFINE n == Version(payload)
           b == PhysOf(payload)
<1>1. /\ val \in [Ids -> ValType] /\ n \in Nat /\ (n = 0 <=> payload = None)
      /\ payload \in Payload \cup {None}
      /\ \A k \in DOMAIN memo : memo[k] \in Ids
  BY VersionIsNat DEF Inv, TypeInv
<1>2. val'[v] = w /\ (\A u \in Ids \ {v} : val'[u] = val[u])
  BY <1>1
<1>3. Version(b) = n /\ b \in Phys \cup {None} /\ Linked(b) /\ (b = None <=> payload = None)
  BY <1>1, VersionOfPhys DEF Churn, StatesInv
<1>4. \A k \in DOMAIN memo' :
         /\ k \in DOMAIN memo /\ memo'[k] = memo[k] /\ memo[k] \in Ids
         /\ memo[k] = v => w.step # "error"
  BY <1>1
<1>5. w.step # "error" => memo' = memo
  OBVIOUS
<1>6. \A k \in DOMAIN memo : memo[k] # v => k \in DOMAIN memo' /\ memo'[k] = memo[k]
  OBVIOUS
<1>7. Hashing(val[v]) => /\ Version(val[v].before) \in Nat /\ Version(val[v].before) >= 1
                         /\ val[v].before \in Phys
  BY <1>1, VersionIsNat DEF Hashing, Inv, ValInv, ValType
<1> HIDE DEF n, b
<1>8. ASSUME NEW c \in Callers, call[c].pc \notin Over, NEW k,
             Late(call[c], k, memo, val, n)
      PROVE  Late(call[c], k, memo', val', n)
  <2> SUFFICES ASSUME k \in DOMAIN memo', Hashing(val'[memo'[k]])
               PROVE  Since(call[c], val'[memo'[k]].before, n)
    BY DEF Late
  <2>1. k \in DOMAIN memo /\ memo'[k] = memo[k] /\ memo[k] \in Ids
    BY <1>4
  <2>2. CASE memo[k] # v
    BY <1>2, <1>8, <2>1, <2>2 DEF Late
  <2>3. CASE memo[k] = v /\ w.before = PhysOf(payload)
    BY <1>2, <1>8, <2>1, <2>3, SeesNow DEF n
  <2>4. CASE memo[k] = v /\ Hashing(val[v]) /\ w.before = val[v].before
    BY <1>2, <1>8, <2>1, <2>4 DEF Late
  <2> QED
    BY <1>2, <2>1, <2>2, <2>3, <2>4
<1>9. StatesInv'
  <2>1. ASSUME NEW u \in Ids, Hashing(val'[u])
        PROVE  Linked(val'[u].before) /\ Version(val'[u].before) <= n
    <3>1. CASE u # v
      BY <1>2, <2>1, <3>1 DEF Churn, StatesInv, n
    <3>2. CASE u = v /\ w.before = b
      BY <1>1, <1>2, <1>3, <3>2
    <3>3. CASE u = v /\ Hashing(val[v]) /\ w.before = val[v].before
      BY <1>2, <3>3 DEF Churn, StatesInv, n
    <3> QED
      BY <1>2, <2>1, <3>1, <3>2, <3>3 DEF b
  <2>2. w.step = "changed" => payload # None
    BY <1>1, <1>7 DEF n
  <2>3. ASSUME NEW u \in Ids, val'[u].step \in {"entry", "changed"} PROVE payload # None
    BY <1>2, <2>2, <2>3 DEF Churn, StatesInv
  <2> QED
    BY <2>1, <2>3 DEF Churn, StatesInv, n
<1>10. KeysInv'
  <2>1. ASSUME NEW k \in DOMAIN memo'
        PROVE  /\ Hashing(val'[memo'[k]]) => Version(k[1]) <= Version(val'[memo'[k]].before)
               /\ val'[memo'[k]].step = "miss" => k[1] = None
               /\ val'[memo'[k]].step \in Running \cup {"changed"} =>
                    \E c \in Callers : /\ call[c].pc = "validating" /\ call[c].key = k
                                       /\ call[c].val = memo'[k]
    <3>1. /\ k \in DOMAIN memo /\ memo'[k] = memo[k] /\ memo[k] \in Ids /\ k \in Keys
          /\ Seen(k[1], payload)
      BY <1>4 DEF Inv, TypeInv, MemoInv
    <3>2. CASE memo[k] # v
      BY <1>2, <3>1, <3>2 DEF Churn, KeysInv
    <3>3. CASE memo[k] = v
      <4>1. k[1] = None => Version(k[1]) = 0
        BY DEF Version
      <4>2. k[1] # None => payload # None /\ Version(k[1]) <= n
        BY <1>1, <3>1, VersionIsNat DEF Seen, n
      <4>3. w.before = b => Version(k[1]) <= Version(w.before)
        BY <1>1, <1>3, <4>1, <4>2
      <4>4. Hashing(val[v]) => Version(k[1]) <= Version(val[v].before)
        BY <3>1, <3>3 DEF Churn, KeysInv
      <4>5. \E c \in Callers : /\ call[c].pc = "validating" /\ call[c].key = k
                               /\ call[c].val = memo[k]
        BY <3>1, <3>3 DEF Churn, KeysInv
      <4> QED
        BY <1>2, <3>1, <3>3, <4>2, <4>3, <4>4, <4>5 DEF b
    <3> QED
      BY <3>2, <3>3
  <2>2. ASSUME retained # None
        PROVE  /\ retained.key[1] # None /\ val'[retained.val].step = "entry"
               /\ \A c \in Callers : Second(call[c]) /\ call[c].pc \in {"before", "captured"}
                     => Late(call[c], retained.key, memo', val', n)
    <3>1. /\ retained.key[1] # None /\ val[retained.val].step = "entry"
          /\ \A c \in Callers : Second(call[c]) /\ call[c].pc \in {"before", "captured"}
                => Late(call[c], retained.key, memo, val, n)
      BY <2>2 DEF Churn, KeysInv, n
    <3>2. retained.val \in Ids /\ retained.val # v
      BY <2>2, <3>1 DEF Inv, TypeInv, Retained, Running
    <3>3. {"before", "captured"} \cap Over = {}
      BY DEF Over
    <3> QED
      BY <1>2, <1>8, <3>1, <3>2, <3>3
  <2> QED
    BY <2>1, <2>2 DEF KeysInv, n
<1>11. AttemptsInv'
  <2>1. ASSUME NEW c \in Callers PROVE JoinsInv(call[c], memo', val', n)
    <3> DEFINE r == call[c]
    <3> SUFFICES JoinsInv(r, memo', val', n)
      OBVIOUS
    <3>1. /\ r \in CallType /\ Seen(r.before, payload) /\ (r.pc \in Refers => r.val \in Ids)
          /\ JoinsInv(r, memo, val, n)
      BY DEF Inv, TypeInv, CallsInv, CallInv, Churn, AttemptsInv, n
    <3>2. r.pc = "validating" => val[r.val].step \notin Outcomes
      BY QuietCalls
    <3>3. r.pc = "validating" /\ ~(r.val = v) => val'[r.val] = val[r.val]
      BY <1>2, <3>1 DEF Refers
    <3>4. Since(r, b, n) \/ r.pc \in Over
      BY SeesNow DEF n, b
    <3> HIDE DEF r
    <3>5. CASE r.pc = "validating" /\ r.val = v
      <4>1. r.key \in DOMAIN memo /\ memo[r.key] = v
        BY <3>1, <3>5 DEF JoinsInv
      <4>2. w.step # "error" => Fresh(r, memo', val')
        BY <1>5, <3>5, <4>1 DEF Fresh
      <4>3. w.step \in Running => r.key \in DOMAIN memo' /\ memo'[r.key] = r.val
        BY <1>5, <3>5, <4>1 DEF Running
      <4>4. w.step = "changed" => n >= 3 /\ (Second(r) => r.changes >= Due(r) + 2)
        <5> SUFFICES ASSUME w.step = "changed"
                     PROVE  n >= 3 /\ (Second(r) => r.changes >= Due(r) + 2)
          OBVIOUS
        <5>1. /\ val[v].before \in Payload \cup Phys \cup {None}
              /\ Version(val[v].before) + 2 <= n /\ Version(val[v].before) >= 1
          BY <1>7 DEF n
        <5>2. Version(val[v].before) \in Nat
          BY <5>1, VersionIsNat
        <5>3. n >= 3
          BY <1>1, <5>1, <5>2
        <5>4. Second(r) => Since(r, val[v].before, n)
          BY <3>1, <3>5 DEF JoinsInv
        <5>5. Second(r) => Due(r) + 2 <= r.changes
          BY <1>1, <3>1, <5>1, <5>4, SinceFails
        <5>6. Due(r) \in Nat /\ r.changes \in Nat
          BY <3>1, AttemptsPassed
        <5> QED
          BY <5>3, <5>5, <5>6
      <4>5. Second(r) /\ Hashing(w) => Since(r, w.before, n)
        BY <3>1, <3>4, <3>5 DEF JoinsInv, Over, b
      <4>6. r.before # None => payload # None
        BY <3>1 DEF Seen
      <4> QED
        BY <1>2, <3>1, <3>5, <4>2, <4>3, <4>4, <4>5, <4>6 DEF JoinsInv
    <3>6. CASE r.pc = "validating" /\ r.val # v
      <4>1. val'[r.val] = val[r.val] /\ val[r.val].step \notin Outcomes
        BY <3>2, <3>3, <3>6 DEF r
      <4>2. val[r.val].step \in Running => r.key \in DOMAIN memo' /\ memo'[r.key] = r.val
        BY <1>6, <3>1, <3>6 DEF JoinsInv
      <4> QED
        BY <3>1, <3>6, <4>1, <4>2 DEF JoinsInv, Outcomes
    <3>7. CASE r.pc # "validating"
      <4>1. ASSUME r.pc \in Refers PROVE val'[r.val].step = "miss" => val[r.val].step = "miss"
        <5>1. val[r.val].step \in {"entry", "miss"} /\ r.val \in Ids
          BY <3>1, <3>7, <4>1 DEF Inv, CallsInv, CallInv, Refers, r
        <5> QED
          BY <1>2, <5>1 DEF Running
      <4> QED
        BY <3>1, <3>7, <4>1 DEF JoinsInv
    <3> QED
      BY <3>5, <3>6, <3>7
  <2>2. ASSUME NEW c \in Callers, NEW d \in Callers
        PROVE  PairInv(call[c], call[d], memo', val', n)
    <3>1. PairInv(call[c], call[d], memo, val, n) /\ call[d].pc \notin {"captured", "fenced"}
      BY <2>2, QuietCalls DEF Churn, AttemptsInv, n
    <3>2. \A pc \in {"before", "captured"} \cup Refers : pc \notin Over
      BY DEF Over, Refers
    <3>3. call[c].pc \notin Over => \A k : Late(call[c], k, memo, val, n)
                                           => Late(call[c], k, memo', val', n)
      BY <1>8
    <3> QED
      BY <3>1, <3>2, <3>3 DEF PairInv
  <2> QED
    BY <2>1, <2>2 DEF Churn, AttemptsInv, n
<1> QED
  BY <1>9, <1>10, <1>11 DEF Churn

LEMMA ResultChurn ==
    ASSUME Inv, Churn, Quiet, NEW v \in Ids, val[v].step \in Running, NEW result \in Outcomes,
           Settle(v, result),
           result = "entry" => payload # None,
           result = "miss" => payload = None,
           result = "changed" =>
              Hashing(val[v]) /\ Version(val[v].before) + 2 <= Version(payload),
           IF result = "error" THEN memo' = [k \in {k \in DOMAIN memo : memo[k] # v} |-> memo[k]]
                               ELSE memo' = memo,
           UNCHANGED <<payload, retained, flight, call>>
    PROVE  Churn'
<1> DEFINE w == [NoVal EXCEPT !.step = result, !.fits = val[v].fits]
<1>1. val[v].fits \in BOOLEAN
  BY DEF Inv, TypeInv, ValType
<1>2. w \in ValType /\ w.step = result
  BY <1>1, SettledType
<1>3. val' = [val EXCEPT ![v] = w]
  BY DEF Settle
<1> HIDE DEF w
<1>4. ~Hashing(w) /\ w.step \in Running \cup Outcomes
  BY <1>2 DEF Hashing, Outcomes
<1> QED
  BY <1>2, <1>3, <1>4, ValChurn

LEMMA LookChurn == ASSUME Inv, Churn, NEW v \in Ids, ValLook(v) PROVE Churn'
<1>1. /\ val[v].step \in Running /\ val[v] \in ValType /\ Quiet /\ memo' = memo
      /\ UNCHANGED <<payload, retained, flight, call>>
  BY DEF Running, Inv, TypeInv, ValLook
<1>2. CASE payload = None
  <2>1. Settle(v, "miss")
    BY <1>2 DEF ValLook
  <2> QED
    BY <1>1, <1>2, <2>1, ResultChurn DEF Outcomes
<1>3. CASE payload # None
  <2> DEFINE w == [val[v] EXCEPT !.step = "admit", !.id = payload.mtime]
  <2>1. payload.mtime \in {0, 1}
    BY <1>3, PhysOfPayload DEF Inv, TypeInv
  <2>2. w \in ValType /\ w.step = "admit"
    BY <1>1, <2>1 DEF ValType, Running
  <2>3. val' = [val EXCEPT ![v] = w]
    BY <1>3 DEF ValLook
  <2> HIDE DEF w
  <2>4. ~Hashing(w) /\ w.step \in Running
    BY <2>2 DEF Hashing, Running
  <2> QED
    BY <1>1, <2>2, <2>3, <2>4, ValChurn
<1> QED
  BY <1>2, <1>3

LEMMA AdmitChurn == ASSUME Inv, Churn, NEW v \in Ids, ValAdmit(v) PROVE Churn'
<1>1. /\ val[v].step \in Running /\ val[v].step = "admit" /\ val[v] \in ValType /\ Quiet
      /\ payload \in Payload /\ UNCHANGED <<payload, retained, flight, call>>
  BY ThereWhileRunning DEF Running, ValAdmit
<1>2. CASE ~val[v].fits
  <2>1. Settle(v, "error") /\ memo' = [k \in {k \in DOMAIN memo : memo[k] # v} |-> memo[k]]
    BY <1>2 DEF ValAdmit, Fail
  <2> QED
    BY <1>1, <2>1, ResultChurn DEF Outcomes
<1>3. CASE val[v].fits
  <2> DEFINE step == IF AdmissionHolds THEN "verify"
                     ELSE IF PhysOf(payload) \in DOMAIN digests THEN "hashed" ELSE "hash"
             good == \/ AdmissionHolds
                     \/ PhysOf(payload) \in DOMAIN digests /\ digests[PhysOf(payload)]
             b == PhysOf(payload)
             w == [val[v] EXCEPT !.step = step, !.before = b, !.good = good]
  <2>1. val' = [val EXCEPT ![v] = w] /\ memo' = memo
    BY <1>3 DEF ValAdmit
  <2>2. good \in BOOLEAN
    <3>1. \A s \in DOMAIN digests : digests[s] <=> ~Bad(s)
      BY DigestsHold
    <3>2. AdmissionHolds \in BOOLEAN
      BY DEF AdmissionHolds, SameContent, Inv, TypeInv
    <3>3. AdmissionHolds => good
      OBVIOUS
    <3>4. CASE ~AdmissionHolds /\ b \in DOMAIN digests
      BY <3>1, <3>4
    <3>5. CASE ~AdmissionHolds /\ b \notin DOMAIN digests
      BY <3>5
    <3> QED
      BY <3>2, <3>3, <3>4, <3>5
  <2>3. step \in {"verify", "hashed", "hash"}
    OBVIOUS
  <2>4. b \in Phys
    BY <1>1, PhysOfPayload
  <2>5. b = PhysOf(payload)
    OBVIOUS
  <2> HIDE DEF step, good, b
  <2>6. w \in ValType /\ w.step = step /\ w.before = b
    BY <1>1, <2>2, <2>3, <2>4 DEF ValType, Running
  <2> HIDE DEF w
  <2>7. w.step \in Running /\ w.step \notin {"entry", "miss", "changed", "error"}
    BY <2>3, <2>6 DEF Running
  <2> QED
    BY <1>1, <2>1, <2>5, <2>6, <2>7, ValChurn
<1> QED
  BY <1>1, <1>2, <1>3 DEF ValType

LEMMA HashChurn == ASSUME Inv, Churn, NEW v \in Ids, ValHash(v) PROVE Churn'
<1>1. /\ val[v].step \in Running /\ val[v].step = "hash" /\ val[v] \in ValType /\ Quiet
      /\ payload \in Payload /\ UNCHANGED <<payload, retained, flight, call>>
  BY ThereWhileRunning DEF Running, ValHash
<1>2. CASE payload.mtime # val[v].id
  <2>1. Settle(v, "error") /\ memo' = [k \in {k \in DOMAIN memo : memo[k] # v} |-> memo[k]]
    BY <1>2 DEF ValHash, Fail
  <2> QED
    BY <1>1, <2>1, ResultChurn DEF Outcomes
<1>3. CASE payload.mtime = val[v].id
  <2> DEFINE w == [val[v] EXCEPT !.step = "hashed", !.good = payload.good]
  <2>1. val' = [val EXCEPT ![v] = w] /\ memo' = memo
    BY <1>3 DEF ValHash
  <2>2. w \in ValType /\ w.step = "hashed" /\ w.before = val[v].before
    BY <1>1, PhysOfPayload DEF ValType, Running
  <2> HIDE DEF w
  <2>3. Hashing(val[v]) /\ w.step \in Running
    BY <1>1, <2>2 DEF Hashing, Running
  <2> QED
    BY <1>1, <2>1, <2>2, <2>3, ValChurn
<1> QED
  BY <1>2, <1>3

LEMMA HashedChurn == ASSUME Inv, Churn, NEW v \in Ids, ValHashed(v) PROVE Churn'
<1>1. /\ val[v].step \in Running /\ val[v].step = "hashed" /\ val[v] \in ValType /\ Quiet
      /\ Hashing(val[v]) /\ payload \in Payload /\ UNCHANGED <<payload, retained, flight, call>>
  BY ThereWhileRunning DEF Running, ValHashed, Hashing
<1>2. CASE ~SameContent(val[v].before, PhysOf(payload))
  <2> DEFINE s == val[v].before
             t == PhysOf(payload)
  <2>1. Settle(v, "changed") /\ memo' = memo
    BY <1>2 DEF ValHashed
  <2>2. /\ s \in Payload \cup Phys /\ s # None /\ Linked(s) /\ Version(s) <= Version(payload)
    BY <1>1 DEF Inv, ValInv, ValType, Churn, StatesInv
  <2>3. /\ t \in Payload \cup Phys /\ t # None /\ Linked(t) /\ Version(t) = Version(payload)
    BY <1>1, VersionOfPhys, PhysOfPayload DEF Churn, StatesInv
  <2>4. Version(s) + 2 <= Version(t)
    BY <1>2, <2>2, <2>3, ChangesUndone
  <2> QED
    BY <1>1, <2>1, <2>3, <2>4, ResultChurn DEF Outcomes
<1>3. CASE SameContent(val[v].before, PhysOf(payload)) /\ val[v].good
  <2> DEFINE w == [val[v] EXCEPT !.step = "verify"]
  <2>1. val' = [val EXCEPT ![v] = w] /\ memo' = memo
    BY <1>3 DEF ValHashed
  <2>2. w \in ValType /\ w.step = "verify"
    BY <1>1 DEF ValType, Running
  <2> HIDE DEF w
  <2>3. ~Hashing(w) /\ w.step \in Running
    BY <2>2 DEF Hashing, Running
  <2> QED
    BY <1>1, <2>1, <2>2, <2>3, ValChurn
<1>4. CASE SameContent(val[v].before, PhysOf(payload)) /\ ~val[v].good
  <2>1. Settle(v, "error") /\ memo' = [k \in {k \in DOMAIN memo : memo[k] # v} |-> memo[k]]
    BY <1>4 DEF ValHashed, Fail
  <2> QED
    BY <1>1, <2>1, ResultChurn DEF Outcomes
<1> QED
  BY <1>2, <1>3, <1>4

LEMMA VerifyChurn == ASSUME Inv, Churn, NEW v \in Ids, ValVerify(v) PROVE Churn'
<1>1. /\ val[v].step \in Running /\ Quiet /\ payload # None
      /\ UNCHANGED <<payload, retained, flight, call>>
  BY DEF Running, ValVerify, Inv, ValInv
<1>2. CASE payload.mtime # val[v].id
  <2>1. Settle(v, "error") /\ memo' = [k \in {k \in DOMAIN memo : memo[k] # v} |-> memo[k]]
    BY <1>2 DEF ValVerify, Fail
  <2> QED
    BY <1>1, <2>1, ResultChurn DEF Outcomes
<1>3. CASE payload.mtime = val[v].id
  <2>1. Settle(v, "entry") /\ memo' = memo
    BY <1>3 DEF ValVerify
  <2> QED
    BY <1>1, <2>1, ResultChurn DEF Outcomes
<1> QED
  BY <1>2, <1>3

-----------------------------------------------------------------------------
(* The calls.                                                              *)

\* What a step of a call leaves of the memo m and the authentications w: keys may go, and come
\* back for an authentication that begins.
Follows(m1, w1, m, w) ==
    /\ \A k \in DOMAIN m1 : \/ k \in DOMAIN m /\ m1[k] = m[k] /\ w1[m[k]] = w[m[k]]
                            \/ w1[m1[k]].step = "look"
    /\ \A k \in DOMAIN m : w[m[k]].step \in Running => k \in DOMAIN m1 /\ m1[k] = m[k]

LEMMA FollowsLate ==
    ASSUME NEW m1, NEW w1, NEW m, NEW w, Follows(m1, w1, m, w)
    PROVE  /\ \A r, k, n : Late(r, k, m, w, n) => Late(r, k, m1, w1, n)
           /\ \A r : Fresh(r, m, w) => Fresh(r, m1, w1)
<1>1. ASSUME NEW r, NEW k, NEW n, Late(r, k, m, w, n) PROVE Late(r, k, m1, w1, n)
  BY <1>1 DEF Late, Follows, Hashing
<1>2. ASSUME NEW r, Fresh(r, m, w) PROVE Fresh(r, m1, w1)
  BY <1>2 DEF Fresh, Follows
<1> QED
  BY <1>1, <1>2

\* The other calls.
LEMMA OthersJoins ==
    ASSUME NEW m1, NEW w1, NEW m, NEW w, Follows(m1, w1, m, w), NEW r, NEW n,
           JoinsInv(r, m, w, n), r.pc \in Refers => w1[r.val] = w[r.val]
    PROVE  JoinsInv(r, m1, w1, n)
<1>1. Fresh(r, m, w) => Fresh(r, m1, w1)
  BY FollowsLate
<1>2. r.pc = "validating" =>
        (w[r.val].step \in Running => r.key \in DOMAIN m1 /\ m1[r.key] = r.val)
  BY DEF JoinsInv, Follows
<1>3. r.pc = "validating" => r.pc \in Refers
  BY DEF Refers
<1> QED
  BY <1>1, <1>2, <1>3 DEF JoinsInv

LEMMA OthersPairs ==
    ASSUME NEW m1, NEW w1, NEW m, NEW w, Follows(m1, w1, m, w), NEW r, NEW d, NEW n,
           PairInv(r, d, m, w, n), r.pc \in Refers => w1[r.val] = w[r.val]
    PROVE  PairInv(r, d, m1, w1, n)
<1>1. Late(r, d.key, m, w, n) => Late(r, d.key, m1, w1, n)
  BY FollowsLate
<1>2. Fresh(r, m, w) => Fresh(r, m1, w1)
  BY FollowsLate
<1> QED
  BY <1>1, <1>2 DEF PairInv, Refers

\* A caller that is neither captured nor fenced, nor uses what is being authenticated, leaves
\* the others alone.
Harmless(r, m, w) ==
    /\ r.pc \notin {"captured", "fenced"}
    /\ r.pc = "after" /\ r.key \in DOMAIN m => ~Hashing(w[m[r.key]])

LEMMA HarmlessPair ==
    ASSUME NEW m, NEW w, NEW r, NEW d, NEW n, Harmless(d, m, w)
    PROVE  PairInv(r, d, m, w, n)
  BY DEF PairInv, Harmless, Late

LEMMA JoinedReads ==
    ASSUME TypeInv, NEW r, NEW n, ReadsInv(r, flight, n), NEW f \in {flight, Joined}
    PROVE  ReadsInv(r, f, n) /\ (flight # None => f = flight) /\ (Looked(f) => f = flight)
<1>1. CASE f = flight
  BY <1>1
<1>2. CASE flight # None /\ f = Joined
  BY <1>2, Joins
<1>3. CASE flight = None /\ f = Joined
  <2>1. ~Looked(f) /\ ~Looked(flight)
    BY <1>3, Joins DEF Looked
  <2> QED
    BY <1>3, <2>1 DEF ReadsInv
<1> QED
  BY <1>1, <1>2, <1>3

\* A step of the call c, which becomes r.
LEMMA CallChurn ==
    ASSUME Inv, Churn, NEW c \in Callers, NEW r \in CallType, call' = [call EXCEPT ![c] = r],
           payload' = payload, flight' \in {flight, Joined},
           Follows(memo', val', memo, val),
           \A u \in Ids : val'[u] = val[u] \/ val'[u].step = "look",
           \A d \in Callers \ {c} : call[d].pc \in Refers => val'[call[d].val] = val[call[d].val],
           Harmless(r, memo', val'),
           ReadsInv(r, flight, Version(payload)), JoinsInv(r, memo', val', Version(payload)),
           \A d \in Callers \ {c} : PairInv(r, call[d], memo', val', Version(payload)),
           \A k \in DOMAIN memo' :
              \/ val'[memo'[k]].step \notin Running \cup {"changed"}
              \/ r.pc = "validating" /\ r.key = k /\ r.val = memo'[k]
              \/ /\ k \in DOMAIN memo /\ memo'[k] = memo[k] /\ val'[memo[k]] = val[memo[k]]
                 /\ ~ (call[c].pc = "validating" /\ call[c].key = k /\ call[c].val = memo[k]),
           retained' # None =>
              /\ retained'.key[1] # None /\ val'[retained'.val].step = "entry"
              /\ \/ retained' = retained /\ ~ (Second(r) /\ r.pc = "before")
                 \/ /\ call[c].pc = "fenced" /\ retained'.key = call[c].key
                    /\ r.pc \notin {"before", "captured"}
    PROVE  Churn'
<1> DEFINE n == Version(payload)
<1>1. call'[c] = r /\ \A d \in Callers \ {c} : call'[d] = call[d]
  BY DEF Inv, TypeInv
<1>2. \A k \in DOMAIN memo' : memo'[k] = memo[k] \/ val'[memo'[k]].step = "look"
  BY DEF Follows
<1>3. TypeInv
  BY DEF Inv
<1>4. AttemptsInv'
  <2>1. ASSUME NEW d \in Callers
        PROVE  ReadsInv(call'[d], flight', n) /\ JoinsInv(call'[d], memo', val', n)
    <3>1. CASE d = c
      BY <1>1, <1>3, <3>1, JoinedReads
    <3>2. CASE d # c
      <4>1. /\ call'[d] = call[d] /\ ReadsInv(call[d], flight, n)
            /\ JoinsInv(call[d], memo, val, n)
        BY <1>1, <3>2 DEF Churn, AttemptsInv
      <4> QED
        BY <1>3, <3>2, <4>1, JoinedReads, OthersJoins
    <3> QED
      BY <3>1, <3>2
  <2>2. ASSUME NEW d \in Callers, NEW e \in Callers
        PROVE  PairInv(call'[d], call'[e], memo', val', n)
    <3>1. CASE d = c /\ e = c
      BY <1>1, <3>1, HarmlessPair
    <3>2. CASE d = c /\ e # c
      BY <1>1, <3>2
    <3>3. CASE d # c
      <4>1. call'[d] = call[d] /\ PairInv(call[d], call[e], memo, val, n)
        BY <1>1, <3>3 DEF Churn, AttemptsInv
      <4>2. PairInv(call[d], call[e], memo', val', n)
        BY <3>3, <4>1, OthersPairs
      <4>3. PairInv(call[d], r, memo', val', n)
        BY HarmlessPair
      <4> QED
        BY <1>1, <4>1, <4>2, <4>3
    <3> QED
      BY <3>1, <3>2, <3>3
  <2> QED
    BY <2>1, <2>2 DEF AttemptsInv
<1>5. StatesInv'
  <2>1. flight' # None => Linked(flight'.state)
    <3>1. CASE flight' = flight
      BY <3>1 DEF Churn, StatesInv
    <3>2. CASE flight = None /\ flight' = Joined
      BY <1>3, <3>2, Joins DEF Linked
    <3> QED
      BY <1>3, <3>1, <3>2, Joins
  <2>2. "look" \notin {"hash", "hashed", "entry", "changed"}
    OBVIOUS
  <2> QED
    BY <2>1, <2>2 DEF Churn, StatesInv, Hashing
<1>6. KeysInv'
  <2>1. ASSUME NEW k \in DOMAIN memo'
        PROVE  /\ Hashing(val'[memo'[k]]) => Version(k[1]) <= Version(val'[memo'[k]].before)
               /\ val'[memo'[k]].step = "miss" => k[1] = None
    BY DEF Churn, KeysInv, Follows, Hashing
  <2>2. ASSUME NEW k \in DOMAIN memo', val'[memo'[k]].step \in Running \cup {"changed"}
        PROVE  \E d \in Callers : /\ call'[d].pc = "validating" /\ call'[d].key = k
                                  /\ call'[d].val = memo'[k]
    <3>1. CASE r.pc = "validating" /\ r.key = k /\ r.val = memo'[k]
      BY <1>1, <3>1
    <3>2. CASE /\ k \in DOMAIN memo /\ memo'[k] = memo[k] /\ val'[memo[k]] = val[memo[k]]
               /\ ~ (call[c].pc = "validating" /\ call[c].key = k /\ call[c].val = memo[k])
      <4>1. PICK d \in Callers :
              call[d].pc = "validating" /\ call[d].key = k /\ call[d].val = memo[k]
        BY <2>2, <3>2 DEF Churn, KeysInv
      <4> QED
        BY <1>1, <3>2, <4>1
    <3> QED
      BY <2>2, <3>1, <3>2
  <2>3. ASSUME retained' # None, NEW d \in Callers, Second(call'[d]),
               call'[d].pc \in {"before", "captured"}
        PROVE  Late(call'[d], retained'.key, memo', val', n)
    <3>1. CASE retained' = retained
      <4>1. d # c
        BY <1>1, <2>3, <3>1 DEF Harmless
      <4>2. Late(call[d], retained.key, memo, val, n)
        BY <1>1, <2>3, <3>1, <4>1 DEF Churn, KeysInv
      <4> QED
        BY <1>1, <3>1, <4>1, <4>2, FollowsLate
    <3>2. CASE /\ call[c].pc = "fenced" /\ retained'.key = call[c].key
               /\ r.pc \notin {"before", "captured"}
      <4>1. d # c
        BY <1>1, <2>3, <3>2
      <4>2. PairInv(call[d], call[c], memo, val, n)
        BY DEF Churn, AttemptsInv
      <4>3. Late(call[d], call[c].key, memo, val, n)
        BY <1>1, <2>3, <3>2, <4>1, <4>2 DEF PairInv
      <4> QED
        BY <1>1, <3>2, <4>1, <4>3, FollowsLate
    <3> QED
      BY <2>3, <3>1, <3>2
  <2> QED
    BY <2>1, <2>2, <2>3 DEF KeysInv
<1> QED
  BY <1>4, <1>5, <1>6 DEF Churn

LEMMA StartChurn ==
    ASSUME Inv, Churn, NEW c \in Callers, NEW fits \in BOOLEAN, Call(c, fits)
    PROVE  Churn'
<1> DEFINE there == payload # None
           r == [NoCall EXCEPT !.pc = "before", !.fits = fits, !.published = there]
           n == Version(payload)
<1>1. /\ call[c].pc = "idle" /\ call' = [call EXCEPT ![c] = r] /\ flight' = Joined
      /\ UNCHANGED <<admitted, payload, memo, retained, digests, val>>
  BY DEF Call
<1>2. /\ NoCall.before = None /\ NoCall.after = None /\ NoCall.left = Attempts
      /\ NoCall.changes = 0
  BY DEF NoCall
<1>3. there \in BOOLEAN
  OBVIOUS
<1> HIDE DEF there
<1>4. /\ r \in CallType /\ r.pc = "before" /\ r.before = None /\ r.after = None
      /\ r.left = Attempts /\ r.changes = 0
  BY <1>2, <1>3, NoCallType DEF CallType, Pcs
<1> HIDE DEF r
<1>5. Passed(r) = 0 /\ Due(r) = 0 /\ ~Second(r)
  <2>1. Passed(r) = 0
    BY <1>4, ScopeAssumption DEF Passed
  <2>2. Due(r) = 0
    BY <2>1, <1>4, AttemptsPassed
  <2> QED
    BY <2>1, <2>2 DEF Second
<1>6. ReadsInv(r, flight, n)
  <2>1. 0 <= 2 * Attempts
    BY ScopeAssumption
  <2> QED
    BY <1>4, <1>5, <2>1 DEF ReadsInv, Linked, Refers
<1>7. JoinsInv(r, memo, val, n) /\ Harmless(r, memo, val)
  BY <1>4 DEF JoinsInv, Harmless, Refers
<1>8. \A d \in Callers : PairInv(r, call[d], memo, val, n)
  BY <1>4, <1>5 DEF PairInv, Refers
<1>9. Follows(memo, val, memo, val)
  BY DEF Follows
<1>10. retained # None => retained.key[1] # None /\ val[retained.val].step = "entry"
  BY DEF Churn, KeysInv
<1> QED
  BY <1>1, <1>4, <1>5, <1>6, <1>7, <1>8, <1>9, <1>10, CallChurn

LEMMA ReturnChurn == ASSUME Inv, Churn, NEW c \in Callers, Return(c) PROVE Churn'
<1> DEFINE r == NoCall
           n == Version(payload)
<1>1. /\ call[c].pc \in Over /\ call' = [call EXCEPT ![c] = r]
      /\ UNCHANGED <<admitted, payload, memo, retained, digests, flight, val>>
  BY DEF Return
<1>2. /\ r \in CallType /\ r.pc = "idle" /\ r.before = None /\ r.after = None /\ r.changes = 0
  BY NoCallType DEF NoCall
<1> HIDE DEF r
<1>3. ReadsInv(r, flight, n)
  <2>1. 0 <= 2 * Attempts
    BY ScopeAssumption
  <2> QED
    BY <1>2, <2>1 DEF ReadsInv, Linked, Refers, Over
<1>4. JoinsInv(r, memo, val, n) /\ Harmless(r, memo, val)
  BY <1>2 DEF JoinsInv, Harmless, Refers
<1>5. \A d \in Callers : PairInv(r, call[d], memo, val, n)
  BY <1>2 DEF PairInv, Refers
<1>6. Follows(memo, val, memo, val)
  BY DEF Follows
<1>7. retained # None => retained.key[1] # None /\ val[retained.val].step = "entry"
  BY DEF Churn, KeysInv
<1>8. call[c].pc # "validating"
  BY <1>1 DEF Over
<1> QED
  BY <1>1, <1>2, <1>3, <1>4, <1>5, <1>6, <1>7, <1>8, CallChurn

\* A call that forgets its authentication, which is over, if it does.
LEMMA ForgetFollows ==
    ASSUME NEW k, NEW v, val[v].step \notin Running, NEW m \in {memo, Forget(k, v)}
    PROVE  /\ Follows(m, val, memo, val) /\ Within(m, memo)
           /\ m = Forget(k, v) => \A x \in DOMAIN m : ~ (x = k /\ memo[x] = v)
<1>1. CASE m = memo
  BY <1>1 DEF Follows, Within, Forget, Without
<1>2. CASE m # memo /\ m = Without(memo, k) /\ k \in DOMAIN memo /\ memo[k] = v
  BY <1>2 DEF Follows, Within, Without
<1> QED
  BY <1>1, <1>2 DEF Forget

LEMMA EndedCounts ==
    ASSUME NEW r \in CallType, NEW pc \in Pcs, NEW left \in 1..Attempts,
           NEW after \in Payload \cup {None}
    PROVE  Ended(r, pc, left, after).left = left /\ Ended(r, pc, left, after).changes = r.changes
  BY DEF Ended, Cleared, CallType

\* The end of an attempt, with pc, that refers to no authentication any more.
LEMMA EndedChurn ==
    ASSUME Inv, Churn, NEW c \in Callers, call[c].pc \in {"validating", "fenced"},
           val[call[c].val].step \notin Running,
           NEW pc \in {"before"} \cup (Over \ {"idle"}), NEW left \in 1..Attempts,
           NEW after \in Payload \cup {None}, Ends(c, pc, left, after),
           memo' \in {memo, Forget(call[c].key, call[c].val)},
           val[call[c].val].step = "changed" => memo' = Forget(call[c].key, call[c].val),
           ReadsInv(Ended(call[c], pc, left, after), flight, Version(payload)),
           \A d \in Callers \ {c} :
              PairInv(Ended(call[c], pc, left, after), call[d], memo', val, Version(payload)),
           retained' # None =>
              /\ pc # "before" /\ retained'.key[1] # None /\ val[retained'.val].step = "entry"
              /\ retained' = retained \/ (call[c].pc = "fenced" /\ retained'.key = call[c].key)
    PROVE  Churn'
<1> DEFINE r == Ended(call[c], pc, left, after)
           n == Version(payload)
<1>1. call[c] \in CallType
  BY CallHolds
<1>2. pc \in Pcs /\ pc \notin Refers \cup {"captured"}
  BY DEF Pcs, Over, Refers
<1>3. r \in CallType /\ r.pc = pc
  BY <1>1, <1>2, EndedType
<1>4. /\ call' = [call EXCEPT ![c] = r] /\ flight' \in {flight, Joined}
      /\ payload' = payload /\ val' = val
  BY DEF Ends
<1>5. ReadsInv(r, flight, n) /\ \A d \in Callers \ {c} : PairInv(r, call[d], memo', val, n)
  OBVIOUS
<1> HIDE DEF r
<1>6. /\ Follows(memo', val, memo, val) /\ Within(memo', memo)
      /\ memo' = Forget(call[c].key, call[c].val)
            => \A x \in DOMAIN memo' : ~ (x = call[c].key /\ memo[x] = call[c].val)
  BY ForgetFollows
<1>7. JoinsInv(r, memo', val, n) /\ Harmless(r, memo', val)
  BY <1>2, <1>3 DEF JoinsInv, Harmless, Refers
<1>8. ASSUME NEW k \in DOMAIN memo', val[memo'[k]].step \in Running \cup {"changed"}
      PROVE  /\ k \in DOMAIN memo /\ memo'[k] = memo[k]
             /\ ~ (call[c].pc = "validating" /\ call[c].key = k /\ call[c].val = memo[k])
  BY <1>6, <1>8 DEF Within
<1>9. retained' # None =>
         /\ retained'.key[1] # None /\ val'[retained'.val].step = "entry"
         /\ \/ retained' = retained /\ ~ (Second(r) /\ r.pc = "before")
            \/ /\ call[c].pc = "fenced" /\ retained'.key = call[c].key
               /\ r.pc \notin {"before", "captured"}
  BY <1>2, <1>3, <1>4
<1>10. \A k \in DOMAIN memo' :
         \/ val'[memo'[k]].step \notin Running \cup {"changed"}
         \/ r.pc = "validating" /\ r.key = k /\ r.val = memo'[k]
         \/ /\ k \in DOMAIN memo /\ memo'[k] = memo[k] /\ val'[memo[k]] = val[memo[k]]
            /\ ~ (call[c].pc = "validating" /\ call[c].key = k /\ call[c].val = memo[k])
  BY <1>4, <1>8
<1> QED
  BY <1>3, <1>4, <1>5, <1>6, <1>7, <1>9, <1>10, CallChurn

\* An attempt that failed: for two changes, if it was the second of its pair.
LEMMA AgainChurn ==
    ASSUME Inv, Churn, NEW c \in Callers, call[c].pc \in {"validating", "fenced"}, Again(c),
           UNCHANGED <<admitted, payload, digests, val>>,
           memo' = Forget(call[c].key, call[c].val), retained' = None,
           val[call[c].val].step \notin Running,
           Version(payload) >= 1, Looked(flight) => Version(payload) >= 3,
           Second(call[c]) => Due(call[c]) + 2 <= call[c].changes,
           \A d \in Callers : call[d].pc = "fenced" => call[c].pc = "fenced"
    PROVE  Churn'
<1> DEFINE r == call[c]
           n == Version(payload)
<1>1. /\ r \in CallType /\ call \in [Callers -> CallType] /\ ReadsInv(r, flight, n)
      /\ \A d \in Callers : PairInv(r, call[d], memo, val, n)
      /\ \A k : Late(r, k, memo, val, n) => Late(r, k, memo', val, n)
  <2>1. Follows(memo', val, memo, val)
    BY ForgetFollows
  <2> QED
    BY <2>1, FollowsLate, CallHolds DEF TypeInv, Churn, AttemptsInv
<1>2. Seen(PhysOf(None), payload) /\ Faithful(None) /\ None \in Payload \cup {None}
      /\ Linked(None)
  BY PhysOfNone DEF Seen, Faithful, Linked
<1>3. r.pc \notin Over /\ r.pc \in Refers
  BY DEF Over, Refers
<1>4. Due(r) <= r.changes /\ r.changes <= 2 * Attempts
  BY <1>1, <1>3 DEF ReadsInv
<1>5. Looked(flight) /\ ~Second(r) => Since(r, flight.state, n)
  BY <1>1, <1>3 DEF ReadsInv
<1>6. CASE r.left = 1
  <2> DEFINE x == Ended(r, "gaveUp", r.left, None)
  <2>1. /\ [Cleared(r) EXCEPT !.pc = "gaveUp"] = x /\ flight' = flight
    BY <1>1, <1>6 DEF Again, Ended, Cleared, CallType
  <2>2. Ends(c, "gaveUp", r.left, None)
    BY <1>1, <1>2, <1>6, <2>1 DEF Again, Ends
  <2>3. "gaveUp" \in Over \ {"idle"} /\ r.left \in 1..Attempts /\ "gaveUp" \in Pcs
    BY <1>1 DEF Over, CallType, Pcs
  <2>4. /\ x.pc = "gaveUp" /\ x.before = None /\ x.after = None /\ x.changes = r.changes
    BY <1>1, <1>2, <2>3, EndedType, EndedCounts
  <2>5. x.changes >= 2 * (Attempts \div 2)
    BY <1>1, <1>4, <1>6, <2>4, LastAttempt
  <2> HIDE DEF x
  <2>6. ReadsInv(x, flight, n)
    BY <1>2, <1>4, <2>3, <2>4, <2>5 DEF ReadsInv, Refers
  <2>7. \A d \in Callers : PairInv(x, call[d], memo', val, n)
    BY <2>4 DEF PairInv, Refers
  <2> QED
    BY <1>2, <2>2, <2>3, <2>6, <2>7, EndedChurn DEF x
<1>7. CASE r.left # 1
  <2> DEFINE i == r.left - 1
             x == Ended(r, "before", i, None)
  <2>1. [Cleared(r) EXCEPT !.pc = "before", !.left = i] = x
    BY <1>1 DEF Ended, Cleared, CallType
  <2>2. call' = [call EXCEPT ![c] = [Cleared(r) EXCEPT !.pc = "before", !.left = i]]
        /\ flight' = Joined
    BY <1>1, <1>7 DEF Again
  <2>3. i \in 1..Attempts /\ i = r.left - 1
    BY <1>1, <1>7, ScopeAssumption DEF CallType
  <2>4. "before" \in Pcs
    BY DEF Pcs
  <2> HIDE DEF i
  <2>5. /\ x \in CallType /\ x.pc = "before" /\ x.before = None /\ x.after = None
        /\ x.changes = r.changes /\ x.left = i
    BY <1>1, <1>2, <2>3, <2>4, EndedType, EndedCounts
  <2>6. Ends(c, "before", i, None)
    BY <1>2, <2>1, <2>2 DEF Ends
  <2> HIDE DEF x
  <2>7. IF Second(r) THEN ~Second(x) /\ Due(x) = Due(r) + 2
                     ELSE Second(x) /\ Due(x) = Due(r) /\ Passed(x) > 0
    BY <1>1, <2>3, <2>5, NextAttempt
  <2>8. Second(x) => ~Second(r) /\ \A s : Since(r, s, n) => Since(x, s, n)
    BY <2>5, <2>7 DEF Since
  <2>9. Due(x) <= x.changes
    BY <1>4, <2>5, <2>7
  <2>10. ReadsInv(x, flight, n)
    BY <1>2, <1>4, <1>5, <2>5, <2>8, <2>9 DEF ReadsInv, Over, Refers
  <2>11. ASSUME NEW d \in Callers PROVE PairInv(x, call[d], memo', val, n)
    <3> SUFFICES ASSUME Second(x), call[d].pc \in {"fenced", "after"}
                 PROVE  Late(x, call[d].key, memo', val, n)
      BY <2>5 DEF PairInv, Refers
    <3>1. Late(r, call[d].key, memo, val, n)
      BY <1>1, <1>3, <2>8 DEF PairInv
    <3> QED
      BY <1>1, <2>8, <3>1 DEF Late
  <2> QED
    BY <1>2, <2>3, <2>6, <2>10, <2>11, EndedChurn DEF x
<1> QED
  BY <1>6, <1>7

LEMMA ValidatedChurn == ASSUME Inv, Churn, NEW c \in Callers, Validated(c) PROVE Churn'
<1> DEFINE r == call[c]
           result == val[r.val].step
           n == Version(payload)
<1>1. r.pc = "validating" /\ UNCHANGED <<admitted, payload, digests, val>>
  BY DEF Validated
<1>2. /\ r \in CallType /\ call \in [Callers -> CallType] /\ n \in Nat
      /\ ReadsInv(r, flight, n) /\ JoinsInv(r, memo, val, n)
      /\ \A d \in Callers : PairInv(r, call[d], memo, val, n)
  BY CallHolds, VersionIsNat DEF TypeInv, Churn, AttemptsInv
<1>3. retained # None => retained.key[1] # None /\ val[retained.val].step = "entry"
  BY DEF Churn, KeysInv
<1>4. CASE result = "error" /\ UNCHANGED <<memo, retained, flight>>
           /\ call' = [call EXCEPT ![c] = [Cleared(@) EXCEPT !.pc = "threw"]]
  <2> DEFINE x == Ended(r, "threw", r.left, None)
  <2>1. [Cleared(r) EXCEPT !.pc = "threw"] = x
    BY <1>2 DEF Ended, Cleared, CallType
  <2>2. Seen(PhysOf(None), payload) /\ Faithful(None) /\ None \in Payload \cup {None}
        /\ Linked(None)
    BY PhysOfNone DEF Seen, Faithful, Linked
  <2>3. Ends(c, "threw", r.left, None)
    BY <1>1, <1>2, <1>4, <2>1, <2>2 DEF Ends
  <2>4. "threw" \in Over \ {"idle"} /\ r.left \in 1..Attempts /\ "threw" \in Pcs
    BY <1>2 DEF Over, CallType, Pcs
  <2>5. x.pc = "threw" /\ x.before = None /\ x.after = None /\ x.changes = r.changes
    BY <1>2, <2>2, <2>4, EndedType, EndedCounts
  <2>6. r.changes <= 2 * Attempts
    BY <1>2 DEF ReadsInv
  <2>7. memo' \in {memo, Forget(r.key, r.val)} /\ result \notin Running /\ result # "changed"
    BY <1>4 DEF Running
  <2> HIDE DEF x
  <2>8. ReadsInv(x, flight, n)
    BY <2>2, <2>4, <2>5, <2>6 DEF ReadsInv, Refers
  <2>9. \A d \in Callers : PairInv(x, call[d], memo', val, n)
    BY <2>5 DEF PairInv, Refers
  <2> QED
    BY <1>1, <1>3, <1>4, <2>2, <2>3, <2>4, <2>7, <2>8, <2>9, EndedChurn DEF x
<1>5. CASE result = "changed" /\ memo' = Forget(r.key, r.val) /\ retained' = None /\ Again(c)
  <2>1. n >= 3 /\ (Second(r) => r.changes >= Due(r) + 2)
    BY <1>1, <1>2, <1>5 DEF JoinsInv
  <2>2. \A d \in Callers : call[d].pc # "fenced"
    BY <1>1, <1>2, <1>5 DEF PairInv
  <2>3. Second(r) => Due(r) + 2 <= r.changes
    BY <1>2, <2>1, AttemptsPassed
  <2>4. n >= 1 /\ result \notin Running
    BY <1>2, <1>5, <2>1 DEF Running
  <2> QED
    BY <1>1, <1>5, <2>1, <2>2, <2>3, <2>4, AgainChurn
<1>6. CASE result \in {"entry", "miss"} /\ flight' = Joined /\ UNCHANGED <<memo, retained>>
           /\ call' = [call EXCEPT ![c].pc = "after"]
  <2> DEFINE x == [r EXCEPT !.pc = "after"]
  <2>1. call' = [call EXCEPT ![c] = x]
    BY <1>2, <1>6
  <2>2. /\ x \in CallType /\ x.pc = "after" /\ x.before = r.before /\ x.key = r.key
        /\ x.after = r.after /\ x.val = r.val /\ SameCount(x, r)
    BY <1>2 DEF CallType, Pcs, Refers, SameCount
  <2>3. Fresh(r, memo, val)
    BY <1>1, <1>2, <1>6 DEF JoinsInv
  <2> HIDE DEF x
  <2>4. /\ Passed(x) = Passed(r) /\ Due(x) = Due(r) /\ (Second(x) <=> Second(r))
        /\ \A s, i : Since(x, s, i) <=> Since(r, s, i)
        /\ \A k, m, w, i : Late(x, k, m, w, i) <=> Late(r, k, m, w, i)
        /\ x.changes = r.changes
    BY <2>2, SameCounts DEF SameCount
  <2>5. ReadsInv(x, flight, n)
    BY <1>1, <1>2, <2>2, <2>4 DEF ReadsInv, Over, Refers
  <2>6. JoinsInv(x, memo, val, n)
    BY <1>1, <1>2, <2>2 DEF JoinsInv, Refers
  <2>7. Harmless(x, memo, val)
    BY <1>6, <2>2, <2>3 DEF Harmless, Fresh, Hashing
  <2>8. \A d \in Callers : PairInv(x, call[d], memo, val, n)
    <3>1. Fresh(x, memo, val)
      BY <2>2, <2>3 DEF Fresh
    <3> QED
      BY <1>1, <1>2, <2>2, <2>4, <3>1 DEF PairInv, Refers
  <2>9. Follows(memo, val, memo, val)
    BY DEF Follows
  <2>10. \A k \in DOMAIN memo :
            \/ val[memo[k]].step \notin Running \cup {"changed"}
            \/ ~ (r.pc = "validating" /\ r.key = k /\ r.val = memo[k])
    BY <1>6 DEF Running
  <2>11. /\ payload' = payload /\ flight' \in {flight, Joined} /\ memo' = memo /\ val' = val
         /\ retained' = retained /\ x.pc # "before" /\ x \in CallType
    BY <1>1, <1>6, <2>2
  <2>12. retained' # None =>
            /\ retained'.key[1] # None /\ val'[retained'.val].step = "entry"
            /\ retained' = retained /\ ~ (Second(x) /\ x.pc = "before")
    BY <1>3, <2>11
  <2>13. \A k \in DOMAIN memo' :
            \/ val'[memo'[k]].step \notin Running \cup {"changed"}
            \/ /\ k \in DOMAIN memo /\ memo'[k] = memo[k] /\ val'[memo[k]] = val[memo[k]]
               /\ ~ (call[c].pc = "validating" /\ call[c].key = k /\ call[c].val = memo[k])
    BY <2>10, <2>11
  <2> HIDE DEF r, n, result
  <2> QED
    BY <2>1, <2>5, <2>6, <2>7, <2>8, <2>9, <2>11, <2>12, <2>13, CallChurn DEF n
<1> QED
  BY <1>4, <1>5, <1>6 DEF Validated

\* What the fence of an attempt that failed found.
LEMMA UnstableFails ==
    ASSUME Inv, Churn, NEW c \in Callers, call[c].pc = "fenced", ~Stable(c)
    PROVE  Version(payload) >= 1 /\ (Second(call[c]) => Due(call[c]) + 2 <= call[c].changes)
<1> DEFINE r == call[c]
           n == Version(payload)
           b == r.before
           a == r.after
           w == val[r.val]
<1>1. /\ r \in CallType /\ ReadsInv(r, flight, n) /\ JoinsInv(r, memo, val, n)
      /\ b \in Phys \cup {None} /\ a \in Payload \cup {None} /\ r.val \in Ids
      /\ w.step \in {"entry", "miss"} /\ Seen(b, payload) /\ Seen(PhysOf(a), payload)
  BY CallHolds DEF Churn, AttemptsInv, CallInv, Refers, CallType
<1>2. /\ Linked(b) /\ Linked(a) /\ Version(b) <= Version(a)
      /\ Second(r) => Since(r, b, n) /\ (b = None => n >= 3)
      /\ w.step = "miss" => b = None
      /\ w.step = "entry" => payload # None
  BY <1>1 DEF ReadsInv, JoinsInv, Refers, Churn, StatesInv
<1>3. /\ n \in Nat /\ (n = 0 <=> payload = None) /\ payload \in Payload \cup {None}
      /\ Version(b) \in Nat /\ Version(a) \in Nat
      /\ b # None => Version(b) >= 1
      /\ a = None => Version(a) = 0
  <2>1. payload \in Payload \cup {None}
    BY DEF Inv, TypeInv
  <2> HIDE DEF a, b
  <2> QED
    BY <1>1, <2>1, VersionIsNat
<1>4. /\ PhysOf(a) \in Phys \cup {None} /\ Version(PhysOf(a)) = Version(a) /\ Linked(PhysOf(a))
      /\ (PhysOf(a) = None <=> a = None)
  BY <1>1, <1>2, VersionOfPhys
<1>5. ~ (Retains(b, PhysOf(a)) /\ ((w.step = "miss") = (a = None)))
  BY DEF Stable
<1> HIDE DEF r, n, b, a, w
<1>6. Version(a) <= n
  <2>1. CASE a = None
    BY <1>3, <2>1
  <2>2. CASE a # None
    <3>1. PhysOf(a).ctime <= payload.ctime /\ payload # None
      BY <1>1, <1>4, <2>2 DEF Seen
    <3> QED
      BY <1>3, <1>4, <2>2, <3>1, VersionIsNat DEF Version, n
  <2> QED
    BY <2>1, <2>2
<1>7. payload # None
  <2> SUFFICES ASSUME payload = None PROVE FALSE
    OBVIOUS
  <2>1. b = None /\ a = None /\ PhysOf(a) = None
    BY <1>1, <1>4 DEF Seen
  <2>2. w.step = "miss"
    BY <1>1, <1>2
  <2> QED
    BY <1>5, <2>1, <2>2 DEF Retains
<1>8. ASSUME Second(r) PROVE Version(b) + 2 <= n
  <2>1. CASE b = None
    <3>1. Version(b) = 0
      BY <2>1 DEF Version
    <3> QED
      BY <1>2, <1>3, <1>8, <2>1, <3>1
  <2>2. CASE b # None
    <3>1. a # None /\ w.step # "miss"
      BY <1>2, <1>3, <2>2
    <3>2. ~SameContent(b, PhysOf(a))
      BY <1>4, <1>5, <2>2, <3>1 DEF Retains
    <3>3. Version(b) + 2 <= Version(PhysOf(a))
      BY <1>1, <1>2, <1>4, <2>2, <3>1, <3>2, ChangesUndone
    <3> QED
      BY <1>3, <1>4, <1>6, <3>3
  <2> QED
    BY <2>1, <2>2
<1>9. Second(r) => Due(r) + 2 <= r.changes
  BY <1>1, <1>2, <1>3, <1>8, SinceFails
<1>10. n >= 1
  BY <1>3, <1>7
<1> QED
  BY <1>9, <1>10 DEF r, n

LEMMA ConcludedChurn == ASSUME Inv, Churn, NEW c \in Callers, Concluded(c) PROVE Churn'
<1> DEFINE r == call[c]
           w == val[r.val]
           a == r.after
           n == Version(payload)
<1>1. r.pc = "fenced" /\ UNCHANGED <<admitted, payload, digests, val>>
  BY DEF Concluded
<1>2. /\ r \in CallType /\ call \in [Callers -> CallType] /\ r.left \in 1..Attempts
      /\ w.step \in {"entry", "miss"} /\ w.step \notin Running /\ w.step # "changed"
      /\ a \in Payload \cup {None} /\ Seen(PhysOf(a), payload) /\ Faithful(a)
      /\ ReadsInv(r, flight, n) /\ JoinsInv(r, memo, val, n)
  BY <1>1, CallHolds DEF TypeInv, CallInv, CallType, Refers, Running, Churn, AttemptsInv
<1>3. ~Looked(flight) /\ Linked(a) /\ r.changes <= 2 * Attempts
  BY <1>1, <1>2 DEF ReadsInv
<1>4. retained # None => retained.key[1] # None /\ val[retained.val].step = "entry"
  BY DEF Churn, KeysInv
<1>5. CASE ~Stable(c)
  <2>1. memo' = Forget(r.key, r.val) /\ retained' = None /\ Again(c)
    BY <1>5 DEF Concluded
  <2>2. n >= 1 /\ (Second(r) => Due(r) + 2 <= r.changes)
    BY <1>1, <1>5, UnstableFails
  <2> QED
    BY <1>1, <1>2, <1>3, <2>1, <2>2, AgainChurn
\* What is done is neither counted nor waited for.
<1>6. ASSUME NEW pc \in {"entry", "threw", "miss"}
      PROVE  /\ pc \in Over \ {"idle"} /\ pc \in Pcs
             /\ ReadsInv(Ended(r, pc, r.left, a), flight, n)
             /\ \A d \in Callers : PairInv(Ended(r, pc, r.left, a), call[d], memo', val, n)
  <2> DEFINE x == Ended(r, pc, r.left, a)
  <2>1. pc \in Over \ {"idle"} /\ pc \in Pcs
    BY DEF Over, Pcs
  <2>2. x.pc = pc /\ x.before = None /\ x.after = a /\ x.changes = r.changes
    BY <1>2, <2>1, EndedType, EndedCounts
  <2> HIDE DEF x
  <2>3. ReadsInv(x, flight, n)
    BY <1>3, <2>1, <2>2 DEF ReadsInv, Refers, Linked
  <2>4. \A d \in Callers : PairInv(x, call[d], memo', val, n)
    BY <2>2 DEF PairInv, Refers
  <2> QED
    BY <2>1, <2>3, <2>4 DEF x
<1>7. CASE Stable(c) /\ w.step = "entry"
  <2> DEFINE pc == IF r.fits THEN "entry" ELSE "threw"
             t == [state |-> PhysOf(a), val |-> r.val, key |-> r.key]
  <2>1. memo' = memo /\ flight' = flight /\ retained' = t
        /\ call' = [call EXCEPT ![c] = [Cleared(@) EXCEPT !.pc = pc, !.after = a]]
    BY <1>2, <1>7 DEF Concluded, Fits, CallType
  <2>2. [Cleared(r) EXCEPT !.pc = pc, !.after = a] = Ended(r, pc, r.left, a)
    BY <1>2 DEF Ended, Cleared, CallType
  <2>3. pc \in {"entry", "threw", "miss"} /\ pc # "before"
    OBVIOUS
  <2>4. a # None /\ Retains(r.before, PhysOf(a))
    BY <1>7 DEF Stable
  <2>5. r.before # None
    BY <1>2, <2>4, PhysOfPayload DEF Retains
  <2>6. r.key[1] # None
    BY <1>1, <1>2, <2>5 DEF JoinsInv, Refers
  <2>7. retained'.key = r.key /\ retained'.val = r.val
    BY <2>1
  <2> HIDE DEF pc, t, a
  <2>8. Ends(c, pc, r.left, a)
    BY <1>1, <1>2, <2>1, <2>2, <2>3 DEF Ends
  <2> QED
    BY <1>1, <1>2, <1>6, <1>7, <2>1, <2>3, <2>6, <2>7, <2>8, EndedChurn
<1>8. CASE Stable(c) /\ w.step = "miss"
  <2>1. /\ memo' = Forget(r.key, r.val) /\ flight' = flight
        /\ retained' = retained \/ retained' = None
        /\ call' = [call EXCEPT ![c] = [Cleared(@) EXCEPT !.pc = "miss", !.after = a]]
    BY <1>8 DEF Concluded
  <2>2. [Cleared(r) EXCEPT !.pc = "miss", !.after = a] = Ended(r, "miss", r.left, a)
    BY <1>2 DEF Ended, Cleared, CallType
  <2> HIDE DEF a
  <2>3. Ends(c, "miss", r.left, a)
    BY <1>1, <1>2, <2>1, <2>2 DEF Ends
  <2> QED
    BY <1>1, <1>2, <1>4, <1>6, <2>1, <2>3, EndedChurn
<1> QED
  BY <1>2, <1>5, <1>7, <1>8

\* A validation that nothing refers to.
LEMMA FreeIsUnused ==
    ASSUME Free # {}
    PROVE  /\ Min(Free) \in Ids /\ \A k \in DOMAIN memo : memo[k] # Min(Free)
           /\ \A d \in Callers : call[d].pc \in Refers => call[d].val # Min(Free)
           /\ retained # None => retained.val # Min(Free)
<1> DEFINE v == Min(Free)
<1>1. v \in Free
  BY Types, MinIsLeast DEF Free
<1> HIDE DEF v
<1>2. v \in Ids /\ (\A k \in DOMAIN memo : memo[k] # v) /\ (retained # None => retained.val # v)
      /\ \A d \in Callers : call[d].pc \in Refers => call[d].val # v
  BY <1>1 DEF Free, Refers
<1> QED
  BY <1>2 DEF v

LEMMA CapturedChurn == ASSUME Inv, Churn, NEW c \in Callers, Captured(c) PROVE Churn'
<1> DEFINE before == call[c].before
           reuse == retained # None /\ Retains(retained.state, before)
           kept == IF retained # None /\ ~reuse THEN Forget(retained.key, retained.val) ELSE memo
           key == IF reuse THEN retained.key ELSE <<before, call[c].fits>>
           n == Version(payload)
<1>1. /\ call[c].pc = "captured" /\ retained' = (IF reuse THEN retained ELSE None)
      /\ UNCHANGED <<admitted, payload, digests, flight>>
      /\ \/ key \in DOMAIN kept /\ memo' = kept /\ val' = val
            /\ call' = [call EXCEPT ![c] = Validates(@, key, kept[key])]
         \/ /\ key \notin DOMAIN kept /\ Free # {} /\ memo' = With(kept, key, Min(Free))
            /\ val' = [val EXCEPT
                         ![Min(Free)] = [NoVal EXCEPT !.step = "look", !.fits = call[c].fits]]
            /\ call' = [call EXCEPT ![c] = Validates(@, key, Min(Free))]
  BY DEF Captured
<1>2. /\ call[c] \in CallType /\ call \in [Callers -> CallType] /\ val \in [Ids -> ValType]
      /\ call[c].fits \in BOOLEAN /\ before \in Phys \cup {None} /\ n \in Nat
      /\ retained # None => retained.key \in Keys
      /\ \A k \in DOMAIN memo : memo[k] \in Ids
      /\ ReadsInv(call[c], flight, n)
  BY CallHolds, VersionIsNat DEF TypeInv, CallType, Retained, Churn, AttemptsInv
<1>3. retained # None => /\ retained.key[1] # None /\ val[retained.val].step = "entry"
                         /\ Second(call[c]) => Late(call[c], retained.key, memo, val, n)
  BY <1>1 DEF Churn, KeysInv
<1>4. Follows(kept, val, memo, val) /\ Within(kept, memo)
  <2>1. retained # None => val[retained.val].step \notin Running
    BY <1>3 DEF Running
  <2>2. CASE retained # None /\ ~reuse
    BY <2>1, <2>2, ForgetFollows
  <2>3. CASE ~ (retained # None /\ ~reuse)
    BY <2>3 DEF Follows, Within
  <2> QED
    BY <2>2, <2>3
\* Nobody is to be told of a change before this call is.
<1>5. \A k \in DOMAIN memo : val[memo[k]].step # "changed"
  <2> SUFFICES ASSUME NEW k \in DOMAIN memo, val[memo[k]].step = "changed" PROVE FALSE
    OBVIOUS
  <2>1. PICK d \in Callers : call[d].pc = "validating" /\ call[d].key = k /\ call[d].val = memo[k]
    BY DEF Churn, KeysInv
  <2>2. PairInv(call[d], call[c], memo, val, n)
    BY DEF Churn, AttemptsInv
  <2> QED
    BY <1>1, <2>1, <2>2 DEF PairInv
<1>6. key \in Keys /\ (key[1] = None => before = None)
  <2>1. CASE reuse
    BY <1>2, <1>3, <2>1
  <2>2. CASE ~reuse
    BY <1>2, <2>2 DEF Keys
  <2> QED
    BY <2>1, <2>2
\* An authentication of the key has read nothing before this call's due.
<1>7. ASSUME Second(call[c]), key \in DOMAIN kept, Hashing(val[kept[key]])
      PROVE  Since(call[c], val[kept[key]].before, n)
  <2>1. key \in DOMAIN memo /\ kept[key] = memo[key] /\ memo[key] \in Ids
    BY <1>2, <1>4, <1>7 DEF Within
  <2>2. CASE reuse
    BY <1>3, <1>7, <2>1, <2>2 DEF Late
  <2>3. CASE ~reuse
    <3>1. Since(call[c], before, n)
      BY <1>1, <1>2, <1>7 DEF ReadsInv
    <3>2. Version(before) <= Version(val[memo[key]].before)
      BY <1>7, <2>1, <2>3 DEF Churn, KeysInv
    <3>3. val[memo[key]].before \in Phys \cup {None}
      BY <1>2, <2>1 DEF ValType
    <3> HIDE DEF before, key
    <3> QED
      BY <1>2, <2>1, <3>1, <3>2, <3>3, SinceLater
  <2> QED
    BY <2>2, <2>3
<1>8. \A d \in Callers : call[d].pc = "after" =>
         Fresh(call[d], memo, val) /\ ~Hashing(val[call[d].val])
  <2> SUFFICES ASSUME NEW d \in Callers, call[d].pc = "after"
               PROVE  Fresh(call[d], memo, val) /\ ~Hashing(val[call[d].val])
    OBVIOUS
  <2>1. PairInv(call[d], call[c], memo, val, n) /\ CallInv(call[d], payload, flight, val)
    BY CallHolds DEF Churn, AttemptsInv
  <2> QED
    BY <1>1, <2>1 DEF PairInv, CallInv, Hashing
<1>9. PICK v \in Ids :
         /\ call' = [call EXCEPT ![c] = Validates(call[c], key, v)]
         /\ key \in DOMAIN memo' /\ memo'[key] = v /\ Follows(memo', val', memo, val)
         /\ \A u \in Ids : val'[u] = val[u] \/ val'[u].step = "look"
         /\ \A d \in Callers : call[d].pc \in Refers => val'[call[d].val] = val[call[d].val]
         /\ retained # None => val'[retained.val] = val[retained.val]
         /\ \/ key \in DOMAIN kept /\ v = kept[key] /\ val'[v] = val[v]
            \/ val'[v].step = "look"
         /\ \A k \in DOMAIN memo' :
               \/ k = key
               \/ k \in DOMAIN memo /\ memo'[k] = memo[k] /\ val'[memo[k]] = val[memo[k]]
  <2> HIDE DEF key, kept, reuse, before
  <2>1. CASE key \in DOMAIN kept /\ memo' = kept /\ val' = val
             /\ call' = [call EXCEPT ![c] = Validates(@, key, kept[key])]
    <3>1. kept[key] \in Ids
      BY <1>2, <1>4, <2>1 DEF Within
    <3>2. call' = [call EXCEPT ![c] = Validates(call[c], key, kept[key])]
      BY <1>2, <2>1
    <3>3. \A k \in DOMAIN memo' : k \in DOMAIN memo /\ memo'[k] = memo[k]
      BY <1>4, <2>1 DEF Within
    <3>4. key \in DOMAIN memo' /\ memo'[key] = kept[key] /\ Follows(memo', val', memo, val)
      BY <1>4, <2>1
    <3> QED
      BY <2>1, <3>1, <3>2, <3>3, <3>4
  <2>2. CASE /\ key \notin DOMAIN kept /\ Free # {} /\ memo' = With(kept, key, Min(Free))
             /\ val' = [val EXCEPT
                          ![Min(Free)] = [NoVal EXCEPT !.step = "look", !.fits = call[c].fits]]
             /\ call' = [call EXCEPT ![c] = Validates(@, key, Min(Free))]
    <3> DEFINE v == Min(Free)
               w == [NoVal EXCEPT !.step = "look", !.fits = call[c].fits]
    <3>1. /\ v \in Ids /\ \A k \in DOMAIN memo : memo[k] # v
          /\ \A d \in Callers : call[d].pc \in Refers => call[d].val # v
          /\ retained # None => retained.val # v
      BY <2>2, FreeIsUnused
    <3>2. w.step = "look"
      BY <1>2, SettledType
    <3>3. /\ val' = [val EXCEPT ![v] = w] /\ memo' = With(kept, key, v)
          /\ call' = [call EXCEPT ![c] = Validates(call[c], key, v)]
      BY <1>2, <2>2
    <3> HIDE DEF v, w
    <3>4. val'[v].step = "look" /\ \A u : u # v => val'[u] = val[u]
      BY <1>2, <3>1, <3>2, <3>3
    <3>5. /\ DOMAIN memo' = DOMAIN kept \cup {key} /\ memo'[key] = v
          /\ \A k \in DOMAIN kept : memo'[k] = memo[k] /\ k \in DOMAIN memo /\ k # key
      BY <1>4, <2>2, <3>3 DEF With, Within
    <3>6. \A k \in DOMAIN memo' :
             k = key \/ (k \in DOMAIN memo /\ memo'[k] = memo[k] /\ val'[memo[k]] = val[memo[k]])
      BY <3>1, <3>4, <3>5
    <3>7. Follows(memo', val', memo, val)
      BY <1>4, <3>4, <3>5, <3>6 DEF Follows, Within
    <3> QED
      BY <3>1, <3>3, <3>4, <3>5, <3>6, <3>7
  <2> QED
    BY <1>1, <2>1, <2>2
<1> DEFINE r == Validates(call[c], key, v)
<1>10. /\ r \in CallType /\ r.pc = "validating" /\ r.val = v /\ r.key = key
       /\ r.before = before /\ r.after = call[c].after /\ SameCount(r, call[c])
  BY <1>2, <1>6, ValidatesType DEF Validates, CallType, SameCount
<1>11. call' = [call EXCEPT ![c] = r]
  BY <1>9
<1> HIDE DEF r, kept
<1>12. /\ Passed(r) = Passed(call[c]) /\ Due(r) = Due(call[c])
       /\ (Second(r) <=> Second(call[c])) /\ r.changes = call[c].changes
       /\ \A s, i : Since(r, s, i) <=> Since(call[c], s, i)
  BY <1>10, SameCounts DEF SameCount
<1>13. ReadsInv(r, flight, n)
  BY <1>1, <1>2, <1>10, <1>12 DEF ReadsInv, Over, Refers
<1>14. val'[v].step # "changed" /\ (val'[v].step = "miss" => before = None)
       /\ (Second(r) /\ Hashing(val'[v]) => Since(r, val'[v].before, n))
  <2>1. CASE key \in DOMAIN kept /\ v = kept[key] /\ val'[v] = val[v]
    <3>1. key \in DOMAIN memo /\ v = memo[key]
      BY <1>4, <2>1 DEF Within
    <3>2. val[v].step = "miss" => key[1] = None
      BY <3>1 DEF Churn, KeysInv
    <3> QED
      BY <1>5, <1>6, <1>7, <1>12, <2>1, <3>1, <3>2
  <2>2. CASE val'[v].step = "look"
    BY <2>2 DEF Hashing
  <2> QED
    BY <1>9, <2>1, <2>2
<1>15. JoinsInv(r, memo', val', n)
  BY <1>6, <1>9, <1>10, <1>14 DEF JoinsInv, Fresh
<1>16. ASSUME NEW d \in Callers PROVE PairInv(r, call[d], memo', val', n)
  <2>1. ASSUME call[d].pc = "after" PROVE Late(r, call[d].key, memo', val', n)
    <3>1. Fresh(call[d], memo', val') /\ ~Hashing(val'[call[d].val])
      BY <1>8, <1>9, <2>1, FollowsLate DEF Refers
    <3> QED
      BY <3>1 DEF Fresh, Late, Hashing
  <2> QED
    BY <1>10, <1>14, <2>1 DEF PairInv, Refers
<1>17. Harmless(r, memo', val')
  BY <1>10 DEF Harmless
<1>18. retained' # None =>
          /\ retained'.key[1] # None /\ val'[retained'.val].step = "entry"
          /\ \/ retained' = retained /\ ~ (Second(r) /\ r.pc = "before")
             \/ /\ call[c].pc = "fenced" /\ retained'.key = call[c].key
                /\ r.pc \notin {"before", "captured"}
  BY <1>1, <1>3, <1>9, <1>10
<1>19. \A k \in DOMAIN memo' :
          \/ val'[memo'[k]].step \notin Running \cup {"changed"}
          \/ r.pc = "validating" /\ r.key = k /\ r.val = memo'[k]
          \/ /\ k \in DOMAIN memo /\ memo'[k] = memo[k] /\ val'[memo[k]] = val[memo[k]]
             /\ ~ (call[c].pc = "validating" /\ call[c].key = k /\ call[c].val = memo[k])
  BY <1>1, <1>9, <1>10
<1>20. /\ payload' = payload /\ flight' \in {flight, Joined} /\ Follows(memo', val', memo, val)
       /\ \A u \in Ids : val'[u] = val[u] \/ val'[u].step = "look"
       /\ \A d \in Callers \ {c} : call[d].pc \in Refers => val'[call[d].val] = val[call[d].val]
       /\ r \in CallType
  BY <1>1, <1>9, <1>10
<1> HIDE DEF key, before, reuse
<1> QED
  BY <1>11, <1>13, <1>15, <1>16, <1>17, <1>18, <1>19, <1>20, CallChurn

-----------------------------------------------------------------------------
LEMMA InitChurn == Init => Churn
<1> SUFFICES ASSUME Init PROVE Churn
  OBVIOUS
<1>1. /\ retained = None /\ flight = None /\ DOMAIN memo = {}
      /\ \A v \in Ids : val[v].step = "free"
  BY DEF Init, NoVal
<1>2. ASSUME NEW c \in Callers
      PROVE  /\ call[c].pc = "idle" /\ call[c].before = None /\ call[c].after = None
             /\ call[c].changes = 0
  BY DEF Init, NoCall
<1>3. Linked(payload)
  <2> SUFFICES ASSUME payload # None PROVE Linked(payload)
    BY DEF Linked
  <2>1. payload = [ctime |-> 0, mtime |-> 0, nlink |-> 1, good |-> TRUE]
    BY DEF Init
  <2>2. payload.ctime = 0 /\ payload.nlink = 1 /\ payload.mtime = 0
    BY <2>1
  <2>3. 0 \in Nat /\ 0 + 1 = 2 * 0 + 1
    OBVIOUS
  <2> QED
    BY <2>2, <2>3 DEF Linked
<1>4. 0 <= 2 * Attempts
  BY ScopeAssumption
<1>5. AttemptsInv
  BY <1>2, <1>4 DEF AttemptsInv, ReadsInv, JoinsInv, PairInv, Linked, Over, Refers
<1>6. StatesInv /\ KeysInv
  BY <1>1, <1>3 DEF StatesInv, KeysInv, Hashing
<1> QED
  BY <1>5, <1>6 DEF Churn

\* Bytes that were rewritten stay so.
LEMMA SaneBefore ==
    ASSUME Inv, Sane', Publish \/ Link \/ \E restoring \in BOOLEAN : Rewrite(restoring)
    PROVE  Sane
<1> SUFFICES ASSUME payload # None PROVE payload.good
  BY DEF Sane
<1>1. payload \in Payload /\ payload' # None
  BY PayloadStep, PhysOfPayload DEF Inv, TypeInv
<1>2. payload'.good => payload.good
  BY <1>1 DEF Publish, Link, Rewrite, Payload
<1> QED
  BY <1>1, <1>2 DEF Sane

LEMMA NextChurn == Inv /\ ChurnInv /\ [Next]_vars => ChurnInv'
<1> SUFFICES ASSUME Inv, ChurnInv, [Next]_vars, Sane' PROVE Churn'
  BY DEF ChurnInv
<1>1. CASE Publish \/ Link \/ \E restoring \in BOOLEAN : Rewrite(restoring)
  BY <1>1, SaneBefore, OutsideChurn DEF ChurnInv
<1>2. payload' = payload => Sane
  BY DEF Sane
<1>3. payload' = payload => Churn
  BY <1>2 DEF ChurnInv
<1>4. CASE UNCHANGED vars
  BY <1>3, <1>4 DEF vars, Churn, StatesInv, KeysInv, AttemptsInv
<1>5. CASE \E c \in Callers : \E fits \in BOOLEAN : Call(c, fits)
  BY <1>3, <1>5, StartChurn DEF Call
<1>6. CASE \E c \in Callers : Captured(c)
  BY <1>3, <1>6, CapturedChurn DEF Captured
<1>7. CASE \E c \in Callers : Validated(c)
  BY <1>3, <1>7, ValidatedChurn DEF Validated
<1>8. CASE \E c \in Callers : Concluded(c)
  BY <1>3, <1>8, ConcludedChurn DEF Concluded
<1>9. CASE \E c \in Callers : Return(c)
  BY <1>3, <1>9, ReturnChurn DEF Return
<1>10. CASE \E v \in Ids : ValLook(v) \/ ValAdmit(v) \/ ValHash(v) \/ ValHashed(v) \/ ValVerify(v)
  <2>1. payload' = payload
    BY <1>10 DEF ValLook, ValAdmit, ValHash, ValHashed, ValVerify
  <2> QED
    BY <1>3, <1>10, <2>1, LookChurn, AdmitChurn, HashChurn, HashedChurn, VerifyChurn
<1>11. CASE FlightObserve \/ FlightSettle
  BY <1>3, <1>11, ObserveChurn, SettleChurn DEF FlightObserve, FlightSettle
<1> QED
  BY <1>1, <1>4, <1>5, <1>6, <1>7, <1>8, <1>9, <1>10, <1>11 DEF Next

\* A call of validateArtifactCacheEntryInValidationScope that runs out of attempts, of a payload
\* that was not rewritten, has seen two changes of the entry or its links for every two attempts
\* that it was given: whatever reads, authentications and retained states of other callers it
\* joined, however old they were, every second attempt failed for changes that came after those
\* due for the attempts before it.
THEOREM GivesUp == Spec => []GivesUpOnlyUnderChurn
<1>1. Init => Inv /\ ChurnInv
  BY InitInv, InitChurn DEF ChurnInv
<1>2. Inv /\ ChurnInv /\ [Next]_vars => (Inv /\ ChurnInv)'
  BY NextInv, NextChurn
<1>3. ChurnInv => GivesUpOnlyUnderChurn
  BY DEF ChurnInv, Churn, Sane, AttemptsInv, ReadsInv, GivesUpOnlyUnderChurn
<1> QED
  BY <1>1, <1>2, <1>3, PTL DEF Spec

=============================================================================
