--------------------------- MODULE BuildWorkProofs ---------------------------
(***************************************************************************)
(* What MCBuildWork checks of leases and maintenance, proved for any       *)
(* builds, policies and periods, any number of broken-off runs and of      *)
(* times that the clock is set back, and any window of time in which the   *)
(* recovery periods can be told apart.                                     *)
(***************************************************************************)
EXTENDS MCBuildWork, TLAPS

Phases == {"new", "leasing", "active", "completed", "ended"}
Receipt == [policy : Policies, completed : 0 .. MaxTime]

Types ==
    /\ clock \in 0 .. MaxTime /\ rollbacks \in 0 .. MaxRollbacks
    /\ lock \in Builds \cup {None, Maintenance}
    /\ phase \in [Builds -> Phases]
    /\ lease \in [Builds -> Record \cup {None}]
    /\ root \in [Builds -> Record \cup {None}]
    /\ fate \in [Builds -> {None, "completed", "discarded", "failed", "interrupted"}]
    /\ receipt \in Receipt \cup {None}
    /\ quarantine \in BOOLEAN /\ above \in BOOLEAN
    /\ run \in Run \cup {None}
    /\ faults \in 0 .. MaxFaults

\* A build at work has the lock, and its record is the one that it wrote last.
LeaseInv ==
    /\ lock = Maintenance <=> run # None
    /\ \A b \in Builds :
          /\ phase[b] \in {"leasing", "active", "completed"} <=> lock = b
          /\ phase[b] \in {"active", "completed"} => root[b] = lease[b] /\ root[b] # None
          /\ phase[b] = "active" => root[b].status = "active"
          /\ phase[b] = "leasing" => root[b] # None /\ root[b].status = "bare"
          /\ phase[b] = "new" => root[b] = None
          /\ phase[b] # "ended" => fate[b] = None

Concluded(record) == record.status \in {"failed", "completed"}

\* What a run has left of the roots that it inspected was concluded, or the run knows.
RunInv ==
    run # None =>
        /\ run.now \in 0 .. MaxTime
        /\ run.mode = "automatic" => run.policy \in Policies
        /\ \A b \in run.todo : root[b] # None
        /\ run.pc # "inspect" => run.todo = {}
        /\ run.pc = "sweeping" => ~run.blocked
        /\ ~run.blocked => \A b \in Builds \ run.todo : root[b] # None => Concluded(root[b])

\* The window may have slid, so that a time at 0 may be older than it looks.  Then the clock
\* is at its end, and was so when the present run was dated.
Slid == /\ clock = MaxTime /\ rollbacks = MaxRollbacks
        /\ run # None => run.now = MaxTime

\* A deadline t that is a period after the time s.
Later(t, s, period, slid) == t \in Nat /\ (t >= s + period \/ (s = 0 /\ slid))

\* What is left of the work of a build that was interrupted, of one that maintenance marked
\* (when it did is in the record), and of one that failed.
Interrupted(record) == record.status \in {"bare", "torn", "active", "abandoned"}
Abandoned(record, slid) ==
    record.status = "abandoned" =>
        /\ record.until # None
        /\ Later(record.until, record.updated, AbandonedRecovery, slid)
Failed(record, slid) ==
    /\ record.status = "failed"
    /\ record.until # None => Later(record.until, record.updated, FailedRecovery, slid)

Kept(record, how, slid) ==
    /\ Abandoned(record, slid)
    /\ how = "interrupted" => Interrupted(record)
    /\ how = "failed" => Failed(record, slid)

RecoveryInv == \A b \in Builds : root[b] # None => Kept(root[b], fate[b], Slid)

Inv == Types /\ LeaseInv /\ RunInv /\ RecoveryInv

-----------------------------------------------------------------------------
(* Times and records.                                                      *)

LEMMA TimesNat ==
    /\ Times \subseteq Nat /\ 0 \in Times /\ None \notin Times
    /\ \A t \in 0 .. MaxTime : /\ t \in Nat /\ t <= MaxTime /\ t \in Times
                               /\ t + FailedRecovery \in Times
                               /\ t + AbandonedRecovery \in Times
BY PeriodAssumption, NoneIsNothing DEF Times

LEMMA RecordTypes ==
    ASSUME NEW t \in 0 .. MaxTime
    PROVE  /\ bareRoot(t) \in Record /\ activeRecord(t) \in Record
           /\ \A r \in Record : /\ completedRecord(r, t) \in Record
                                /\ failedRecord(r, t) \in Record
                                /\ abandonedRecord(r, t) \in Record
BY TimesNat DEF bareRoot, activeRecord, completedRecord, failedRecord, abandonedRecord, Record,
                Statuses

LEMMA TornRecord == tornRecord \in Record /\ tornRecord.status = "torn"
BY TimesNat DEF tornRecord, activeRecord, Record, Statuses

LEMMA LegacyRecord ==
    legacyFailed \in Record /\ legacyFailed.status = "failed" /\ legacyFailed.until = None
BY TimesNat DEF legacyFailed, activeRecord, Record, Statuses

LEMMA EarlierTime ==
    ASSUME NEW t \in Times \cup {None}
    PROVE  /\ t # None => Earlier(t) \in Times /\ Earlier(t) = IF t = 0 THEN 0 ELSE t - 1
           /\ t = None => Earlier(t) = None
BY TimesNat, PeriodAssumption DEF Earlier, Times

LEMMA AgedRecord ==
    ASSUME NEW r \in Record
    PROVE  /\ Aged(r) \in Record /\ Aged(r).status = r.status
           /\ r.updated < r.started => Aged(r) = r
           /\ ~(r.updated < r.started) => /\ Aged(r).started = Earlier(r.started)
                                          /\ Aged(r).updated = Earlier(r.updated)
                                          /\ Aged(r).until = Earlier(r.until)
<1>1. r.started \in Times /\ r.updated \in Times /\ r.until \in Times \cup {None}
  BY DEF Record
<1>2. Earlier(r.started) \in Times /\ Earlier(r.updated) \in Times
      /\ Earlier(r.until) \in Times \cup {None}
  BY <1>1, TimesNat, EarlierTime
<1> QED
  BY <1>2 DEF Aged, Record

\* What inspectWorkRoot makes of a record, and when it lets a sweep run or removes a root.
LEMMA InspectFacts ==
    ASSUME NEW r \in Record, NEW now \in 0 .. MaxTime
    PROVE  /\ Inspect(r, now).record \in Record
           /\ Inspect(r, now).action # "remove" /\ ~Blocks(Inspect(r, now)) =>
                  Concluded(Inspect(r, now).record)
           /\ Inspect(r, now).action = "remove" =>
                  /\ r.status \in {"failed", "completed", "abandoned"}
                  /\ r.status = "failed" => r.until # None
                  /\ r.status # "completed" => ~(now < r.until)
           /\ r.status # "abandoned" /\ Inspect(r, now).record.status = "abandoned" =>
                  /\ Inspect(r, now).action = "mark-abandoned"
                  /\ Inspect(r, now).record.updated = now
                  /\ now >= r.updated + Quiescent
<1>1. abandonedRecord(r, now) \in Record
  BY RecordTypes
<1>2. r.status \in Statuses /\ r.updated \in Times
  BY DEF Record
<1>3. r.updated <= now => [r EXCEPT !.until = r.updated + FailedRecovery] \in Record
  <2>1. r.updated <= now => r.updated + FailedRecovery \in Times
    BY <1>2, PeriodAssumption DEF Times
  <2> QED
    BY <2>1 DEF Record
<1>4. [r EXCEPT !.until = r.updated + FailedRecovery].status = r.status
  BY DEF Record
<1>5. r.updated > now \/ r.updated <= now
  BY <1>2, PeriodAssumption DEF Times
<1> DEFINE v == Inspect(r, now)
           dated == [r EXCEPT !.until = r.updated + FailedRecovery]
<1>6. \/ v.action = "mark-abandoned" /\ v.record = abandonedRecord(r, now)
         /\ v.status \in {"legacy", "active"} /\ ~(now - r.updated < Quiescent)
      \/ v.action = "set-deadline" /\ v.record = dated /\ v.status = "failed"
         /\ r.status = "failed" /\ r.updated <= now
      \/ v.action = "retain" /\ v.record = r
         /\ v.status \in {"legacy", "active", "invalid", r.status}
      \/ /\ v.action = "remove" /\ v.record = r
         /\ r.status \in {"failed", "completed", "abandoned"}
         /\ r.status = "failed" => r.until # None
         /\ r.status # "completed" => ~(now < r.until)
  <2> HIDE DEF dated
  <2>1. CASE r.status = "bare"
    BY <2>1 DEF Inspect, InspectBare, Verdict
  <2>2. CASE r.status = "torn"
    BY <2>2 DEF Inspect, Unreadable, Verdict
  <2>3. CASE r.status = "active"
    BY <2>3 DEF Inspect, InspectActive, Verdict
  <2>4. CASE r.status \in {"failed", "completed", "abandoned"}
    BY <1>5, <2>4 DEF Inspect, Verdict, dated
  <2> QED
    BY <1>2, <2>1, <2>2, <2>3, <2>4 DEF Statuses
<1> HIDE DEF v, dated
<1>7. v.record \in Record
  BY <1>1, <1>3, <1>6 DEF dated
<1>8. v.action # "remove" /\ ~Blocks(v) => Concluded(v.record)
  BY <1>4, <1>6 DEF Blocks, Concluded, dated
<1>9. v.action = "remove" => /\ r.status \in {"failed", "completed", "abandoned"}
                             /\ r.status = "failed" => r.until # None
                             /\ r.status # "completed" => ~(now < r.until)
  BY <1>6
<1>10. /\ abandonedRecord(r, now).updated = now
       /\ ~(now - r.updated < Quiescent) => now >= r.updated + Quiescent
  BY <1>2, TimesNat, PeriodAssumption DEF abandonedRecord, Record
<1>11. r.status # "abandoned" /\ v.record.status = "abandoned" =>
          v.action = "mark-abandoned" /\ v.record.updated = now /\ now >= r.updated + Quiescent
  BY <1>4, <1>6, <1>10 DEF dated
<1> QED
  BY <1>7, <1>8, <1>9, <1>11 DEF v

\* It changes a record only to put off its removal for a recovery period.
LEMMA InspectKeeps ==
    ASSUME NEW r \in Record, NEW how, NEW slid \in BOOLEAN, Kept(r, how, slid),
           NEW now \in 0 .. MaxTime
    PROVE  Kept(Inspect(r, now).record, how, slid)
<1>1. /\ r.updated \in Nat /\ r.status \in Statuses
      /\ AbandonedRecovery \in Nat /\ FailedRecovery \in Nat \ {0} /\ now \in Nat
  BY TimesNat, PeriodAssumption DEF Record
<1>2. ASSUME r.status \in {"bare", "active"}
      PROVE  Kept(abandonedRecord(r, now), how, slid)
  <2>1. /\ abandonedRecord(r, now).status = "abandoned"
        /\ abandonedRecord(r, now).updated = now
        /\ abandonedRecord(r, now).until = now + AbandonedRecovery
    BY DEF abandonedRecord, Record
  <2>2. now + AbandonedRecovery \in Times /\ now + AbandonedRecovery \in Nat
    BY <1>1, TimesNat
  <2>3. how # "failed"
    BY <1>2 DEF Kept, Failed
  <2> QED
    BY <1>1, <2>1, <2>2, <2>3, TimesNat DEF Kept, Interrupted, Abandoned, Later
<1>3. ASSUME r.status = "failed"
      PROVE  Kept([r EXCEPT !.until = r.updated + FailedRecovery], how, slid)
  <2> DEFINE dated == [r EXCEPT !.until = r.updated + FailedRecovery]
  <2>1. /\ dated.status = "failed" /\ dated.updated = r.updated
        /\ dated.until = r.updated + FailedRecovery
    BY <1>3 DEF Record
  <2> HIDE DEF dated
  <2>2. how # "interrupted"
    BY <1>3 DEF Kept, Interrupted, Abandoned
  <2>3. dated.until \in Nat /\ dated.until >= dated.updated + FailedRecovery
    BY <1>1, <2>1
  <2>4. Kept(dated, how, slid)
    BY <2>1, <2>2, <2>3 DEF Kept, Abandoned, Failed, Later
  <2> QED
    BY <2>4 DEF dated
<1> DEFINE v == Inspect(r, now)
<1>4. CASE r.status = "bare"
  <2>1. v.record = r \/ v.record = abandonedRecord(r, now)
    BY <1>4 DEF Inspect, InspectBare, Verdict
  <2> QED
    BY <1>2, <1>4, <2>1
<1>5. CASE r.status = "active"
  <2>1. v.record = r \/ v.record = abandonedRecord(r, now)
    BY <1>5 DEF Inspect, InspectActive, Unreadable, Verdict
  <2> QED
    BY <1>2, <1>5, <2>1
<1>6. CASE r.status \notin {"bare", "active"}
  <2>1. \/ v.record = r
        \/ r.status = "failed" /\ v.record = [r EXCEPT !.until = r.updated + FailedRecovery]
    BY <1>6 DEF Inspect, Verdict
  <2> QED
    BY <1>3, <2>1
<1> QED
  BY <1>4, <1>5, <1>6

\* As long as the window does not move back, what is kept stays kept.
LEMMA KeptStays ==
    ASSUME NEW r, NEW how, NEW slid \in BOOLEAN, NEW later \in BOOLEAN, slid => later,
           Kept(r, how, slid)
    PROVE  Kept(r, how, later)
BY DEF Kept, Interrupted, Abandoned, Failed, Later

\* A sliding window moves a record and its deadline together, except for times at its beginning.
LEMMA KeptAged ==
    ASSUME NEW r \in Record, NEW how, NEW slid \in BOOLEAN, Kept(r, how, slid)
    PROVE  Kept(Aged(r), how, TRUE)
<1>1. /\ r.updated \in Times /\ r.until \in Times \cup {None}
      /\ AbandonedRecovery \in Nat /\ FailedRecovery \in Nat \ {0}
  BY PeriodAssumption DEF Record
<1>2. /\ r.until = None => Earlier(r.until) = None
      /\ r.until # None => Earlier(r.until) = IF r.until = 0 THEN 0 ELSE r.until - 1
      /\ Earlier(r.updated) = IF r.updated = 0 THEN 0 ELSE r.updated - 1
  BY <1>1, TimesNat, EarlierTime
<1>3. r.updated \in Nat /\ (r.until # None => r.until \in Nat)
  BY <1>1, TimesNat
<1>4. Earlier(r.until) \in Times \cup {None} /\ (r.until # None => Earlier(r.until) # None)
  BY <1>1, EarlierTime, TimesNat
<1>5. CASE r.updated < r.started
  BY <1>5, AgedRecord, KeptStays
<1>6. CASE ~(r.updated < r.started)
  <2> DEFINE a == Aged(r)
  <2>1. a.status = r.status /\ a.updated = Earlier(r.updated) /\ a.until = Earlier(r.until)
    BY <1>6, AgedRecord
  <2> HIDE DEF a
  <2>2. ASSUME NEW s \in Nat, NEW period \in Nat, r.until # None, Later(r.until, s, period, slid)
        PROVE  Later(Earlier(r.until), IF s = 0 THEN 0 ELSE s - 1, period, TRUE)
    <3>1. r.until \in Nat
      BY <1>3, <2>2
    <3>2. Earlier(r.until) = (IF r.until = 0 THEN 0 ELSE r.until - 1)
      BY <1>2, <2>2
    <3>3. CASE s = 0
      BY <3>1, <3>2, <3>3 DEF Later
    <3>4. CASE s # 0
      <4>1. r.until >= s + period
        BY <2>2, <3>4 DEF Later
      <4>2. r.until # 0 /\ r.until - 1 >= (s - 1) + period /\ r.until - 1 \in Nat
        BY <3>1, <3>4, <4>1
      <4> QED
        BY <3>2, <3>4, <4>2 DEF Later
    <3> QED
      BY <3>3, <3>4
  <2>3. Interrupted(r) => Interrupted(a)
    BY <2>1 DEF Interrupted
  <2>4. Abandoned(a, TRUE)
    <3> SUFFICES ASSUME r.status = "abandoned"
                 PROVE  a.until # None /\ Later(a.until, a.updated, AbandonedRecovery, TRUE)
      BY <2>1 DEF Abandoned
    <3>1. r.until # None /\ Later(r.until, r.updated, AbandonedRecovery, slid)
      BY DEF Kept, Abandoned
    <3> QED
      BY <1>1, <1>2, <1>3, <1>4, <2>1, <2>2, <3>1
  <2>5. Failed(r, slid) => Failed(a, TRUE)
    <3> SUFFICES ASSUME Failed(r, slid), a.until # None
                 PROVE  Later(a.until, a.updated, FailedRecovery, TRUE)
      BY <2>1 DEF Failed
    <3>1. r.until # None /\ Later(r.until, r.updated, FailedRecovery, slid)
      BY <1>2, <2>1 DEF Failed
    <3> QED
      BY <1>1, <1>2, <1>3, <2>1, <2>2, <3>1
  <2>6. Kept(a, how, TRUE)
    BY <2>3, <2>4, <2>5 DEF Kept
  <2> QED
    BY <2>6 DEF a
<1> QED
  BY <1>5, <1>6

-----------------------------------------------------------------------------
(* The invariant.                                                          *)

LEMMA InitInv == Init => Inv
<1> SUFFICES ASSUME Init PROVE Inv
  OBVIOUS
<1>1. PICK old, gone \in SUBSET Builds :
        /\ old \cap gone = {}
        /\ phase = [b \in Builds |-> IF b \in old \cup gone THEN "ended" ELSE "new"]
        /\ root = [b \in Builds |-> IF b \in old THEN legacyFailed ELSE None]
        /\ fate = [b \in Builds |-> IF b \in old THEN "failed" ELSE None]
  BY DEF Init
<1>2. Types
  <2>1. quarantine \in BOOLEAN /\ above \in BOOLEAN /\ run = None
    BY Zenon DEF Init
  <2>2. phase \in [Builds -> Phases] /\ root \in [Builds -> Record \cup {None}]
    BY <1>1, LegacyRecord DEF Phases
  <2>3. fate \in [Builds -> {None, "completed", "discarded", "failed", "interrupted"}]
    BY <1>1
  <2> QED
    BY <2>1, <2>2, <2>3, PeriodAssumption DEF Init, Types
<1>3. LeaseInv
  BY <1>1, PeriodAssumption DEF Init, LeaseInv
<1>4. RunInv
  BY DEF Init, RunInv
<1>5. RecoveryInv
  BY <1>1, LegacyRecord, NoneIsNothing DEF RecoveryInv, Kept, Abandoned, Failed
<1> QED
  BY <1>2, <1>3, <1>4, <1>5 DEF Inv

\* A step that keeps the clock, and the run or ends it or dates it, does not undo Slid.
LEMMA SlidStays ==
    ASSUME UNCHANGED time, run' = None \/ (run # None /\ run'.now = run.now) \/ run'.now = clock
    PROVE  Slid => Slid'
BY DEF Slid, time

LEMMA SlidBool == Slid \in BOOLEAN /\ Slid' \in BOOLEAN
BY DEF Slid

\* What changes one root.
LEMMA OneRoot ==
    ASSUME Types, RecoveryInv, NEW b \in Builds, NEW r,
           root' = [root EXCEPT ![b] = r],
           \A c \in Builds \ {b} : fate'[c] = fate[c],
           Slid => Slid', r # None => Kept(r, fate'[b], Slid')
    PROVE  RecoveryInv'
<1> SUFFICES ASSUME NEW c \in Builds, root'[c] # None
             PROVE  Kept(root'[c], fate'[c], Slid')
  BY DEF RecoveryInv
<1>1. CASE c = b
  BY <1>1 DEF Types
<1>2. CASE c # b
  <2>1. root'[c] = root[c] /\ fate'[c] = fate[c]
    BY <1>2 DEF Types
  <2>2. Kept(root[c], fate[c], Slid)
    BY <2>1 DEF RecoveryInv
  <2> QED
    BY <2>1, <2>2, SlidBool, KeptStays
<1> QED
  BY <1>1, <1>2

LEMMA RootsKept ==
    ASSUME RecoveryInv, UNCHANGED <<root, fate>>, Slid => Slid'
    PROVE  RecoveryInv'
BY SlidBool, KeptStays DEF RecoveryInv

\* Steps of time.
LEMMA TimeStep ==
    ASSUME Inv, Tick \/ Slide \/ SetBack
    PROVE  Inv'
<1>1. Types /\ LeaseInv /\ RunInv /\ RecoveryInv /\ MaxTime \in Nat /\ MaxRollbacks \in Nat
  BY PeriodAssumption DEF Inv
<1>2. CASE Tick
  <2>1. /\ clock < MaxTime /\ clock' = clock + 1
        /\ UNCHANGED <<rollbacks, lock, phase, lease, root, fate, receipt, quarantine, above, run,
                       faults>>
    BY <1>2 DEF Tick, build, cache
  <2>2. Slid => Slid'
    BY <1>1, <2>1 DEF Slid, Types
  <2>3. Types'
    BY <1>1, <2>1 DEF Types
  <2> QED
    BY <1>1, <2>1, <2>2, <2>3, RootsKept DEF Inv, LeaseInv, RunInv
<1>3. CASE SetBack
  <2>1. /\ rollbacks < MaxRollbacks /\ rollbacks' = rollbacks + 1
        /\ clock' \in 0 .. clock
        /\ UNCHANGED <<lock, phase, lease, root, fate, receipt, quarantine, above, run, faults>>
    BY <1>3 DEF SetBack, build, cache
  <2>2. ~Slid
    BY <1>1, <2>1 DEF Slid, Types
  <2>3. Types'
    BY <1>1, <2>1 DEF Types
  <2> QED
    BY <1>1, <2>1, <2>2, <2>3, RootsKept DEF Inv, LeaseInv, RunInv
<1>4. CASE Slide
  <2>1. /\ clock = MaxTime /\ lock = None
        /\ root' = [b \in Builds |-> IF root[b] = None THEN None ELSE Aged(root[b])]
        /\ receipt' = IF receipt = None THEN None
                      ELSE [receipt EXCEPT !.completed = Earlier(@)]
        /\ rollbacks' = MaxRollbacks
        /\ UNCHANGED <<clock, lock, phase, lease, fate, quarantine, above, run, faults>>
    BY <1>4 DEF Slide, build
  <2>2. run = None
    BY <1>1, <2>1, PeriodAssumption DEF LeaseInv
  <2>3. Slid'
    BY <2>1, <2>2 DEF Slid
  <2>4. ASSUME NEW b \in Builds
        PROVE  /\ root'[b] \in Record \cup {None}
               /\ root[b] = None <=> root'[b] = None
    <3>1. root[b] # None => Aged(root[b]) \in Record
      BY <1>1, AgedRecord DEF Types
    <3> QED
      BY <2>1, <3>1, NoneIsNothing
  <2>5. receipt' \in Receipt \cup {None}
    <3>1. receipt # None => Earlier(receipt.completed) \in 0 .. MaxTime
      <4> SUFFICES ASSUME receipt # None
                   PROVE  Earlier(receipt.completed) \in 0 .. MaxTime
        OBVIOUS
      <4>1. receipt.completed \in 0 .. MaxTime
        BY <1>1 DEF Types, Receipt
      <4>2. receipt.completed \in Times /\ receipt.completed # None
        BY <4>1, TimesNat
      <4> QED
        BY <1>1, <4>1, <4>2, EarlierTime
    <3> QED
      BY <1>1, <2>1, <3>1 DEF Types, Receipt
  <2>6. Types'
    BY <1>1, <2>1, <2>4, <2>5 DEF Types
  <2>7. LeaseInv'
    BY <1>1, <2>1, <2>4, PeriodAssumption DEF LeaseInv
  <2>8. RunInv'
    BY <2>1, <2>2 DEF RunInv
  <2>9. RecoveryInv'
    <3> SUFFICES ASSUME NEW b \in Builds, root'[b] # None
                 PROVE  Kept(root'[b], fate[b], Slid')
      BY <2>1 DEF RecoveryInv
    <3>1. root[b] # None /\ root'[b] = Aged(root[b]) /\ root[b] \in Record
      BY <1>1, <2>1, <2>4 DEF Types
    <3>2. Kept(root[b], fate[b], Slid)
      BY <1>1, <3>1 DEF RecoveryInv
    <3> QED
      BY <2>1, <2>3, <3>1, <3>2, SlidBool, KeptAged
  <2> QED
    BY <2>6, <2>7, <2>8, <2>9 DEF Inv
<1> QED
  BY <1>2, <1>3, <1>4


\* Steps of a build, which has the lock, so that no run is under way.
LEMMA BeginStep ==
    ASSUME Inv, NEW b \in Builds, Begin(b)
    PROVE  Inv'
<1>1. Types /\ LeaseInv /\ RecoveryInv
  BY DEF Inv
<1>2. /\ phase[b] = "new" /\ lock = None /\ lock' = b
      /\ phase' = [phase EXCEPT ![b] = "leasing"]
      /\ root' = [root EXCEPT ![b] = bareRoot(clock)]
      /\ UNCHANGED <<clock, rollbacks, lease, fate, receipt, quarantine, above, run, faults>>
  BY DEF Begin, time, cache
<1>3. run = None
  BY <1>1, <1>2, PeriodAssumption DEF LeaseInv
<1>4. /\ bareRoot(clock) \in Record /\ bareRoot(clock) # None
      /\ bareRoot(clock).status = "bare"
  <2>1. bareRoot(clock).status = "bare"
    BY DEF bareRoot
  <2> QED
    BY <1>1, <2>1, RecordTypes, NoneIsNothing DEF Types
<1>5. Types'
  BY <1>1, <1>2, <1>4 DEF Types, Phases
<1>6. LeaseInv'
  BY <1>1, <1>2, <1>3, <1>4, PeriodAssumption DEF LeaseInv, Types
<1>7. RunInv'
  BY <1>2, <1>3 DEF RunInv
<1>8. fate[b] = None
  BY <1>1, <1>2 DEF LeaseInv
<1>9. Kept(bareRoot(clock), fate'[b], Slid')
  BY <1>2, <1>8, NoneIsNothing DEF Kept, Abandoned, bareRoot
<1>10. RecoveryInv'
  BY <1>1, <1>2, <1>3, <1>9, SlidStays, OneRoot DEF time
<1> QED
  BY <1>5, <1>6, <1>7, <1>10 DEF Inv

LEMMA LeaseStep ==
    ASSUME Inv, NEW b \in Builds, Lease(b)
    PROVE  Inv'
<1>1. Types /\ LeaseInv /\ RecoveryInv
  BY DEF Inv
<1>2. /\ phase[b] = "leasing"
      /\ lease' = [lease EXCEPT ![b] = activeRecord(clock)]
      /\ root' = [root EXCEPT ![b] = activeRecord(clock)]
      /\ phase' = [phase EXCEPT ![b] = "active"]
      /\ UNCHANGED <<clock, rollbacks, lock, fate, receipt, quarantine, above, run, faults>>
  BY DEF Lease, time, cache
<1>3. lock = b /\ run = None
  BY <1>1, <1>2, PeriodAssumption DEF LeaseInv
<1>4. /\ activeRecord(clock) \in Record /\ activeRecord(clock) # None
      /\ activeRecord(clock).status = "active"
  <2>1. activeRecord(clock).status = "active"
    BY DEF activeRecord
  <2> QED
    BY <1>1, <2>1, RecordTypes, NoneIsNothing DEF Types
<1>5. Types'
  BY <1>1, <1>2, <1>4 DEF Types, Phases
<1>6. LeaseInv'
  BY <1>1, <1>2, <1>3, <1>4, PeriodAssumption DEF LeaseInv, Types
<1>7. RunInv'
  BY <1>2, <1>3 DEF RunInv
<1>8. fate[b] = None
  BY <1>1, <1>2 DEF LeaseInv
<1>9. Kept(activeRecord(clock), fate'[b], Slid')
  BY <1>2, <1>8, NoneIsNothing DEF Kept, Abandoned, activeRecord
<1>10. RecoveryInv'
  BY <1>1, <1>2, <1>3, <1>9, SlidStays, OneRoot DEF time
<1> QED
  BY <1>5, <1>6, <1>7, <1>10 DEF Inv

LEMMA CompleteStep ==
    ASSUME Inv, NEW b \in Builds, Complete(b)
    PROVE  Inv'
<1> DEFINE record == completedRecord(lease[b], clock)
<1>1. Types /\ LeaseInv /\ RecoveryInv
  BY DEF Inv
<1>2. /\ phase[b] = "active" /\ root[b] = lease[b]
      /\ root' = [root EXCEPT ![b] = record]
      /\ lease' = [lease EXCEPT ![b] = root'[b]]
      /\ phase' = [phase EXCEPT ![b] = "completed"]
      /\ above' \in {above, TRUE}
      /\ UNCHANGED <<clock, rollbacks, lock, fate, receipt, quarantine, run, faults>>
  BY DEF Complete, Transition, time
<1>3. lock = b /\ run = None
  BY <1>1, <1>2, PeriodAssumption DEF LeaseInv
<1>4. lease[b] \in Record
  BY <1>1, <1>2 DEF LeaseInv, Types
<1>5. record \in Record /\ record # None /\ record.status = "completed"
  <2>1. record \in Record
    BY <1>1, <1>4, RecordTypes DEF Types
  <2>2. record.status = "completed"
    BY <1>4 DEF completedRecord, Record
  <2> QED
    BY <2>1, <2>2, NoneIsNothing
<1> HIDE DEF record
<1>6. Types'
  <2>1. above' \in BOOLEAN
    BY <1>1, <1>2, Zenon DEF Types
  <2> QED
    BY <1>1, <1>2, <1>5, <2>1 DEF Types, Phases
<1>7. LeaseInv'
  BY <1>1, <1>2, <1>3, <1>5, PeriodAssumption DEF LeaseInv, Types
<1>8. RunInv'
  BY <1>2, <1>3 DEF RunInv
<1>9. fate[b] = None
  BY <1>1, <1>2 DEF LeaseInv
<1>10. Kept(record, fate'[b], Slid')
  BY <1>2, <1>5, <1>9, NoneIsNothing DEF Kept, Abandoned
<1>11. RecoveryInv'
  BY <1>1, <1>2, <1>3, <1>10, SlidStays, OneRoot DEF time
<1> QED
  BY <1>6, <1>7, <1>8, <1>11 DEF Inv

\* A build ends, with a root r that is kept as its end demands.
LEMMA EndBuildStep ==
    ASSUME Inv, NEW b \in Builds, phase[b] \in {"leasing", "active", "completed"},
           NEW how \in {"completed", "discarded", "failed", "interrupted"}, EndBuild(b, how),
           NEW r \in Record \cup {None}, root' = [root EXCEPT ![b] = r],
           r # None => Kept(r, how, Slid), UNCHANGED <<time, cache, run, faults>>
    PROVE  Inv'
<1>1. Types /\ LeaseInv /\ RecoveryInv
  BY DEF Inv
<1>2. /\ phase' = [phase EXCEPT ![b] = "ended"] /\ lock' = None
      /\ fate' = [fate EXCEPT ![b] = how] /\ lease' = [lease EXCEPT ![b] = None]
      /\ UNCHANGED <<clock, rollbacks, receipt, quarantine, above, run, faults>>
  BY DEF EndBuild, time, cache
<1>3. lock = b /\ run = None
  BY <1>1, PeriodAssumption DEF LeaseInv
<1>4. Types'
  BY <1>1, <1>2 DEF Types, Phases
<1>5. LeaseInv'
  BY <1>1, <1>2, <1>3, PeriodAssumption DEF LeaseInv, Types
<1>6. RunInv'
  BY <1>2, <1>3 DEF RunInv
<1>7. (Slid => Slid') /\ (Slid' => Slid)
  BY <1>2 DEF Slid
<1>8. r # None => Kept(r, fate'[b], Slid')
  BY <1>1, <1>2, <1>7, SlidBool, KeptStays DEF Types
<1>9. RecoveryInv'
  BY <1>1, <1>2, <1>7, <1>8, OneRoot DEF Types
<1> QED
  BY <1>4, <1>5, <1>6, <1>9 DEF Inv

LEMMA CleanupStep ==
    ASSUME Inv, NEW b \in Builds, Cleanup(b)
    PROVE  Inv'
<1>1. Types /\ LeaseInv /\ RecoveryInv
  BY DEF Inv
<1>2. phase[b] = "completed" /\ UNCHANGED <<time, cache, run, faults>>
  BY DEF Cleanup
<1>3. CASE Removed(b) /\ EndBuild(b, "completed")
  BY <1>2, <1>3, EndBuildStep DEF Removed
<1>4. CASE UNCHANGED root /\ EndBuild(b, "completed")
  <2>1. root[b] \in Record /\ root' = [root EXCEPT ![b] = root[b]]
    BY <1>1, <1>2, <1>4 DEF LeaseInv, Types
  <2>2. Kept(root[b], fate[b], Slid)
    BY <2>1, <1>1, NoneIsNothing DEF RecoveryInv
  <2>3. Kept(root[b], "completed", Slid)
    BY <2>2 DEF Kept, Abandoned
  <2> QED
    BY <1>2, <1>4, <2>1, <2>3, EndBuildStep
<1>5. CASE PartlyRemoved(b) /\ EndBuild(b, "discarded")
  <2>1. bareRoot(clock) \in Record
    BY <1>1, RecordTypes DEF Types
  <2>2. Kept(bareRoot(clock), "discarded", Slid)
    BY DEF Kept, Abandoned, bareRoot
  <2> QED
    BY <1>2, <1>5, <2>1, <2>2, EndBuildStep DEF PartlyRemoved
<1> QED
  BY <1>3, <1>4, <1>5 DEF Cleanup

LEMMA FailStep ==
    ASSUME Inv, NEW b \in Builds, FailLease(b)
    PROVE  Inv'
<1> DEFINE record == failedRecord(lease[b], clock)
<1>1. Types /\ LeaseInv
  BY DEF Inv
<1>2. /\ phase[b] = "active" /\ root[b] = lease[b] /\ root' = [root EXCEPT ![b] = record]
      /\ EndBuild(b, "failed") /\ UNCHANGED <<time, cache, run, faults>>
  BY DEF FailLease, Transition
<1>3. lease[b] \in Record /\ clock \in Nat /\ FailedRecovery \in Nat
  BY <1>1, <1>2, PeriodAssumption DEF LeaseInv, Types
<1>4. record \in Record
  BY <1>1, <1>3, RecordTypes DEF Types
<1>5. /\ record.status = "failed" /\ record.updated = clock
      /\ record.until = clock + FailedRecovery
  BY <1>3 DEF failedRecord, Record
<1> HIDE DEF record
<1>6. Kept(record, "failed", Slid)
  BY <1>3, <1>5 DEF Kept, Abandoned, Failed, Later
<1> QED
  BY <1>2, <1>4, <1>6, EndBuildStep

LEMMA CrashStep ==
    ASSUME Inv, NEW b \in Builds, CrashBuild(b)
    PROVE  Inv'
<1>1. Types /\ LeaseInv /\ RecoveryInv
  BY DEF Inv
<1>2. EndBuild(b, "interrupted") /\ UNCHANGED <<time, cache, run, faults>>
  BY DEF CrashBuild
<1>3. phase[b] \in {"leasing", "active"} /\ root[b] \in Record /\ root[b] # None
  BY <1>1 DEF CrashBuild, LeaseInv, Types
<1>4. CASE UNCHANGED root
  <2>1. root[b].status \in {"bare", "active"} /\ root' = [root EXCEPT ![b] = root[b]]
    BY <1>1, <1>3, <1>4 DEF LeaseInv, Types
  <2>2. Kept(root[b], fate[b], Slid)
    BY <1>1, <1>3 DEF RecoveryInv
  <2>3. Kept(root[b], "interrupted", Slid)
    BY <2>1, <2>2 DEF Kept, Interrupted, Abandoned
  <2> QED
    BY <1>2, <1>3, <1>4, <2>1, <2>3, EndBuildStep
<1>5. CASE root' = [root EXCEPT ![b] = tornRecord]
  <2>1. Kept(tornRecord, "interrupted", Slid)
    BY TornRecord DEF Kept, Interrupted, Abandoned
  <2> QED
    BY <1>2, <1>3, <1>5, <2>1, TornRecord, EndBuildStep
<1> QED
  BY <1>4, <1>5 DEF CrashBuild


\* Steps of maintenance, which has the lock, so that no build is at work.
LEMMA StartStep ==
    ASSUME Inv, NEW mode \in Modes, NEW policy, Start(mode, policy),
           IF mode = "automatic" THEN policy \in Policies ELSE policy = None
    PROVE  Inv'
<1> DEFINE due == mode = "automatic" => Due(policy, clock)
           pending == mode = "automatic" /\ quarantine
           found == {b \in Builds : root[b] # None}
           r == [mode |-> mode, policy |-> policy, now |-> clock, due |-> due,
                 pending |-> pending, todo |-> found, blocked |-> FALSE, pc |-> "inspect"]
<1>1. Types /\ LeaseInv /\ RecoveryInv
  BY DEF Inv
<1>2. /\ run = None /\ lock = None /\ lock' = Maintenance /\ run' = r
      /\ UNCHANGED <<clock, rollbacks, phase, lease, root, fate, receipt, quarantine, above,
                     faults>>
  BY DEF Start, time, build, cache
<1>3. due \in BOOLEAN /\ pending \in BOOLEAN
  OBVIOUS
<1> HIDE DEF due, pending
<1>4. clock \in Times /\ clock \in 0 .. MaxTime /\ found \in SUBSET Builds
  BY <1>1, TimesNat DEF Types
<1>5. r \in Run
  BY <1>3, <1>4 DEF Run
<1>6. r # None
  BY <1>5, NoneIsNothing
<1>7. /\ r.now = clock /\ r.todo = found /\ r.pc = "inspect" /\ r.mode = mode
      /\ r.policy = policy
  OBVIOUS
<1> HIDE DEF r
<1>8. Types'
  BY <1>1, <1>2, <1>5 DEF Types
<1>9. LeaseInv'
  BY <1>1, <1>2, <1>6, PeriodAssumption DEF LeaseInv
<1>10. RunInv'
  BY <1>2, <1>4, <1>7 DEF RunInv
<1>11. RecoveryInv'
  BY <1>1, <1>2, <1>7, SlidStays, RootsKept DEF time
<1> QED
  BY <1>8, <1>9, <1>10, <1>11 DEF Inv

\* A run that goes on, with the same date, policy and mode.
LEMMA RunTypes ==
    ASSUME Types, LeaseInv, run # None
    PROVE  /\ run \in Run /\ lock = Maintenance /\ run.todo \subseteq Builds
           /\ \A b \in Builds :
                 phase[b] \in {"new", "ended"} /\ (phase[b] = "new" => root[b] = None)
<1>1. run \in Run /\ lock = Maintenance
  BY DEF Types, LeaseInv
<1>2. run.todo \subseteq Builds
  BY <1>1 DEF Run
<1>3. \A b \in Builds : phase[b] \in {"new", "ended"}
  BY <1>1, PeriodAssumption DEF LeaseInv, Types, Phases
<1> QED
  BY <1>1, <1>2, <1>3 DEF LeaseInv

\* What one root becomes while no build is at work.
LEMMA RootStep ==
    ASSUME Types, LeaseInv, run # None, NEW b \in Builds, root[b] # None,
           NEW r \in Record \cup {None}, root' = [root EXCEPT ![b] = r],
           \/ UNCHANGED fate
           \/ fate' = [fate EXCEPT ![b] = "discarded"],
           UNCHANGED <<phase, lease>>,
           \/ UNCHANGED lock /\ run' # None
           \/ lock' = None /\ run' = None
    PROVE  LeaseInv'
<1>1. \A c \in Builds : phase[c] \in {"new", "ended"} /\ (phase[c] = "new" => root[c] = None)
  BY RunTypes
<1>2. lock = Maintenance /\ lock' \in {None, Maintenance} /\ (lock' = Maintenance <=> run' # None)
  BY RunTypes, PeriodAssumption
<1>3. phase[b] = "ended"
  BY <1>1
<1>4. \A c \in Builds : c # b => root'[c] = root[c] /\ fate'[c] = fate[c]
  BY DEF Types
<1> QED
  BY <1>1, <1>2, <1>3, <1>4, PeriodAssumption DEF LeaseInv

LEMMA InspectStep ==
    ASSUME Inv, NEW b \in Builds, InspectRoot(b)
    PROVE  Inv'
<1> DEFINE v == Inspect(root[b], run.now)
           r == IF v.action = "remove" THEN None ELSE v.record
<1>1. Types /\ LeaseInv /\ RunInv /\ RecoveryInv
  BY DEF Inv
<1>2. /\ run # None /\ run.pc = "inspect" /\ b \in run.todo
      /\ root' = [root EXCEPT ![b] = r]
      /\ run' = [run EXCEPT !.todo = @ \ {b}, !.blocked = @ \/ Blocks(v)]
      /\ UNCHANGED <<clock, rollbacks, lock, phase, lease, fate, receipt, quarantine, above,
                     faults>>
  BY DEF InspectRoot, Removed, time, build, cache
<1>3. root[b] # None /\ root[b] \in Record /\ run.now \in 0 .. MaxTime
  BY <1>1, <1>2 DEF RunInv, Types
<1>4. /\ v.record \in Record
      /\ v.action # "remove" /\ ~Blocks(v) => Concluded(v.record)
  BY <1>3, InspectFacts
<1>5. Kept(v.record, fate[b], Slid)
  <2>1. Kept(root[b], fate[b], Slid)
    BY <1>1, <1>3 DEF RecoveryInv
  <2> QED
    BY <1>3, <2>1, SlidBool, InspectKeeps
<1>6. Blocks(v) \in BOOLEAN
  BY DEF Blocks
<1> HIDE DEF v
<1>7. r \in Record \cup {None} /\ (r # None => r = v.record /\ v.action # "remove")
  BY <1>4
<1> HIDE DEF r
<1>8. run \in Run /\ lock = Maintenance
  BY <1>1, <1>2, RunTypes
<1>9. /\ run' \in Run /\ run'.now = run.now /\ run'.mode = run.mode /\ run'.policy = run.policy
      /\ run'.pc = run.pc /\ run'.todo = run.todo \ {b}
      /\ run'.blocked = (run.blocked \/ Blocks(v))
  BY <1>2, <1>6, <1>8 DEF Run
<1>10. run' # None
  BY <1>9, NoneIsNothing
<1>11. Types'
  BY <1>1, <1>2, <1>7, <1>9 DEF Types
<1>12. LeaseInv'
  BY <1>1, <1>2, <1>3, <1>7, <1>10, RootStep
<1>13. RunInv'
  <2>1. \A c \in Builds : c # b => root'[c] = root[c]
    BY <1>1, <1>2 DEF Types
  <2>2. \A c \in run'.todo : root'[c] # None
    <3> SUFFICES ASSUME NEW c \in run'.todo PROVE root'[c] # None
      OBVIOUS
    <3>1. c \in run.todo /\ c # b /\ c \in Builds
      BY <1>1, <1>2, <1>9, RunTypes
    <3> QED
      BY <1>1, <1>2, <2>1, <3>1 DEF RunInv
  <2>3. ~run'.blocked =>
            \A c \in Builds \ run'.todo : root'[c] # None => Concluded(root'[c])
    <3> SUFFICES ASSUME ~run'.blocked, NEW c \in Builds \ run'.todo, root'[c] # None
                 PROVE  Concluded(root'[c])
      OBVIOUS
    <3>1. ~run.blocked /\ ~Blocks(v)
      BY <1>9
    <3>2. CASE c = b
      <4>1. root'[c] = r
        BY <1>1, <1>2, <3>2 DEF Types
      <4> QED
        BY <1>4, <1>7, <3>1, <4>1
    <3>3. CASE c # b
      <4>1. c \in Builds \ run.todo /\ root'[c] = root[c]
        BY <1>9, <2>1, <3>3
      <4> QED
        BY <1>1, <1>2, <3>1, <4>1 DEF RunInv
    <3> QED
      BY <3>2, <3>3
  <2> QED
    BY <1>1, <1>2, <1>9, <2>2, <2>3 DEF RunInv
<1>14. RecoveryInv'
  <2>1. Slid => Slid'
    BY <1>2, <1>9, SlidStays DEF time
  <2>2. r # None => Kept(r, fate'[b], Slid')
    BY <1>2, <1>5, <1>7, <2>1, SlidBool, KeptStays
  <2> QED
    BY <1>1, <1>2, <2>1, <2>2, OneRoot
<1> QED
  BY <1>11, <1>12, <1>13, <1>14 DEF Inv

LEMMA BreakOffStep ==
    ASSUME Inv, BreakOff
    PROVE  Inv'
<1>1. Types /\ LeaseInv /\ RunInv /\ RecoveryInv
  BY DEF Inv
<1>2. /\ run # None /\ faults < MaxFaults /\ faults' = faults + 1
      /\ lock' = None /\ run' = None
      /\ UNCHANGED <<clock, rollbacks, phase, lease, receipt, quarantine, above>>
  BY DEF BreakOff, Fault, EndRun, time, build, cache
<1>3. (Slid => Slid') /\ RunInv'
  BY <1>2, SlidStays DEF RunInv, time
<1>4. faults' \in 0 .. MaxFaults
  BY <1>1, <1>2, PeriodAssumption DEF Types
<1>5. CASE UNCHANGED <<root, fate>>
  <2>1. Types'
    BY <1>1, <1>2, <1>4, <1>5 DEF Types
  <2>2. LeaseInv'
    <3>1. lock = Maintenance /\ \A b \in Builds : phase[b] \in {"new", "ended"}
      BY <1>1, <1>2, RunTypes
    <3> QED
      BY <1>1, <1>2, <1>5, <3>1, PeriodAssumption DEF LeaseInv
  <2> QED
    BY <1>1, <1>3, <1>5, <2>1, <2>2, RootsKept DEF Inv
<1>6. ASSUME NEW b \in run.todo,
             \/ PartlyRemoved(b) /\ fate' = [fate EXCEPT ![b] = "discarded"]
             \/ /\ root[b].status = "bare"
                /\ root' = [root EXCEPT ![b] = tornRecord] /\ UNCHANGED fate
      PROVE  Inv'
  <2>1. b \in Builds /\ root[b] # None
    BY <1>1, <1>2, RunTypes DEF RunInv
  <2>2. Kept(root[b], fate[b], Slid)
    BY <1>1, <2>1 DEF RecoveryInv
  <2>3. PICK r \in Record :
            /\ root' = [root EXCEPT ![b] = r]
            /\ fate' = fate \/ fate' = [fate EXCEPT ![b] = "discarded"]
            /\ Kept(r, fate'[b], Slid')
    <3>1. CASE PartlyRemoved(b) /\ fate' = [fate EXCEPT ![b] = "discarded"]
      <4>1. bareRoot(clock) \in Record
        BY <1>1, RecordTypes DEF Types
      <4>2. fate'[b] = "discarded"
        BY <1>1, <2>1, <3>1 DEF Types
      <4>3. Kept(bareRoot(clock), fate'[b], Slid')
        BY <4>2 DEF Kept, Abandoned, bareRoot
      <4> QED
        BY <3>1, <4>1, <4>3 DEF PartlyRemoved
    <3>2. CASE /\ root[b].status = "bare"
               /\ root' = [root EXCEPT ![b] = tornRecord] /\ UNCHANGED fate
      <4>1. fate'[b] # "failed"
        BY <2>2, <3>2 DEF Kept, Abandoned, Failed
      <4>2. Kept(tornRecord, fate'[b], Slid')
        BY <4>1, TornRecord DEF Kept, Interrupted, Abandoned
      <4> QED
        BY <3>2, <4>2, TornRecord
    <3> QED
      BY <1>6, <3>1, <3>2
  <2>4. Types'
    BY <1>1, <1>2, <1>4, <2>3 DEF Types
  <2>5. LeaseInv'
    BY <1>1, <1>2, <2>1, <2>3, RootStep
  <2>6. RecoveryInv'
    <3>1. \A c \in Builds \ {b} : fate'[c] = fate[c]
      BY <1>1, <2>3 DEF Types
    <3> QED
      BY <1>1, <1>3, <2>1, <2>3, <3>1, OneRoot
  <2> QED
    BY <1>3, <2>4, <2>5, <2>6 DEF Inv
<1> QED
  BY <1>5, <1>6 DEF BreakOff


\* What a run does without touching a root, and with which it may end.
LEMMA QuietStep ==
    ASSUME Inv, run # None, Types', UNCHANGED <<clock, rollbacks, phase, lease, root, fate>>,
           \/ lock' = None /\ run' = None
           \/ UNCHANGED lock /\ run' # None /\ run'.now = run.now /\ RunInv'
    PROVE  Inv'
<1>1. Types /\ LeaseInv /\ RecoveryInv
  BY DEF Inv
<1>2. lock = Maintenance /\ \A b \in Builds : phase[b] \in {"new", "ended"}
  BY <1>1, RunTypes
<1>3. LeaseInv'
  BY <1>1, <1>2, PeriodAssumption DEF LeaseInv
<1>4. RunInv'
  BY DEF RunInv
<1>5. RecoveryInv'
  BY <1>1, SlidStays, RootsKept DEF time
<1> QED
  BY <1>3, <1>4, <1>5 DEF Inv

LEMMA DecideStep ==
    ASSUME Inv, Decide
    PROVE  Inv'
<1> DEFINE next == IF Requested /\ ~run.blocked THEN "sweeping" ELSE "finish"
<1>1. Types /\ LeaseInv /\ RunInv
  BY DEF Inv
<1>2. /\ run # None /\ run.todo = {} /\ run' = [run EXCEPT !.pc = next]
      /\ UNCHANGED <<clock, rollbacks, lock, phase, lease, root, fate, receipt, quarantine, above,
                     faults>>
  BY DEF Decide, time, build, cache
<1>3. next \in {"sweeping", "finish"} /\ (next = "sweeping" => ~run.blocked)
  OBVIOUS
<1> HIDE DEF next
<1>4. run \in Run
  BY <1>1, <1>2, RunTypes
<1>5. /\ run' \in Run /\ run'.now = run.now /\ run'.mode = run.mode /\ run'.policy = run.policy
      /\ run'.todo = run.todo /\ run'.blocked = run.blocked /\ run'.pc = next
  BY <1>2, <1>3, <1>4 DEF Run
<1>6. run' # None
  BY <1>5, NoneIsNothing
<1>7. Types'
  BY <1>1, <1>2, <1>5 DEF Types
<1>8. RunInv'
  BY <1>1, <1>2, <1>3, <1>5 DEF RunInv
<1> QED
  BY <1>2, <1>5, <1>6, <1>7, <1>8, QuietStep

LEMMA SweepStep ==
    ASSUME Inv, Sweep
    PROVE  Inv'
<1>1. Types /\ LeaseInv /\ RunInv
  BY DEF Inv
<1>2. /\ run # None /\ run.pc = "sweeping"
      /\ UNCHANGED <<clock, rollbacks, phase, lease, root, fate, receipt>>
  BY DEF Sweep, time, build
<1>3. quarantine' \in BOOLEAN /\ above' \in BOOLEAN
  <2>1. above' \in {above, FALSE}
    BY DEF Sweep
  <2> QED
    BY <1>1, <2>1, Zenon DEF Sweep, Types
<1>4. CASE run' = [run EXCEPT !.pc = "finish"] /\ UNCHANGED <<lock, faults>>
  <2>1. run \in Run
    BY <1>1, <1>2, RunTypes
  <2>2. /\ run' \in Run /\ run'.now = run.now /\ run'.mode = run.mode
        /\ run'.policy = run.policy /\ run'.todo = run.todo /\ run'.blocked = run.blocked
        /\ run'.pc = "finish"
    BY <1>4, <2>1 DEF Run
  <2>3. run' # None
    BY <2>2, NoneIsNothing
  <2>4. Types'
    BY <1>1, <1>2, <1>3, <1>4, <2>2 DEF Types
  <2>5. RunInv'
    BY <1>1, <1>2, <2>2 DEF RunInv
  <2> QED
    BY <1>2, <1>4, <2>2, <2>3, <2>4, <2>5, QuietStep
<1>5. CASE EndRun /\ Fault
  <2>1. faults' \in 0 .. MaxFaults
    BY <1>1, <1>5, PeriodAssumption DEF Types, Fault
  <2>2. Types'
    BY <1>1, <1>2, <1>3, <1>5, <2>1 DEF Types, EndRun
  <2> QED
    BY <1>2, <1>5, <2>2, QuietStep DEF EndRun
<1> QED
  BY <1>4, <1>5 DEF Sweep

LEMMA FinishStep ==
    ASSUME Inv, Finish
    PROVE  Inv'
<1>1. Types /\ LeaseInv /\ RunInv
  BY DEF Inv
<1>2. /\ run # None /\ lock' = None /\ run' = None
      /\ receipt' = IF Served THEN [policy |-> run.policy, completed |-> clock] ELSE receipt
      /\ UNCHANGED <<clock, rollbacks, phase, lease, root, fate, quarantine, above, faults>>
  BY DEF Finish, EndRun, time, build
<1>3. receipt' \in Receipt \cup {None}
  <2>1. Served => run.policy \in Policies
    BY <1>1, <1>2 DEF Served, RunInv
  <2> QED
    BY <1>1, <1>2, <2>1 DEF Types, Receipt
<1>4. Types'
  BY <1>1, <1>2, <1>3 DEF Types
<1> QED
  BY <1>2, <1>4, QuietStep

LEMMA InvStep == Inv /\ [Next]_vars => Inv'
<1> SUFFICES ASSUME Inv, [Next]_vars PROVE Inv'
  OBVIOUS
<1>1. CASE Tick \/ Slide \/ SetBack
  BY <1>1, TimeStep
<1>2. CASE \E b \in Builds : Begin(b)
  BY <1>2, BeginStep
<1>3. CASE Starts
  BY <1>3, StartStep DEF Starts, Modes
<1>4. CASE BreakOff
  BY <1>4, BreakOffStep
<1>5. CASE Decide
  BY <1>5, DecideStep
<1>6. CASE Sweep
  BY <1>6, SweepStep
<1>7. CASE Finish
  BY <1>7, FinishStep
<1>8. CASE \E b \in Builds : BuildStep(b)
  BY <1>8, LeaseStep, CompleteStep, CleanupStep, FailStep, CrashStep DEF BuildStep
<1>9. CASE \E b \in Builds : InspectRoot(b)
  BY <1>9, InspectStep
<1>10. CASE UNCHANGED vars
  <2>1. Slid => Slid'
    BY <1>10 DEF vars, time, Slid
  <2>2. RecoveryInv'
    BY <1>10, <2>1, RootsKept DEF Inv, vars
  <2> QED
    BY <1>10, <2>2 DEF vars, time, build, cache, Inv, Types, LeaseInv, RunInv
<1> QED
  BY <1>1, <1>2, <1>3, <1>4, <1>5, <1>6, <1>7, <1>8, <1>9, <1>10 DEF Next, Work

\* Every behaviour keeps the inductive invariant.
THEOREM Invariance == Spec => []Inv
BY InitInv, InvStep, PTL DEF Spec

-----------------------------------------------------------------------------
(* The properties.                                                         *)

\* Nobody touches the record of a build at work, so that finish() and fail() find the record
\* that they expect; and an immutable sweep is made only when every root that is left was
\* concluded by its build, whatever died, threw or was marked before.
THEOREM LeasesAreSound == Spec => []WorkIsSound
<1>1. Inv => TypeOK
  BY DEF Inv, Types, LeaseInv, TypeOK, Phases, Receipt
<1>2. Inv => LeaseUndisturbed
  BY DEF Inv, LeaseInv, LeaseUndisturbed
<1>3. Inv => SweepOnlyOverConcludedWork
  BY DEF Inv, RunInv, SweepOnlyOverConcludedWork, Concluded
<1> QED
  BY <1>1, <1>2, <1>3, Invariance, PTL DEF WorkIsSound

\* While a run is under way, only the inspection of a root removes or marks it.
LEMMA ChangedByInspection ==
    ASSUME Types, LeaseInv, RunInv, Next, run # None,
           NEW b \in Builds, root[b] # None,
           root'[b] = None \/ (root'[b].status = "abandoned" /\ root[b].status # "abandoned")
    PROVE  /\ InspectRoot(b)
           /\ IF root'[b] = None THEN Inspect(root[b], run.now).action = "remove"
              ELSE root'[b] = Inspect(root[b], run.now).record
<1>1. lock = Maintenance /\ \A c \in Builds : phase[c] \in {"new", "ended"}
  BY RunTypes
<1>2. ~Tick /\ ~SetBack /\ ~Slide
  BY <1>1, PeriodAssumption DEF Tick, SetBack, Slide
<1>3. \A c \in Builds : ~Begin(c) /\ ~BuildStep(c)
  BY <1>1, PeriodAssumption
     DEF Begin, BuildStep, Lease, Complete, Cleanup, FailLease, CrashBuild
<1>4. ~Starts /\ ~Decide /\ ~Sweep /\ ~Finish
  BY DEF Starts, Start, Decide, Sweep, Finish
<1>5. ~BreakOff
  <2>1. /\ bareRoot(clock) # None /\ bareRoot(clock).status = "bare"
        /\ tornRecord # None /\ tornRecord.status = "torn"
    BY RecordTypes, TornRecord, NoneIsNothing DEF Types, bareRoot
  <2> QED
    BY <2>1 DEF BreakOff, PartlyRemoved, Types
<1>6. PICK c \in Builds : InspectRoot(c)
  BY <1>2, <1>3, <1>4, <1>5 DEF Next, Work
<1> DEFINE v == Inspect(root[c], run.now)
<1>7. IF v.action = "remove" THEN Removed(c) ELSE root' = [root EXCEPT ![c] = v.record]
  BY <1>6 DEF InspectRoot
<1>8. c = b
  BY <1>7 DEF Removed, Types
<1>9. v.record # None
  <2>1. root[b] \in Record /\ run.now \in 0 .. MaxTime
    BY DEF Types, RunInv
  <2> QED
    BY <1>8, <2>1, InspectFacts, NoneIsNothing
<1>10. IF root'[b] = None THEN v.action = "remove" ELSE root'[b] = v.record
  BY <1>7, <1>8, <1>9 DEF Removed, Types
<1> QED
  BY <1>6, <1>8, <1>10

\* inspectWorkRoot removes nothing that a build is at work on, and nothing of an interrupted or
\* failed build before its recovery period is over by the clock that maintenance reads: for
\* interrupted work, that of the mark which an earlier run left, and which no run leaves before
\* the work was quiescent.
THEOREM RecoveryTime == Spec => WorkKeptForRecovery
<1>1. ASSUME Inv, Next, NEW b \in Builds, run # None, root[b] # None
      PROVE  /\ Types /\ LeaseInv /\ RunInv
             /\ root[b] \in Record /\ run.now \in 0 .. MaxTime
             /\ Kept(root[b], fate[b], Slid) /\ phase[b] = "ended"
  <2>1. Types /\ LeaseInv /\ RunInv /\ RecoveryInv
    BY <1>1 DEF Inv
  <2>2. phase[b] = "ended"
    BY <1>1, <2>1, RunTypes
  <2> QED
    BY <1>1, <2>1, <2>2 DEF Types, RunInv, RecoveryInv
<1>2. ASSUME Inv, Next, NEW b \in Builds, Marks(b)
      PROVE  MarkedInTime(b)
  <2>1. root'[b] = Inspect(root[b], run.now).record
    BY <1>1, <1>2, ChangedByInspection DEF Marks
  <2>2. root'[b].updated = run.now /\ run.now >= root[b].updated + Quiescent
    BY <1>1, <1>2, <2>1, InspectFacts DEF Marks
  <2> QED
    BY <1>1, <1>2, <2>2 DEF Marks, MarkedInTime
<1>3. ASSUME Inv, Next, NEW b \in Builds, Removes(b)
      PROVE  RecoveryIsOver(b)
  <2>1. /\ run # None /\ root[b] # None /\ root'[b] = None
        /\ root[b] \in Record /\ run.now \in 0 .. MaxTime
        /\ Kept(root[b], fate[b], Slid) /\ phase[b] = "ended"
    BY <1>1, <1>3 DEF Removes
  <2>2. Inspect(root[b], run.now).action = "remove"
    BY <1>1, <1>3, <2>1, ChangedByInspection
  <2>3. /\ root[b].status \in {"failed", "completed", "abandoned"}
        /\ root[b].status = "failed" => root[b].until # None
        /\ root[b].status # "completed" => ~(run.now < root[b].until)
    BY <2>1, <2>2, InspectFacts
  <2>4. /\ root[b].updated \in Nat /\ run.now \in Nat
        /\ Slid => run.now = MaxTime
    BY <2>1, TimesNat, PeriodAssumption DEF Record, Slid
  <2>5. /\ AbandonedRecovery \in Nat /\ FailedRecovery \in Nat
        /\ AbandonedRecovery <= MaxTime /\ FailedRecovery <= MaxTime
    BY PeriodAssumption, WindowAssumption
  <2>6. ASSUME NEW period \in Nat, period <= MaxTime,
               Later(root[b].until, root[b].updated, period, Slid), ~(run.now < root[b].until)
        PROVE  run.now >= root[b].until /\ run.now >= root[b].updated + period
    BY <2>4, <2>6 DEF Later
  <2>7. ASSUME root[b].status = "abandoned"
        PROVE  run.now >= root[b].until /\ run.now >= root[b].updated + AbandonedRecovery
    <3>1. Later(root[b].until, root[b].updated, AbandonedRecovery, Slid)
      BY <2>1, <2>7 DEF Kept, Abandoned
    <3> QED
      BY <2>3, <2>6, <2>7, <2>5, <3>1
  <2>8. fate[b] = "interrupted" => root[b].status = "abandoned"
    BY <2>1, <2>3 DEF Kept, Interrupted
  <2>9. ASSUME fate[b] = "failed"
        PROVE  run.now >= root[b].updated + FailedRecovery
    <3>1. /\ root[b].status = "failed"
          /\ root[b].until # None => Later(root[b].until, root[b].updated, FailedRecovery, Slid)
      BY <2>1, <2>9 DEF Kept, Failed
    <3> QED
      BY <2>3, <2>6, <2>5, <3>1
  <2> QED
    BY <2>1, <2>7, <2>8, <2>9 DEF RecoveryIsOver
<1>4. ASSUME Inv, [Next]_vars
      PROVE  [\A b \in Builds :
                 (Marks(b) => MarkedInTime(b)) /\ (Removes(b) => RecoveryIsOver(b))]_vars
  BY <1>2, <1>3, <1>4
<1> QED
  BY <1>4, Invariance, PTL DEF Spec, WorkKeptForRecovery

=============================================================================
