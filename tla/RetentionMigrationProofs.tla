----------------------- MODULE RetentionMigrationProofs -----------------------
(***************************************************************************)
(* The retention migration bounds what should expire, keeps what should    *)
(* not, and deletes nothing early, for any accounts, any retention and any *)
(* time the migration may take, however often it is interrupted.           *)
(***************************************************************************)
EXTENDS RetentionMigration, TLAPS

\* A job record the runs can have written or the migration can have left: without
\* a TTL, or bounded and expiring neither early nor much too late.
GoodJob(r) ==
  r # NoRecord =>
    /\ r \in JobState
    /\ r.ttl # NoTTL => /\ r.bounded
                        /\ Retention <= r.ttl + r.age
                        /\ r.ttl + r.age <= Oldest

\* A job of the time before TTLs that the migration has still to find.
Unmigrated(r) == r # NoRecord /\ r.bounded /\ r.ttl = NoTTL

\* What the migration has still to find is among what its SCAN has still to return,
\* and there is none once it has gone on.
Progress ==
  /\ marker => step = "off"
  /\ step = "jobs" => \A a \in Holder : Unmigrated(record[a]) => a \in unseen
  /\ step \in {"actions", "mark"} \/ marker => \A a \in Holder : ~Unmigrated(record[a])
  /\ step = "actions" => \A a \in Holder : action[a] = NoTTL => a \in unseen
  /\ step = "mark" \/ marker => \A a \in Holder : action[a] # NoTTL

RetentionInv ==
  /\ RetentionTypeOK
  /\ \A a \in Holder : GoodJob(record[a])
  /\ Progress

-----------------------------------------------------------------------------
(* Numbers and records *)

\* What is known of the constants.
LEMMA Bounds ==
  /\ Retention \in Nat /\ Retention # 0 /\ MaxScan \in Nat
  /\ Oldest \in Nat /\ Oldest = Retention + MaxScan
  /\ NoTTL \in Nat /\ NoTTL = Oldest + 1 /\ NoKey = 0
BY RetentionAssumption DEF Oldest, NoTTL, NoKey

\* A stored job is not the absence of one.
LEMMA JobIsRecord == ASSUME NEW r \in JobState PROVE r # NoRecord
<1>1. r.ttl \in 1..NoTTL  BY DEF JobState
<1>2. r.ttl # 0  BY <1>1, Bounds
<1> QED  BY <1>2 DEF NoRecord, NoKey

\* The fields of a job and their ranges.
LEMMA JobFields ==
  ASSUME NEW r \in JobState
  PROVE  r.bounded \in BOOLEAN /\ r.age \in 0..Oldest /\ r.ttl \in 1..NoTTL
BY DEF JobState

\* What the migration makes of a good record is good, bounded if it should be, and
\* there unless its retention is over.
LEMMA RetainedIsGood ==
  ASSUME NEW r, GoodJob(r), elapsed \in 0..MaxScan
  PROVE  /\ GoodJob(Retained(r))
         /\ ~Unmigrated(Retained(r))
         /\ r # NoRecord /\ Retained(r) = NoRecord => r.bounded /\ r.age >= Retention
<1>1. CASE r = NoRecord
  <2>1. ~r.bounded  BY <1>1 DEF NoRecord
  <2>2. Retained(r) = NoRecord  BY <1>1, <2>1 DEF Retained
  <2> QED  BY <1>1, <2>2 DEF Unmigrated, GoodJob
<1>2. CASE r # NoRecord /\ ~r.bounded
  <2>1. Retained(r) = r  BY <1>2 DEF Retained
  <2> QED  BY <1>2, <2>1 DEF Unmigrated
<1>3. CASE r # NoRecord /\ r.bounded
  <2>0. r \in JobState  BY <1>3 DEF GoodJob
  <2>1. r.age \in 0..Oldest /\ r.ttl \in 1..NoTTL  BY <2>0, JobFields
  <2> DEFINE rest == RemainingTTL(r)
  <2>2. /\ rest \in 0..Retention
        /\ rest = 0 => r.age >= Retention
        /\ rest # 0 => Retention <= rest + r.age /\ rest + r.age <= Oldest
    BY <2>1, Bounds DEF RemainingTTL, AgeThen
  <2>3. Retained(r) = IF rest = 0 THEN NoRecord ELSE [r EXCEPT !.ttl = rest]
    BY <1>3 DEF Retained
  <2> HIDE DEF rest
  <2>4. CASE rest = 0
    BY <1>3, <2>2, <2>3, <2>4 DEF GoodJob, Unmigrated
  <2>5. CASE rest # 0
    <3>1. rest \in 1..NoTTL /\ rest # NoTTL  BY <2>2, <2>5, Bounds
    <3>2. [r EXCEPT !.ttl = rest] \in JobState  BY <2>0, <3>1 DEF JobState
    <3>3. /\ [r EXCEPT !.ttl = rest].ttl = rest
          /\ [r EXCEPT !.ttl = rest].age = r.age
          /\ [r EXCEPT !.ttl = rest].bounded = r.bounded
      BY <2>0 DEF JobState
    <3>4. Retained(r) = [r EXCEPT !.ttl = rest]  BY <2>3, <2>5
    <3>5. Retained(r) \in JobState /\ Retained(r).ttl = rest /\ Retained(r).age = r.age
      BY <3>2, <3>3, <3>4
    <3>6. Retained(r).bounded  BY <1>3, <3>3, <3>4
    <3>7. Retained(r) # NoRecord  BY <3>5, JobIsRecord
    <3> QED  BY <2>2, <2>5, <3>1, <3>5, <3>6, <3>7 DEF GoodJob, Unmigrated
  <2> QED  BY <2>4, <2>5
<1> QED  BY <1>1, <1>2, <1>3

\* Time makes no good record bad and none lose its TTL, and one that expires has
\* been kept for its retention.
LEMMA AgedIsGood ==
  ASSUME NEW r, GoodJob(r)
  PROVE  /\ GoodJob(Aged(r))
         /\ Unmigrated(Aged(r)) => Unmigrated(r)
         /\ r # NoRecord /\ Aged(r) = NoRecord =>
              /\ r.bounded
              /\ r.age >= Retention \/ (r.ttl = 1 /\ r.age = Retention - 1)
<1>1. CASE r = NoRecord
  <2>1. Sooner(r.ttl) = NoKey  BY <1>1 DEF NoRecord, Sooner
  <2>2. Aged(r) = NoRecord  BY <2>1 DEF Aged
  <2> QED  BY <1>1, <2>2 DEF GoodJob, Unmigrated
<1>2. CASE r # NoRecord
  <2>0. r \in JobState  BY <1>2 DEF GoodJob
  <2>1. r.age \in 0..Oldest /\ r.ttl \in 1..NoTTL  BY <2>0, JobFields
  <2>2. r.ttl # NoTTL =>
          r.bounded /\ Retention <= r.ttl + r.age /\ r.ttl + r.age <= Oldest
    BY <1>2 DEF GoodJob
  <2> DEFINE ttl == Sooner(r.ttl)
             age == IF r.age < Oldest THEN r.age + 1 ELSE r.age
  <2>3. /\ r.ttl = NoTTL => ttl = NoTTL
        /\ r.ttl # NoTTL => ttl = r.ttl - 1
    BY <2>1, Bounds DEF Sooner
  <2>4. ttl \in 0..NoTTL /\ age \in 0..Oldest  BY <2>1, <2>3, Bounds
  <2>5. Aged(r) = IF ttl = NoKey THEN NoRecord ELSE [r EXCEPT !.age = age, !.ttl = ttl]
    BY <2>0 DEF Aged, JobState
  <2>6. r.ttl # NoTTL => age <= r.age + 1 /\ (ttl # 0 => r.age < Oldest)
    BY <2>1, <2>2, <2>3, Bounds
  <2>7. r.age < Oldest => age = r.age + 1  OBVIOUS
  <2> HIDE DEF ttl, age
  <2>8. CASE ttl = NoKey
    <3>1. Aged(r) = NoRecord  BY <2>5, <2>8
    <3>2. r.ttl # NoTTL /\ r.ttl = 1  BY <2>1, <2>3, <2>8, Bounds
    <3>3. r.bounded  BY <2>2, <3>2
    <3>4. r.age >= Retention \/ r.age = Retention - 1  BY <2>1, <2>2, <3>2, Bounds
    <3> QED  BY <3>1, <3>2, <3>3, <3>4 DEF GoodJob, Unmigrated
  <2>9. CASE ttl # NoKey
    <3>1. ttl \in 1..NoTTL  BY <2>4, <2>9, Bounds
    <3>2. Aged(r) = [r EXCEPT !.age = age, !.ttl = ttl]  BY <2>5, <2>9
    <3>3. Aged(r) \in JobState  BY <2>0, <2>4, <3>1, <3>2 DEF JobState
    <3>4. Aged(r).ttl = ttl /\ Aged(r).age = age /\ Aged(r).bounded = r.bounded
      BY <2>0, <3>2 DEF JobState
    <3>5. Aged(r) # NoRecord  BY <3>3, JobIsRecord
    <3>6. ttl # NoTTL => r.ttl # NoTTL  BY <2>3
    <3>7. ttl # NoTTL => Retention <= ttl + age /\ ttl + age <= Oldest
      BY <2>1, <2>2, <2>3, <2>4, <2>6, <2>7, <2>9, <3>6, Bounds
    <3>8. ttl # NoTTL => Aged(r).bounded  BY <2>2, <3>4, <3>6
    <3>9. GoodJob(Aged(r))  BY <3>3, <3>4, <3>7, <3>8 DEF GoodJob
    <3>10. Unmigrated(Aged(r)) => Unmigrated(r)
      <4>1. ttl = NoTTL => r.ttl = NoTTL  BY <2>1, <2>3, Bounds
      <4> QED  BY <1>2, <3>4, <4>1 DEF Unmigrated
    <3> QED  BY <3>5, <3>9, <3>10
  <2> QED  BY <2>8, <2>9
<1> QED  BY <1>1, <1>2

\* What set_job writes is good and needs no migration.
LEMMA SetJobIsGood ==
  ASSUME NEW bounded \in BOOLEAN
  PROVE  LET r == [bounded |-> bounded, age |-> 0,
                   ttl |-> IF bounded THEN Retention ELSE NoTTL]
         IN  GoodJob(r) /\ ~Unmigrated(r) /\ r # NoRecord /\ r \in JobState
<1> DEFINE r == [bounded |-> bounded, age |-> 0,
                 ttl |-> IF bounded THEN Retention ELSE NoTTL]
<1>1. (IF bounded THEN Retention ELSE NoTTL) \in 1..NoTTL  BY Bounds
<1>2. 0 \in 0..Oldest  BY Bounds
<1>3. r \in JobState  BY <1>1, <1>2 DEF JobState
<1>4. r # NoRecord  BY <1>3, JobIsRecord
<1>5. CASE bounded
  <2>1. r.ttl = Retention /\ r.age = 0 /\ r.bounded  BY <1>5
  <2>2. Retention # NoTTL /\ Retention <= Retention + 0 /\ Retention + 0 <= Oldest
    BY Bounds
  <2> QED  BY <1>3, <1>4, <2>1, <2>2 DEF GoodJob, Unmigrated
<1>6. CASE ~bounded
  <2>1. r.ttl = NoTTL /\ ~r.bounded  BY <1>6
  <2> QED  BY <1>3, <1>4, <2>1 DEF GoodJob, Unmigrated
<1> QED  BY <1>5, <1>6

-----------------------------------------------------------------------------
(* The steps *)

\* What a step does to a record when it does nothing, or migrates some of them.
LEMMA UpdateKeeps ==
  ASSUME RetentionInv, NEW done \in SUBSET Holder, UpdateJobs(done)
  PROVE  /\ record' \in [Holder -> JobState \cup {NoRecord}]
         /\ \A a \in Holder : GoodJob(record'[a])
         /\ \A a \in Holder : Unmigrated(record'[a]) => a \notin done /\ Unmigrated(record[a])
         /\ \A a \in Jobs : record'[a] = NoRecord =>
              record[a].bounded /\ record[a].age >= Retention
<1>0. elapsed \in 0..MaxScan  BY DEF RetentionInv, RetentionTypeOK
<1>1. ASSUME NEW a \in Holder
      PROVE  /\ GoodJob(record[a])
             /\ GoodJob(Retained(record[a]))
             /\ ~Unmigrated(Retained(record[a]))
             /\ record[a] # NoRecord /\ Retained(record[a]) = NoRecord =>
                  record[a].bounded /\ record[a].age >= Retention
  BY <1>0, RetainedIsGood DEF RetentionInv
<1>2. record' = [a \in Holder |-> IF a \in done THEN Retained(record[a]) ELSE record[a]]
  BY DEF UpdateJobs
<1>3. \A a \in Holder : record'[a] = IF a \in done THEN Retained(record[a]) ELSE record[a]
  BY <1>2
<1>4. \A a \in Holder : GoodJob(record'[a])  BY <1>1, <1>3
<1>5. \A a \in Holder : record'[a] \in JobState \cup {NoRecord}  BY <1>4 DEF GoodJob
<1>6. record' \in [Holder -> JobState \cup {NoRecord}]  BY <1>2, <1>3, <1>5
<1>7. \A a \in Holder : Unmigrated(record'[a]) => a \notin done /\ Unmigrated(record[a])
  BY <1>1, <1>3
<1>8. \A a \in Jobs : record'[a] = NoRecord =>
        record[a].bounded /\ record[a].age >= Retention
  BY <1>1, <1>3 DEF Jobs
<1> QED  BY <1>4, <1>6, <1>7, <1>8

\* What a page of EXPIREs does to the actions.
LEMMA ActionsKeep ==
  ASSUME RetentionInv, NEW done \in SUBSET Holder, UpdateActions(done)
  PROVE  /\ action' \in [Holder -> NoKey..NoTTL]
         /\ \A a \in Holder : action'[a] = NoTTL => a \notin done /\ action[a] = NoTTL
<1>1. action \in [Holder -> NoKey..NoTTL]  BY DEF RetentionInv, RetentionTypeOK
<1>2. Retention \in NoKey..NoTTL /\ Retention # NoTTL /\ NoTTL # NoKey  BY Bounds
<1>3. action' = [a \in Holder |-> IF a \in done \cap Actions THEN Retention ELSE action[a]]
  BY DEF UpdateActions
<1>4. action' \in [Holder -> NoKey..NoTTL]  BY <1>1, <1>2, <1>3
<1>5. ASSUME NEW a \in Holder, action'[a] = NoTTL PROVE a \notin done /\ action[a] = NoTTL
  <2>1. a \notin done \cap Actions  BY <1>2, <1>3, <1>5
  <2>2. action[a] = NoTTL  BY <1>3, <1>5, <2>1
  <2> QED  BY <1>2, <2>1, <2>2 DEF Actions
<1> QED  BY <1>4, <1>5

\* At its start a migration has all keys still to see.
LEMMA StartInv == ASSUME RetentionInv, StartMigration PROVE RetentionInv'
<1>1. /\ step' = "jobs" /\ unseen' = Jobs /\ record' = record /\ action' = action
      /\ marker' = marker /\ elapsed' = elapsed /\ ~marker
  BY DEF StartMigration
<1>2. RetentionTypeOK'  BY <1>1 DEF RetentionInv, RetentionTypeOK, Jobs
<1>3. \A a \in Holder : Unmigrated(record[a]) => a \in Jobs  BY DEF Unmigrated, Jobs
<1>4. Progress'  BY <1>1, <1>3 DEF Progress, Unmigrated
<1> QED  BY <1>1, <1>2, <1>4 DEF RetentionInv, GoodJob

\* A page of jobs leaves none of those seen unmigrated.
LEMMA MigrateJobsInv == ASSUME RetentionInv, MigrateJobs PROVE RetentionInv'
<1>1. PICK returned \in SUBSET Jobs \ {{}} : UpdateJobs(returned) /\ unseen' = unseen \ returned
  BY DEF MigrateJobs
<1>2. /\ step = "jobs" /\ step' = "jobs" /\ action' = action /\ marker' = marker
      /\ elapsed' = elapsed
  BY DEF MigrateJobs
<1>3. returned \in SUBSET Holder  BY DEF Jobs
<1>4. /\ record' \in [Holder -> JobState \cup {NoRecord}]
      /\ \A a \in Holder : GoodJob(record'[a])
      /\ \A a \in Holder : Unmigrated(record'[a]) => a \notin returned /\ Unmigrated(record[a])
  BY <1>1, <1>3, UpdateKeeps
<1>5. RetentionTypeOK'  BY <1>1, <1>2, <1>4 DEF RetentionInv, RetentionTypeOK
<1>6. \A a \in Holder : Unmigrated(record'[a]) => a \in unseen'
  BY <1>1, <1>2, <1>4 DEF RetentionInv, Progress
<1>7. ~marker'  BY <1>2 DEF RetentionInv, Progress
<1>8. Progress'  BY <1>2, <1>6, <1>7 DEF Progress, Unmigrated
<1> QED  BY <1>4, <1>5, <1>8 DEF RetentionInv, GoodJob

\* With none left to see, no job is unmigrated.
LEMMA JobsDoneInv == ASSUME RetentionInv, JobsDone PROVE RetentionInv'
<1>1. /\ step = "jobs" /\ unseen = {} /\ step' = "actions" /\ unseen' = Actions
      /\ record' = record /\ action' = action /\ marker' = marker /\ elapsed' = elapsed
  BY DEF JobsDone
<1>2. RetentionTypeOK'  BY <1>1 DEF RetentionInv, RetentionTypeOK, Actions
<1>3. \A a \in Holder : ~Unmigrated(record[a])  BY <1>1 DEF RetentionInv, Progress
<1>4. \A a \in Holder : action[a] = NoTTL => a \in Actions  BY Bounds DEF Actions
<1>5. ~marker  BY <1>1 DEF RetentionInv, Progress
<1>6. Progress'  BY <1>1, <1>3, <1>4, <1>5 DEF Progress, Unmigrated
<1> QED  BY <1>1, <1>2, <1>6 DEF RetentionInv, GoodJob

\* A page of actions leaves none of those seen without a TTL.
LEMMA MigrateActionsInv == ASSUME RetentionInv, MigrateActions PROVE RetentionInv'
<1>1. PICK returned \in SUBSET Actions \ {{}} :
        UpdateActions(returned) /\ unseen' = unseen \ returned
  BY DEF MigrateActions
<1>2. /\ step = "actions" /\ step' = "actions" /\ record' = record /\ marker' = marker
      /\ elapsed' = elapsed
  BY DEF MigrateActions
<1>3. returned \in SUBSET Holder  BY DEF Actions
<1>4. /\ action' \in [Holder -> NoKey..NoTTL]
      /\ \A a \in Holder : action'[a] = NoTTL => a \notin returned /\ action[a] = NoTTL
  BY <1>1, <1>3, ActionsKeep
<1>5. RetentionTypeOK'  BY <1>1, <1>2, <1>4 DEF RetentionInv, RetentionTypeOK
<1>6. \A a \in Holder : action'[a] = NoTTL => a \in unseen'
  BY <1>1, <1>2, <1>4 DEF RetentionInv, Progress
<1>7. ~marker' /\ \A a \in Holder : ~Unmigrated(record[a])
  BY <1>2 DEF RetentionInv, Progress
<1>8. Progress'  BY <1>2, <1>6, <1>7 DEF Progress, Unmigrated
<1> QED  BY <1>2, <1>5, <1>8 DEF RetentionInv, GoodJob

\* With none left to see, all actions have TTLs.
LEMMA ActionsDoneInv == ASSUME RetentionInv, ActionsDone PROVE RetentionInv'
<1>1. /\ step = "actions" /\ unseen = {} /\ step' = "mark" /\ unseen' = unseen
      /\ record' = record /\ action' = action /\ marker' = marker /\ elapsed' = elapsed
  BY DEF ActionsDone
<1>2. RetentionTypeOK'  BY <1>1 DEF RetentionInv, RetentionTypeOK
<1>3. /\ \A a \in Holder : ~Unmigrated(record[a])
      /\ \A a \in Holder : action[a] # NoTTL
      /\ ~marker
  BY <1>1 DEF RetentionInv, Progress
<1>4. Progress'  BY <1>1, <1>3 DEF Progress, Unmigrated
<1> QED  BY <1>1, <1>2, <1>4 DEF RetentionInv, GoodJob

\* Leaving keeps the invariant if what it leaves is good, and marked only if all is
\* done.
LEMMA LeaveInv ==
  ASSUME RetentionInv, Leave,
         record' \in [Holder -> JobState \cup {NoRecord}],
         \A a \in Holder : GoodJob(record'[a]),
         action' \in [Holder -> NoKey..NoTTL],
         marker' \in BOOLEAN,
         marker' => /\ \A a \in Holder : ~Unmigrated(record'[a])
                    /\ \A a \in Holder : action'[a] # NoTTL
  PROVE  RetentionInv'
<1>1. step' = "off" /\ elapsed' = 0 /\ unseen' = {}  BY DEF Leave
<1>2. 0 \in 0..MaxScan  BY Bounds
<1>3. RetentionTypeOK'  BY <1>1, <1>2 DEF RetentionTypeOK
<1>4. Progress'  BY <1>1 DEF Progress, Unmigrated
<1> QED  BY <1>3, <1>4 DEF RetentionInv, GoodJob

\* The marker is set when nothing is left to migrate.
LEMMA SetMarkerInv == ASSUME RetentionInv, SetMarker PROVE RetentionInv'
<1>1. step = "mark" /\ marker' = TRUE /\ Leave /\ record' = record /\ action' = action
  BY DEF SetMarker
<1>2. /\ \A a \in Holder : ~Unmigrated(record[a])
      /\ \A a \in Holder : action[a] # NoTTL
  BY <1>1 DEF RetentionInv, Progress
<1> QED  BY <1>1, <1>2, LeaveInv DEF RetentionInv, RetentionTypeOK

\* An interruption does nothing bad, and marks only if all is done.
LEMMA InterruptedInv == ASSUME RetentionInv, Interrupted PROVE RetentionInv'
<1>0. Leave /\ ~marker /\ marker \in BOOLEAN
  BY DEF Interrupted, RetentionInv, RetentionTypeOK, Progress
<1>1. ASSUME step = "jobs", NEW done \in SUBSET Holder, UpdateJobs(done),
             UNCHANGED <<action, marker>>
      PROVE  RetentionInv'
  <2>1. /\ record' \in [Holder -> JobState \cup {NoRecord}]
        /\ \A a \in Holder : GoodJob(record'[a])
    BY <1>1, UpdateKeeps
  <2> QED  BY <1>0, <1>1, <2>1, LeaveInv DEF RetentionInv, RetentionTypeOK
<1>2. ASSUME step = "actions", NEW done \in SUBSET Holder, UpdateActions(done),
             UNCHANGED <<record, marker>>
      PROVE  RetentionInv'
  <2>1. action' \in [Holder -> NoKey..NoTTL]  BY <1>2, ActionsKeep
  <2> QED  BY <1>0, <1>2, <2>1, LeaveInv DEF RetentionInv, RetentionTypeOK
<1>3. ASSUME step = "mark", marker' \in BOOLEAN, UNCHANGED <<record, action>>
      PROVE  RetentionInv'
  <2>1. /\ \A a \in Holder : ~Unmigrated(record[a])
        /\ \A a \in Holder : action[a] # NoTTL
    BY <1>3 DEF RetentionInv, Progress
  <2> QED  BY <1>0, <1>3, <2>1, LeaveInv DEF RetentionInv, RetentionTypeOK
<1> QED  BY <1>1, <1>2, <1>3 DEF Interrupted

\* Runs write good jobs.
LEMMA WriteRecordInv == ASSUME RetentionInv, WriteRecord PROVE RetentionInv'
<1>1. PICK a \in Holder, bounded \in BOOLEAN : SetJob(a, bounded)  BY DEF WriteRecord
<1> DEFINE r == [bounded |-> bounded, age |-> 0,
                 ttl |-> IF bounded THEN Retention ELSE NoTTL]
<1>2. GoodJob(r) /\ ~Unmigrated(r) /\ r \in JobState  BY SetJobIsGood
<1>3. record' = [record EXCEPT ![a] = r]  BY <1>1 DEF SetJob
<1> HIDE DEF r
<1>4. record \in [Holder -> JobState \cup {NoRecord}]  BY DEF RetentionInv, RetentionTypeOK
<1>5. /\ step = "off" /\ step' = step /\ action' = action /\ marker' = marker
      /\ elapsed' = elapsed /\ unseen' = unseen
  BY DEF WriteRecord
<1>6. \A h \in Holder : record'[h] = IF h = a THEN r ELSE record[h]  BY <1>3, <1>4
<1>7. RetentionTypeOK'
  <2>1. record' \in [Holder -> JobState \cup {NoRecord}]  BY <1>2, <1>3, <1>4
  <2> QED  BY <1>5, <2>1 DEF RetentionInv, RetentionTypeOK
<1>8. \A h \in Holder : GoodJob(record'[h])  BY <1>2, <1>6 DEF RetentionInv
<1>9. \A h \in Holder : Unmigrated(record'[h]) => Unmigrated(record[h])  BY <1>2, <1>6
<1>10. Progress'  BY <1>5, <1>9 DEF RetentionInv, Progress, Unmigrated
<1> QED  BY <1>7, <1>8, <1>10 DEF RetentionInv, GoodJob

\* Clicks record actions with TTLs.
LEMMA RecordActionInv == ASSUME RetentionInv, RecordAction PROVE RetentionInv'
<1>1. PICK a \in Holder : action' = [action EXCEPT ![a] = Retention]  BY DEF RecordAction
<1>2. /\ record' = record /\ marker' = marker /\ step' = step /\ elapsed' = elapsed
      /\ unseen' = unseen
  BY DEF RecordAction
<1>3. action \in [Holder -> NoKey..NoTTL]  BY DEF RetentionInv, RetentionTypeOK
<1>4. Retention \in NoKey..NoTTL /\ Retention # NoTTL  BY Bounds
<1>5. action' \in [Holder -> NoKey..NoTTL]  BY <1>1, <1>3, <1>4
<1>6. \A h \in Holder : action'[h] = NoTTL => action[h] = NoTTL  BY <1>1, <1>3, <1>4
<1>7. RetentionTypeOK'  BY <1>2, <1>5 DEF RetentionInv, RetentionTypeOK
<1>8. Progress'  BY <1>2, <1>6 DEF RetentionInv, Progress, Unmigrated
<1> QED  BY <1>2, <1>7, <1>8 DEF RetentionInv, GoodJob

\* Time keeps the invariant.
LEMMA TickInv == ASSUME RetentionInv, Tick PROVE RetentionInv'
<1>1. /\ record' = [a \in Holder |-> Aged(record[a])]
      /\ action' = [a \in Holder |-> Sooner(action[a])]
      /\ marker' = marker /\ step' = step
      /\ unseen' = {a \in unseen : IF step = "jobs" THEN record'[a] # NoRecord
                                                    ELSE action'[a] # NoKey}
  BY DEF Tick
<1>2. elapsed' \in 0..MaxScan
  <2>1. elapsed \in 0..MaxScan  BY DEF RetentionInv, RetentionTypeOK
  <2>2. elapsed' = elapsed \/ (elapsed < MaxScan /\ elapsed' = elapsed + 1)  BY DEF Tick
  <2> QED  BY <2>1, <2>2, Bounds
<1>3. \A a \in Holder : /\ GoodJob(record'[a])
                        /\ Unmigrated(record'[a]) => Unmigrated(record[a])
  BY <1>1, AgedIsGood DEF RetentionInv
<1>4. action \in [Holder -> NoKey..NoTTL]  BY DEF RetentionInv, RetentionTypeOK
<1>5. \A a \in Holder : /\ action'[a] \in NoKey..NoTTL
                        /\ action'[a] = NoTTL => action[a] = NoTTL
  BY <1>1, <1>4, Bounds DEF Sooner
<1>6. RetentionTypeOK'
  <2>1. \A a \in Holder : record'[a] \in JobState \cup {NoRecord}  BY <1>3 DEF GoodJob
  <2>2. record' \in [Holder -> JobState \cup {NoRecord}]  BY <1>1, <2>1
  <2>3. action' \in [Holder -> NoKey..NoTTL]  BY <1>1, <1>5
  <2>4. unseen' \subseteq Holder  BY <1>1 DEF RetentionInv, RetentionTypeOK
  <2> QED  BY <1>1, <1>2, <2>2, <2>3, <2>4 DEF RetentionInv, RetentionTypeOK
<1>7. step = "jobs" => \A a \in Holder : Unmigrated(record'[a]) => a \in unseen'
  <2> SUFFICES ASSUME step = "jobs", NEW a \in Holder, Unmigrated(record'[a])
               PROVE  a \in unseen'
    OBVIOUS
  <2>1. a \in unseen  BY <1>3 DEF RetentionInv, Progress
  <2>2. record'[a] # NoRecord  BY DEF Unmigrated
  <2> QED  BY <1>1, <2>1, <2>2
<1>8. step = "actions" => \A a \in Holder : action'[a] = NoTTL => a \in unseen'
  <2> SUFFICES ASSUME step = "actions", NEW a \in Holder, action'[a] = NoTTL
               PROVE  a \in unseen'
    OBVIOUS
  <2>1. a \in unseen  BY <1>5 DEF RetentionInv, Progress
  <2>2. action'[a] # NoKey  BY Bounds
  <2> QED  BY <1>1, <2>1, <2>2
<1>9. Progress'
  BY <1>1, <1>3, <1>5, <1>7, <1>8 DEF RetentionInv, Progress, Unmigrated
<1> QED  BY <1>3, <1>6, <1>9 DEF RetentionInv, GoodJob

\* What was stored before TTLs is good.
LEMMA RetentionInitInv == RetentionInit => RetentionInv
<1> SUFFICES ASSUME RetentionInit PROVE RetentionInv  OBVIOUS
<1>1. record \in [Holder -> {r \in JobState : r.ttl = NoTTL} \cup {NoRecord}]
  BY DEF RetentionInit
<1>2. \A a \in Holder : GoodJob(record[a])  BY <1>1 DEF GoodJob
<1>3. record \in [Holder -> JobState \cup {NoRecord}]  BY <1>1
<1>4. action \in [Holder -> NoKey..NoTTL]  BY Bounds DEF RetentionInit
<1>5. 0 \in 0..MaxScan  BY Bounds
<1>6. marker = FALSE /\ step = "off" /\ elapsed = 0 /\ unseen = {}  BY DEF RetentionInit
<1>7. RetentionTypeOK  BY <1>3, <1>4, <1>5, <1>6 DEF RetentionTypeOK
<1>8. Progress  BY <1>6 DEF Progress
<1> QED  BY <1>2, <1>7, <1>8 DEF RetentionInv

\* Every step keeps the invariant.
LEMMA RetentionStepInv == RetentionInv /\ [RetentionNext]_retentionVars => RetentionInv'
<1> SUFFICES ASSUME RetentionInv, [RetentionNext]_retentionVars PROVE RetentionInv'
  OBVIOUS
<1>1. CASE UNCHANGED retentionVars
  BY <1>1 DEF retentionVars, RetentionInv, RetentionTypeOK, Progress, GoodJob, Unmigrated
<1> QED
  BY <1>1, StartInv, MigrateJobsInv, JobsDoneInv, MigrateActionsInv, ActionsDoneInv,
     SetMarkerInv, InterruptedInv, WriteRecordInv, RecordActionInv, TickInv
  DEF RetentionNext

\* The invariant always holds.
LEMMA RetentionAlways == RetentionSpec => []RetentionInv
<1>1. RetentionInv /\ [RetentionNext]_retentionVars => RetentionInv'  BY RetentionStepInv
<1> QED  BY <1>1, RetentionInitInv, PTL DEF RetentionSpec

\* A step that makes a job disappear found it past its retention.
LEMMA KeptStep ==
  ASSUME RetentionInv, [RetentionNext]_retentionVars, NEW a \in Jobs, record'[a] = NoRecord
  PROVE  /\ record[a].bounded
         /\ \/ record[a].age >= Retention
            \/ record[a].ttl = 1 /\ record[a].age = Retention - 1
<1>0. a \in Holder /\ record[a] # NoRecord /\ GoodJob(record[a])
  BY DEF Jobs, RetentionInv
<1>1. ASSUME NEW done \in SUBSET Holder, UpdateJobs(done)
      PROVE  record[a].bounded /\ record[a].age >= Retention
  BY <1>1, UpdateKeeps
<1>2. CASE MigrateJobs
  <2>1. PICK returned \in SUBSET Jobs \ {{}} : UpdateJobs(returned)  BY <1>2 DEF MigrateJobs
  <2>2. returned \in SUBSET Holder  BY DEF Jobs
  <2> QED  BY <1>1, <2>1, <2>2
<1>3. CASE Interrupted  BY <1>0, <1>1, <1>3 DEF Interrupted
<1>4. CASE WriteRecord
  <2>1. PICK h \in Holder, bounded \in BOOLEAN : SetJob(h, bounded)  BY <1>4 DEF WriteRecord
  <2> DEFINE r == [bounded |-> bounded, age |-> 0,
                   ttl |-> IF bounded THEN Retention ELSE NoTTL]
  <2>2. r # NoRecord  BY SetJobIsGood
  <2>3. record' = [record EXCEPT ![h] = r]  BY <2>1 DEF SetJob
  <2> HIDE DEF r
  <2>4. record \in [Holder -> JobState \cup {NoRecord}]
    BY DEF RetentionInv, RetentionTypeOK
  <2>5. record'[a] \in {r, record[a]}  BY <1>0, <2>3, <2>4
  <2> QED  BY <1>0, <2>2, <2>5
<1>5. CASE Tick
  <2>1. record'[a] = Aged(record[a])  BY <1>0, <1>5 DEF Tick
  <2> QED  BY <1>0, <2>1, AgedIsGood
<1>6. CASE UNCHANGED record  BY <1>0, <1>6
<1> QED
  BY <1>2, <1>3, <1>4, <1>5, <1>6
  DEF RetentionNext, StartMigration, JobsDone, MigrateActions, ActionsDone, SetMarker,
      RecordAction, retentionVars

-----------------------------------------------------------------------------
\* Once the marker stands nothing expires late or never that should expire
\* (src/src/redis.rs:452).
THEOREM MigratedIsBoundedHolds == RetentionSpec => []MigratedIsBounded
<1>1. RetentionInv => MigratedIsBounded
  <2> SUFFICES ASSUME RetentionInv, marker
               PROVE  /\ \A a \in Jobs :
                           record[a].bounded => record[a].ttl + record[a].age <= Oldest
                      /\ \A a \in Actions : action[a] # NoTTL
    BY DEF MigratedIsBounded
  <2>1. \A a \in Holder : GoodJob(record[a]) /\ ~Unmigrated(record[a]) /\ action[a] # NoTTL
    BY DEF RetentionInv, Progress
  <2> QED  BY <2>1 DEF GoodJob, Unmigrated, Jobs, Actions
<1> QED  BY <1>1, RetentionAlways, PTL

\* Failed and notification-pending jobs are never given a TTL (src/src/redis.rs:475).
THEOREM UnresolvedIsDurableHolds == RetentionSpec => []UnresolvedIsDurable
<1>1. RetentionInv => UnresolvedIsDurable
  BY DEF RetentionInv, GoodJob, UnresolvedIsDurable, Jobs
<1> QED  BY <1>1, RetentionAlways, PTL

\* No job goes before its retention is over: neither the migration, resumed or not,
\* nor the TTLs that it or set_job gave delete one early (src/src/redis.rs:755).
THEOREM KeptForRetentionHolds == RetentionSpec => KeptForRetention
<1>1. RetentionInv /\ [RetentionNext]_retentionVars =>
        [\A a \in Jobs : record'[a] = NoRecord =>
           /\ record[a].bounded
           /\ record[a].age >= Retention \/ (record[a].ttl = 1 /\ record[a].age = Retention - 1)
        ]_retentionVars
  BY KeptStep
<1> QED  BY <1>1, RetentionAlways, PTL DEF RetentionSpec, KeptForRetention
=============================================================================
