-------------------------- MODULE RetentionMigration --------------------------
(***************************************************************************)
(* cleanup_expired_records (src/src/redis.rs): a check run gives the       *)
(* records of the time before TTLs were introduced the retention that      *)
(* set_job and record_action give to new ones.  Two SCANs, over the jobs   *)
(* and over the moderation actions, then a marker; the run may fail or die *)
(* anywhere and the next check starts over.  serve records actions at any  *)
(* time; the runs that write jobs hold the run lease, as this one does, so *)
(* a job is as it was read when it is updated, or has expired.             *)
(*                                                                         *)
(* Time passes in ticks, Retention of them being 90 days.  A key keeps its *)
(* age since updated_at, up to the oldest that is told apart, and its TTL. *)
(***************************************************************************)
EXTENDS Naturals

CONSTANTS
  Holder,      \* accounts with records
  Retention,   \* ACCOUNT_STATE_RETENTION_SECS
  MaxScan      \* bound: ticks one run's migration may take

ASSUME RetentionAssumption == Retention \in Nat \ {0} /\ MaxScan \in Nat

VARIABLES
  record,      \* job:<account>
  action,      \* moderation:<account>: its TTL
  marker,      \* migration:account_state_retention_v2
  step,        \* where the migration is
  elapsed,     \* ticks since it noted the time
  unseen       \* keys the SCAN has still to return

retentionVars == <<record, action, marker, step, elapsed, unseen>>

Oldest == Retention + MaxScan
NoKey == 0
NoTTL == Oldest + 1

\* bounded: completed or processing; otherwise failed or notification-pending.
JobState == [bounded : BOOLEAN, age : 0..Oldest, ttl : 1..NoTTL]
NoRecord == [bounded |-> FALSE, age |-> 0, ttl |-> NoKey]

RetentionTypeOK ==
  /\ record \in [Holder -> JobState \cup {NoRecord}]
  /\ action \in [Holder -> NoKey..NoTTL]
  /\ marker \in BOOLEAN
  /\ step \in {"off", "jobs", "actions", "mark"}
  /\ elapsed \in 0..MaxScan
  /\ unseen \subseteq Holder

\* Whatever was stored before TTLs.
RetentionInit ==
  /\ record \in [Holder -> {r \in JobState : r.ttl = NoTTL} \cup {NoRecord}]
  /\ action \in [Holder -> {NoTTL, NoKey}]
  /\ marker = FALSE
  /\ step = "off"
  /\ elapsed = 0
  /\ unseen = {}

-----------------------------------------------------------------------------
Jobs == {a \in Holder : record[a] # NoRecord}
Actions == {a \in Holder : action[a] # NoKey}

\* remaining_job_ttl, by the time noted at the start.  Subtractions saturate.
\* Mutant of RemainingTTL: the age counts twice.
RemainingTTLTwice(r) == IF 2 * r.age < Retention THEN Retention - 2 * r.age ELSE 0
AgeThen(r) == IF r.age > elapsed THEN r.age - elapsed ELSE 0
RemainingTTL(r) == IF AgeThen(r) < Retention THEN Retention - AgeThen(r) ELSE 0

\* What the migration makes of a record: DEL, EXPIRE or nothing.
Retained(r) ==
  IF ~r.bounded THEN r
  ELSE IF RemainingTTL(r) = 0 THEN NoRecord
  ELSE [r EXCEPT !.ttl = RemainingTTL(r)]

\* A check finds no marker.
StartMigration ==
  /\ step = "off" /\ ~marker
  /\ step' = "jobs"
  /\ unseen' = Jobs
  /\ UNCHANGED <<record, action, marker, elapsed>>

UpdateJobs(done) ==
  record' = [a \in Holder |-> IF a \in done THEN Retained(record[a]) ELSE record[a]]

\* A page of the first SCAN, its GETs and the pipeline of updates.  SCAN may
\* return anything there is, more than once, and returns what is there
\* throughout.
MigrateJobs ==
  /\ step = "jobs"
  /\ \E returned \in SUBSET Jobs \ {{}} :
       UpdateJobs(returned) /\ unseen' = unseen \ returned
  /\ UNCHANGED <<action, marker, step, elapsed>>

\* The cursor is back at 0.
\* Mutant of JobsDone: one page is taken for all.
JobsDoneEarly ==
  /\ step = "jobs"
  /\ step' = "actions"
  /\ unseen' = Actions
  /\ UNCHANGED <<record, action, marker, elapsed>>
JobsDone ==
  /\ step = "jobs" /\ unseen = {}
  /\ step' = "actions"
  /\ unseen' = Actions
  /\ UNCHANGED <<record, action, marker, elapsed>>

UpdateActions(done) ==
  action' = [a \in Holder |-> IF a \in done \cap Actions THEN Retention ELSE action[a]]

\* A page of the second SCAN and its EXPIREs.
MigrateActions ==
  /\ step = "actions"
  /\ \E returned \in SUBSET Actions \ {{}} :
       UpdateActions(returned) /\ unseen' = unseen \ returned
  /\ UNCHANGED <<record, marker, step, elapsed>>

ActionsDone ==
  /\ step = "actions" /\ unseen = {}
  /\ step' = "mark"
  /\ UNCHANGED <<record, action, marker, elapsed, unseen>>

\* What a run knew is gone with it.
Leave == step' = "off" /\ elapsed' = 0 /\ unseen' = {}

SetMarker ==
  /\ step = "mark"
  /\ marker' = TRUE
  /\ Leave
  /\ UNCHANGED <<record, action>>

\* A command fails or the process dies; of a pipeline under way, which is not a
\* transaction, any part may be done, and of the marker's SET all.
Interrupted ==
  /\ step # "off"
  /\ Leave
  /\ \/ /\ step = "jobs"
        /\ \E done \in SUBSET Holder : UpdateJobs(done)
        /\ UNCHANGED <<action, marker>>
     \/ /\ step = "actions"
        /\ \E done \in SUBSET Holder : UpdateActions(done)
        /\ UNCHANGED <<record, marker>>
     \/ /\ step = "mark"
        /\ marker' \in BOOLEAN
        /\ UNCHANGED <<record, action>>

-----------------------------------------------------------------------------
\* set_job, in a run that holds the lease: a SET drops an earlier TTL.
\* Mutant of SetJob: as if it kept it.
SetJobKeepingTTL(a, bounded) ==
  record' = [record EXCEPT ![a] =
    [bounded |-> bounded, age |-> 0,
     ttl |-> IF bounded THEN Retention ELSE IF @.ttl = NoKey THEN NoTTL ELSE @.ttl]]
SetJob(a, bounded) ==
  record' = [record EXCEPT ![a] =
    [bounded |-> bounded, age |-> 0, ttl |-> IF bounded THEN Retention ELSE NoTTL]]

WriteRecord ==
  /\ step = "off"
  /\ \E a \in Holder, bounded \in BOOLEAN : SetJob(a, bounded)
  /\ UNCHANGED <<action, marker, step, elapsed, unseen>>

\* A click in serve mode: record_action.
RecordAction ==
  /\ \E a \in Holder : action' = [action EXCEPT ![a] = Retention]
  /\ UNCHANGED <<record, marker, step, elapsed, unseen>>

Sooner(ttl) == IF ttl \in {NoKey, NoTTL} THEN ttl ELSE ttl - 1
Aged(r) ==
  IF Sooner(r.ttl) = NoKey THEN NoRecord
  ELSE [r EXCEPT !.age = IF @ < Oldest THEN @ + 1 ELSE @, !.ttl = Sooner(@)]

\* Time passes and keys expire; SCAN need not return what has expired.
Tick ==
  /\ step = "off" \/ elapsed < MaxScan
  /\ elapsed' = IF step = "off" THEN elapsed ELSE elapsed + 1
  /\ record' = [a \in Holder |-> Aged(record[a])]
  /\ action' = [a \in Holder |-> Sooner(action[a])]
  /\ unseen' = {a \in unseen : IF step = "jobs" THEN record'[a] # NoRecord
                                                ELSE action'[a] # NoKey}
  /\ UNCHANGED <<marker, step>>

RetentionNext ==
  \/ StartMigration \/ MigrateJobs \/ JobsDone
  \/ MigrateActions \/ ActionsDone \/ SetMarker \/ Interrupted
  \/ WriteRecord \/ RecordAction \/ Tick

RetentionSpec == RetentionInit /\ [][RetentionNext]_retentionVars

-----------------------------------------------------------------------------
\* Once the marker stands nothing that should expire is without a TTL, and no job
\* outlasts its retention by more than the migration took, however often it was
\* interrupted before: no later run looks again (src/src/redis.rs:452).
MigratedIsBounded ==
  marker =>
    /\ \A a \in Jobs : record[a].bounded => record[a].ttl + record[a].age <= Oldest
    /\ \A a \in Actions : action[a] # NoTTL

\* Failed and notification-pending jobs stay until an operator resolves them,
\* however migrations and runs alternate (src/src/redis.rs:475).
UnresolvedIsDurable == \A a \in Jobs : ~record[a].bounded => record[a].ttl = NoTTL

\* A job goes only when its retention since it was updated is over: deleted by
\* the migration, or expired in the very tick that completes it.
KeptForRetention ==
  [][\A a \in Jobs : record'[a] = NoRecord =>
       /\ record[a].bounded
       /\ record[a].age >= Retention \/ (record[a].ttl = 1 /\ record[a].age = Retention - 1)
    ]_retentionVars
=============================================================================
