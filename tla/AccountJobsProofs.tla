-------------------------- MODULE AccountJobsProofs -------------------------
(***************************************************************************)
(* Proofs about AccountJobs, for any set of accounts and tasks.            *)
(***************************************************************************)
EXTENDS AccountJobs, TLAPS

\* A task that will store an answer has one.
HasAnswer ==
  \A t \in Task : pc[t] \in Delivery \cup {"classify", "complete"} => judged[t] # "none"

TypeInv == TypeOK /\ HasAnswer

\* The initial states are well typed, and no task holds an answer.
LEMMA InitType == Init => TypeInv
  BY PostCapAssumption
  DEF Init, TypeInv, TypeOK, HasAnswer, StoreInit, StoreTypeOK, Mode, PC, Feedback,
      NoJob, HeldRecord, Verdict, Delivery

\* What fail_job and mark_unavailable store.
LEMMA StatusChange ==
  ASSUME NEW r \in HeldRecord, NEW s \in JobStatus
  PROVE  [r EXCEPT !.status = s] \in JobRecord
  BY DEF HeldRecord, JobRecord

\* write_job keeps the types of the store.
LEMMA WriteJobType ==
  ASSUME StoreTypeOK, NEW a \in Account, NEW r \in JobRecord, NEW retry, WriteJob(a, r, retry)
  PROVE  StoreTypeOK'
  BY DEF StoreTypeOK, WriteJob

\* record_classification keeps them: it needs a record to classify.
LEMMA RecordPendingType ==
  ASSUME StoreTypeOK, NEW a \in Account, job[a] # NoJob, RecordPending(a)
  PROVE  StoreTypeOK'
<1>1. job[a] \in JobRecord
  BY DEF StoreTypeOK
<1>2. PendingJob(job[a]) \in JobRecord
  BY <1>1 DEF PendingJob, JobRecord, JobStatus, Verdict
<1> QED  BY <1>2 DEF StoreTypeOK, RecordPending

\* A claim whose holder is gone is still a claim.
LEMMA OrphanClaimType ==
  ASSUME StoreTypeOK, NEW a \in Account, NEW t \in Task
  PROVE  OrphanClaim(a, t) \in [Account -> Task \cup {Nobody, Orphan}]
  BY DEF StoreTypeOK, OrphanClaim

\* The count of messages stays within its bound.
LEMMA PostType ==
  ASSUME posts \in [Account -> 0..PostCap], NEW a \in Account, Post(a)
  PROVE  posts' \in [Account -> 0..PostCap]
  BY PostCapAssumption DEF Post

\* The walk over the retry queue keeps the types.
LEMMA QueueStepType ==
  ASSUME TypeInv, NEW t \in Task, QueueStep(t)
  PROVE  TypeInv'
<1> USE AcctAssumption DEF TypeInv, TypeOK, StoreTypeOK, HasAnswer, Goto, Finish, Continue,
       worldVars, storeVars, PC, QueueWalk, CheckOne, Delivery, Failing, Answer
<1>1. CASE Scan(t)
  BY <1>1 DEF Scan
<1>2. CASE Drop(t)
  BY <1>2 DEF Drop, RemoveFailed, HeldRecord, NoJob, Verdict
<1>3. CASE FetchAccount(t)
  BY <1>3 DEF FetchAccount
<1>4. CASE MarkGone(t)
  <2>1. CASE job[Acct[t]] = NoJob
    BY <1>4, <2>1 DEF MarkGone, MarkUnavailable, RemoveFailed, HeldRecord, NoJob, Verdict
  <2>2. CASE job[Acct[t]] # NoJob
    <3>1. [job[Acct[t]] EXCEPT !.status = "unavailable"] \in JobRecord
      BY <2>2 DEF JobRecord, JobStatus, Completed
    <3>2. StoreTypeOK'
      BY <1>4, <2>2, <3>1, WriteJobType DEF MarkGone, MarkUnavailable
    <3> QED  BY <1>4, <3>2 DEF MarkGone, HeldRecord, NoJob, Verdict
  <2> QED  BY <2>1, <2>2
<1> QED  BY <1>1, <1>2, <1>3, <1>4, QueueStep(t) DEF QueueStep

\* check_one keeps the types: an answer is there when it is stored.
LEMMA CheckStepType ==
  ASSUME TypeInv, NEW t \in Task, CheckStep(t)
  PROVE  TypeInv'
<1> USE AcctAssumption DEF TypeInv, TypeOK, StoreTypeOK, HasAnswer, Goto, Finish, Continue,
       worldVars, storeVars, PC, QueueWalk, CheckOne, Delivery, Failing, Answer
<1>1. CASE CheckFeedback(t)
  BY <1>1 DEF CheckFeedback
<1>2. CASE Decided(t)
  BY <1>2 DEF Decided, Abandon, HeldRecord, NoJob, Verdict
<1>3. CASE ResumePending(t)
  BY <1>3 DEF ResumePending, HeldRecord, JobRecord, NoJob, Verdict, IsPending, IsPendingJob
<1>4. CASE Proceed(t)
  BY <1>4 DEF Proceed
<1>5. CASE Existing(t)
  BY <1>5 DEF Existing, Abandon, HeldRecord, NoJob, Verdict
<1>6. CASE Begin(t)
  BY <1>6 DEF Begin, BeginJob, ProcessingJob, HeldRecord, JobRecord, JobStatus, Verdict
<1>7. CASE Classify(t)
  <2>1. Acct[t] \in Account
    OBVIOUS
  <2>2. StoreTypeOK'
    BY <1>7, <2>1, RecordPendingType DEF Classify
  <2> QED  BY <1>7, <2>2 DEF Classify, At
<1>8. CASE Complete(t)
  <2> DEFINE r == [status |-> judged[t], verdict |-> StoredVerdict(judged[t]),
                   notified |-> sent[t]]
  <2>1. r \in JobRecord
    BY <1>8 DEF Complete, At, StoredVerdict, JobRecord, JobStatus, Completed, Verdict
  <2>2. StoreTypeOK'
    BY <1>8, <2>1, WriteJobType DEF Complete, CompleteJob
  <2> QED
    BY <1>8, <2>2 DEF Complete, HeldRecord, NoJob, Verdict
<1>9. CASE \E answer \in Answer : Judge(t, answer)
  BY <1>9 DEF Judge
<1> QED  BY <1>1, <1>2, <1>3, <1>4, <1>5, <1>6, <1>7, <1>8, <1>9, CheckStep(t) DEF CheckStep

\* notify_with_claim keeps the types.
LEMMA DeliveryStepType ==
  ASSUME TypeInv, NEW t \in Task, DeliveryStep(t)
  PROVE  TypeInv'
<1> USE AcctAssumption DEF TypeInv, TypeOK, StoreTypeOK, HasAnswer, At, Goto, Continue,
       worldVars, storeVars, PC, QueueWalk, CheckOne, Delivery, Failing
<1>1. CASE Claim(t)
  BY <1>1 DEF Claim, ClaimNotification
<1>2. CASE ClaimRefused(t)
  BY <1>2 DEF ClaimRefused
<1>3. CASE Suppressed(t)
  BY <1>3 DEF Suppressed
<1>4. CASE Send(t)
  BY <1>4, PostType DEF Send
<1>5. CASE Release(t)
  BY <1>5 DEF Release, ReleaseClaim, AfterRelease
<1> QED  BY <1>1, <1>2, <1>3, <1>4, <1>5, DeliveryStep(t) DEF DeliveryStep

\* fail_job keeps the types.
LEMMA FailStepType ==
  ASSUME TypeInv, NEW t \in Task, FailStep(t)
  PROVE  TypeInv'
<1> USE AcctAssumption DEF TypeInv, TypeOK, HasAnswer, At, Goto, Continue,
       worldVars, storeVars, PC, QueueWalk, CheckOne, Delivery, Failing
<1>1. CASE FailRead(t)
  <2>1. job[Acct[t]].verdict \in Verdict
    BY DEF StoreTypeOK, JobRecord, NoJob, Verdict
  <2>2. held' \in [Task -> HeldRecord]
    <3>1. [held[t] EXCEPT !.verdict = job[Acct[t]].verdict] \in HeldRecord
      BY <2>1 DEF HeldRecord
    <3>2. \/ held' = held
          \/ held' = [held EXCEPT ![t] = [held[t] EXCEPT !.verdict = job[Acct[t]].verdict]]
      BY <1>1 DEF FailRead
    <3> QED  BY <3>1, <3>2
  <2> QED  BY <1>1, <2>2 DEF FailRead, StoreTypeOK
<1>2. CASE FailWrite(t)
  <2>1. [held[t] EXCEPT !.status = "failed"] \in JobRecord
    BY StatusChange DEF JobStatus
  <2>2. StoreTypeOK'
    BY <1>2, <2>1, WriteJobType DEF FailWrite, FailJob
  <2> QED  BY <1>2, <2>2 DEF FailWrite, Finish, HeldRecord, NoJob, Verdict
<1> QED  BY <1>1, <1>2, FailStep(t) DEF FailStep

\* So does every failed call, and a crash.
LEMMA FaultType ==
  ASSUME TypeInv, NEW t \in Task, Fault(t)
  PROVE  TypeInv'
<1> USE AcctAssumption DEF TypeInv, TypeOK, HasAnswer, At, Goto, Continue,
       worldVars, storeVars, PC, QueueWalk, CheckOne, Delivery, Failing
<1>1. CASE Abandon(t)
  BY <1>1 DEF Abandon, Finish, StoreTypeOK, HeldRecord, NoJob, Verdict
<1>2. CASE Fail(t)
  BY <1>2 DEF Fail, StoreTypeOK
<1>3. CASE BeginFails(t)
  <2>1. StoreTypeOK'
    <3>1. ProcessingJob \in JobRecord
      BY DEF ProcessingJob, JobRecord, JobStatus, Verdict
    <3> QED  BY <1>3, <3>1 DEF BeginFails, BeginJob, StoreTypeOK
  <2> QED  BY <1>3, <2>1 DEF BeginFails, Finish, HeldRecord, NoJob, Verdict
<1>4. CASE ClassifyFails(t)
  <2>1. StoreTypeOK'
    BY <1>4, RecordPendingType DEF ClassifyFails, StoreTypeOK
  <2> QED  BY <1>4, <2>1 DEF ClassifyFails
<1>5. CASE CompleteFails(t)
  BY <1>5 DEF CompleteFails, Finish, StoreTypeOK, HeldRecord, NoJob, Verdict
<1>6. CASE ClaimFails(t)
  BY <1>6 DEF ClaimFails, ClaimNotification, StoreTypeOK
<1>7. CASE SendFails(t) \/ SendRetries(t)
  <2>1. posts' \in [Account -> 0..PostCap]
    BY <1>7, PostType DEF SendFails, SendRetries
  <2>2. doubt' \in [Account -> BOOLEAN]
    BY <1>7 DEF SendFails, SendRetries
  <2>3. CASE SendFails(t)
    BY <2>1, <2>2, <2>3 DEF SendFails, StoreTypeOK
  <2>4. CASE SendRetries(t)
    BY <2>1, <2>2, <2>4 DEF SendRetries, StoreTypeOK, taskVars
  <2> QED  BY <1>7, <2>3, <2>4
<1>8. CASE ReleaseFails(t)
  BY <1>8, OrphanClaimType DEF ReleaseFails, AfterRelease, StoreTypeOK
<1>9. CASE Crash(t)
  BY <1>9, OrphanClaimType DEF Crash, Finish, StoreTypeOK, HeldRecord, NoJob, Verdict
<1> QED
  BY <1>1, <1>2, <1>3, <1>4, <1>5, <1>6, <1>7, <1>8, <1>9, Fault(t)
  DEF Fault, ScanFails, DropFails, FetchAccountFails, MarkGoneFails, CheckFeedbackFails,
      LookupFails, JudgeFails, SuppressedFails, FailJobFails

\* So do moderators, expiry and departures.
LEMMA StoreMovesType ==
  ASSUME TypeInv, NEW a \in Account, StoreMoves(a)
  PROVE  TypeInv'
<1> USE DEF TypeInv, TypeOK, StoreTypeOK, HasAnswer, taskVars, worldVars, storeVars
<1>1. ASSUME NEW verdict \in Terminal, Moderate(a, verdict) PROVE TypeInv'
  BY <1>1 DEF Moderate, RecordFeedback, Feedback
<1>2. CASE JobExpires(a)
  BY <1>2 DEF JobExpires, ExpireJob
<1>3. CASE ClaimExpires(a)
  BY <1>3 DEF ClaimExpires, ExpireClaim
<1>4. CASE AccountGoes(a)
  BY <1>4 DEF AccountGoes
<1> QED  BY <1>1, <1>2, <1>3, <1>4, StoreMoves(a) DEF StoreMoves

\* Every step keeps the types.
LEMMA TypeStep == TypeInv /\ [Next]_vars => TypeInv'
<1> SUFFICES ASSUME TypeInv, [Next]_vars PROVE TypeInv'
  OBVIOUS
<1>1. ASSUME NEW t \in Task, NEW m \in Mode, Start(t, m) PROVE TypeInv'
  BY <1>1 DEF Start, TypeInv, TypeOK, StoreTypeOK, HasAnswer, Goto, worldVars, storeVars,
       PC, QueueWalk, CheckOne, Delivery, Failing
<1>2. CASE UNCHANGED vars
  BY <1>2 DEF TypeInv, TypeOK, StoreTypeOK, HasAnswer, vars, taskVars, worldVars, storeVars
<1> QED
  BY <1>1, <1>2, QueueStepType, CheckStepType, DeliveryStepType, FailStepType, FaultType,
     StoreMovesType
  DEF Next, TaskMoves, TaskStep

\* Whatever the accounts, the tasks and their overlaps: every variable keeps its
\* type, so no step writes a record retry-failed could not read back.
THEOREM TypeCorrect == Spec => []TypeOK
<1>1. TypeInv => TypeOK
  BY DEF TypeInv
<1> QED  BY <1>1, InitType, TypeStep, PTL DEF Spec

-----------------------------------------------------------------------------
(* The claim, for any overlap of runs *)

\* A task between taking its claim and giving it back holds the claim, and the
\* claim keeps moderators out.
ClaimHeld ==
  \A t \in Task : pc[t] \in {"send", "release"} =>
    claim[Acct[t]] = t /\ feedback[Acct[t]] = "none"

ClaimInv == TypeInv /\ ClaimHeld

\* No task starts out with a claim.
LEMMA ClaimInit == Init => ClaimHeld
  BY DEF Init, ClaimHeld

\* A task that loses its claim takes no other task's.
LEMMA OrphaningKeepsOthers ==
  ASSUME ClaimInv, NEW t \in Task, claim' = OrphanClaim(Acct[t], t), feedback' = feedback,
         \A u \in Task : u # t => pc'[u] = pc[u],
         pc'[t] \notin {"send", "release"}
  PROVE  ClaimHeld'
  BY AcctAssumption, ClaimAssumption
  DEF ClaimInv, TypeInv, TypeOK, StoreTypeOK, ClaimHeld, OrphanClaim

\* A step of a task keeps every claim with its holder.
LEMMA ClaimTask ==
  ASSUME ClaimInv, NEW t \in Task, TaskStep(t) \/ Fault(t)
  PROVE  ClaimHeld'
<1> USE AcctAssumption, ClaimAssumption
    DEF ClaimInv, TypeInv, TypeOK, StoreTypeOK, ClaimHeld, At, Goto, Finish, Continue,
        storeVars, MayClaim
<1>1. CASE pc'[t] \notin {"send", "release"} /\ UNCHANGED <<claim, feedback>>
           /\ \A u \in Task : u # t => pc'[u] = pc[u]
  BY <1>1
<1>2. CASE Claim(t)
  BY <1>2 DEF Claim, ClaimNotification
<1>3. CASE Send(t) \/ SendFails(t) \/ SendRetries(t)
  BY <1>3 DEF Send, SendFails, SendRetries, taskVars
<1>4. CASE Release(t)
  BY <1>4 DEF Release, ReleaseClaim, AfterRelease
<1>5. CASE ReleaseFails(t)
  BY <1>5, OrphaningKeepsOthers DEF ReleaseFails, AfterRelease
<1>6. CASE Crash(t)
  BY <1>6, OrphaningKeepsOthers DEF Crash
<1>7. CASE ClaimFails(t)
  BY <1>7 DEF ClaimFails, ClaimNotification
<1>8. CASE QueueStep(t)
  BY <1>8, <1>1 DEF QueueStep, Scan, Drop, FetchAccount, MarkGone, MarkUnavailable,
                    RemoveFailed, WriteJob
<1>9. CASE CheckStep(t)
  BY <1>9, <1>1 DEF CheckStep, CheckFeedback, Decided, Abandon, ResumePending, Proceed,
                    Existing, Begin, BeginJob, Classify, RecordPending, Complete,
                    CompleteJob, WriteJob, Judge
<1>10. CASE ClaimRefused(t) \/ Suppressed(t) \/ FailStep(t)
  BY <1>10, <1>1 DEF ClaimRefused, Suppressed, FailStep, FailRead, FailWrite, FailJob, WriteJob
<1>11. CASE Abandon(t) \/ Fail(t) \/ BeginFails(t) \/ ClassifyFails(t) \/ CompleteFails(t)
  BY <1>11, <1>1 DEF Abandon, Fail, BeginFails, BeginJob, ClassifyFails, RecordPending,
                     CompleteFails
<1> QED
  BY <1>2, <1>3, <1>4, <1>5, <1>6, <1>7, <1>8, <1>9, <1>10, <1>11, TaskStep(t) \/ Fault(t)
  DEF TaskStep, DeliveryStep, Fault, ScanFails, DropFails, FetchAccountFails, MarkGoneFails,
      CheckFeedbackFails, LookupFails, JudgeFails, SuppressedFails, FailJobFails

\* ClaimInv is inductive, however many tasks are on an account.
LEMMA ClaimStep == ClaimInv /\ [Next]_vars => ClaimInv'
<1> SUFFICES ASSUME ClaimInv, [Next]_vars PROVE ClaimHeld'
  BY TypeStep DEF ClaimInv
<1>1. ASSUME NEW t \in Task, NEW m \in Mode, Start(t, m) PROVE ClaimHeld'
  BY <1>1 DEF Start, ClaimInv, TypeInv, TypeOK, ClaimHeld, Goto, storeVars
<1>2. ASSUME NEW a \in Account, StoreMoves(a) PROVE ClaimHeld'
  <2> USE AcctAssumption, ClaimAssumption
      DEF ClaimInv, TypeInv, TypeOK, StoreTypeOK, ClaimHeld, storeVars, taskVars
  <2>1. ASSUME NEW verdict \in Terminal, Moderate(a, verdict) PROVE ClaimHeld'
    BY <2>1 DEF Moderate, RecordFeedback, AcceptsFeedback
  <2>2. CASE JobExpires(a)
    BY <2>2 DEF JobExpires, ExpireJob
  <2>3. CASE ClaimExpires(a)
    BY <2>3 DEF ClaimExpires, ExpireClaim
  <2>4. CASE AccountGoes(a)
    BY <2>4 DEF AccountGoes
  <2> QED  BY <1>2, <2>1, <2>2, <2>3, <2>4 DEF StoreMoves
<1>3. CASE UNCHANGED vars
  BY <1>3 DEF ClaimInv, ClaimHeld, vars, taskVars, storeVars
<1> QED  BY <1>1, <1>2, <1>3, ClaimTask DEF Next, TaskMoves

\* However many runs overlap on an account, at most one of them is delivering,
\* and none while a moderator's verdict stands: claim_notification,
\* release_notification_claim and record_feedback suffice for that, without the
\* run lease.
THEOREM OneDeliveryCorrect == Spec => []OneDelivery
<1>1. ClaimInv => OneDelivery
  BY AcctAssumption DEF ClaimInv, ClaimHeld, OneDelivery, At
<1>2. Init => ClaimInv
  BY InitType, ClaimInit DEF ClaimInv
<1> QED  BY <1>1, <1>2, ClaimStep, PTL DEF Spec

-----------------------------------------------------------------------------
(* The job, for one run at a time *)

\* The run lease: no two tasks work on the same account.
Exclusive == \A t, u \in Task : Acct[t] = Acct[u] => t = u

\* What a task knows about the store from where it is.
StageOK ==
  \A t \in Task :
    /\ pc[t] = "drop" => Resolved(Acct[t])
    /\ pc[t] \in Delivery =>
         job[Acct[t]].status = "notification_pending" /\ job[Acct[t]].verdict = "spam"

PendingHasVerdict == \A a \in Account : IsPendingJob(a) => job[a].verdict = "spam"

JobInv == ClaimInv /\ StageOK /\ PendingHasVerdict /\ DebtsAreQueued /\ CompletedIsNotQueued

JobParts == StageOK /\ PendingHasVerdict /\ DebtsAreQueued /\ CompletedIsNotQueued

\* The parts about jobs and the queue hold of an empty store.
LEMMA JobInit == Init => JobParts
  BY DEF Init, StoreInit, NoJob, JobParts, StageOK, Delivery, PendingHasVerdict, DebtsAreQueued,
         CompletedIsNotQueued, IsPendingJob, IsCompletedJob, Completed, Queued

\* A step of a task is on its own account; under the lease no other task is
\* there.  So it is enough that the step keeps the parts for that account.
LEMMA Local ==
  ASSUME Exclusive, JobInv, NEW t \in Task,
         \A u \in Task : u # t => pc'[u] = pc[u],
         \A a \in Account : a # Acct[t] =>
           /\ job'[a] = job[a] /\ feedback'[a] = feedback[a]
           /\ (a \in failed' <=> a \in failed) /\ (a \in pending' <=> a \in pending),
         pc'[t] = "drop" => Resolved(Acct[t])',
         pc'[t] \in Delivery =>
           job'[Acct[t]].status = "notification_pending" /\ job'[Acct[t]].verdict = "spam",
         job'[Acct[t]].status = "notification_pending" =>
           /\ job'[Acct[t]].verdict = "spam"
           /\ Acct[t] \in pending' \/ feedback'[Acct[t]] \in Terminal,
         job'[Acct[t]].status = "failed" =>
           Acct[t] \in failed' \/ feedback'[Acct[t]] \in Terminal,
         job'[Acct[t]].status \in Completed => Acct[t] \notin failed' \cup pending'
  PROVE  JobParts'
<1> USE AcctAssumption
<1>1. StageOK'
  BY DEF Exclusive, JobInv, StageOK, Resolved, HasTerminalFeedback, IsCompletedJob
<1>2. PendingHasVerdict' /\ DebtsAreQueued' /\ CompletedIsNotQueued'
  BY DEF JobInv, PendingHasVerdict, DebtsAreQueued, CompletedIsNotQueued, IsPendingJob,
         IsCompletedJob, HasTerminalFeedback, Queued
<1> QED  BY <1>1, <1>2 DEF JobParts

\* A step that writes nothing to the job or the queue.
LEMMA Quiet ==
  ASSUME Exclusive, JobInv, NEW t \in Task, UNCHANGED <<job, failed, pending, feedback>>,
         \A u \in Task : u # t => pc'[u] = pc[u],
         pc'[t] = "drop" => Resolved(Acct[t]),
         pc'[t] \in Delivery => pc[t] \in Delivery
  PROVE  JobParts'
  BY AcctAssumption
  DEF JobInv, JobParts, StageOK, PendingHasVerdict, DebtsAreQueued, CompletedIsNotQueued,
      IsPendingJob, IsCompletedJob, HasTerminalFeedback, Queued, Resolved

\* The steps that write nothing to the job or the queue.
LEMMA JobQuietTask ==
  ASSUME Exclusive, JobInv, NEW t \in Task,
         \/ Scan(t) \/ FetchAccount(t) \/ CheckFeedback(t) \/ Decided(t) \/ Proceed(t)
         \/ Existing(t) \/ (\E answer \in Answer : Judge(t, answer))
         \/ DeliveryStep(t) \/ FailRead(t) \/ Abandon(t) \/ Fail(t) \/ CompleteFails(t)
         \/ ClaimFails(t) \/ SendFails(t) \/ SendRetries(t) \/ ReleaseFails(t) \/ Crash(t)
  PROVE  JobParts'
<1>1. /\ UNCHANGED <<job, failed, pending, feedback>>
      /\ \A u \in Task : u # t => pc'[u] = pc[u]
      /\ pc'[t] = "drop" => Resolved(Acct[t])
      /\ pc'[t] \in Delivery => pc[t] \in Delivery
  <2> USE DEF JobInv, ClaimInv, TypeInv, TypeOK, Goto, Continue, Finish, storeVars, Delivery, At
  <2>1. CASE Scan(t)
    BY <2>1 DEF Scan
  <2>2. CASE FetchAccount(t) \/ CheckFeedback(t) \/ Decided(t) \/ Proceed(t) \/ Existing(t)
    BY <2>2 DEF FetchAccount, CheckFeedback, Decided, Proceed, Existing, Abandon
  <2>3. CASE \E answer \in Answer : Judge(t, answer)
    BY <2>3 DEF Judge
  <2>4. CASE DeliveryStep(t)
    BY <2>4 DEF DeliveryStep, Claim, ClaimNotification, ClaimRefused, Suppressed, Send,
                Release, ReleaseClaim, AfterRelease
  <2>5. CASE FailRead(t) \/ Abandon(t) \/ Fail(t) \/ CompleteFails(t)
    BY <2>5 DEF FailRead, Abandon, Fail, CompleteFails
  <2>6. CASE ClaimFails(t) \/ SendFails(t) \/ SendRetries(t) \/ ReleaseFails(t) \/ Crash(t)
    BY <2>6 DEF ClaimFails, ClaimNotification, SendFails, SendRetries, ReleaseFails,
                AfterRelease, Crash, taskVars
  <2> QED  BY <2>1, <2>2, <2>3, <2>4, <2>5, <2>6
<1> QED  BY <1>1, Quiet

\* The steps that write the job and the queue: each writes both together.
LEMMA JobWritingTask ==
  ASSUME Exclusive, JobInv, NEW t \in Task,
         \/ Drop(t) \/ MarkGone(t) \/ ResumePending(t) \/ Begin(t) \/ BeginFails(t)
         \/ Classify(t) \/ ClassifyFails(t) \/ Complete(t) \/ FailWrite(t)
  PROVE  JobParts'
<1> USE AcctAssumption
    DEF JobInv, ClaimInv, TypeInv, TypeOK, StoreTypeOK, Goto, Continue, Finish, storeVars,
        Delivery, At
<1>1. CASE ResumePending(t)
  BY <1>1, Local DEF ResumePending, PendingHasVerdict, DebtsAreQueued, CompletedIsNotQueued,
                     IsPending, IsPendingJob, IsCompletedJob, HasTerminalFeedback, Queued
<1>2. CASE Drop(t)
  <2>1. Resolved(Acct[t])
    BY <1>2 DEF Drop, StageOK
  <2>2. /\ IsPendingJob(Acct[t]) => HasTerminalFeedback(Acct[t]) /\ job[Acct[t]].verdict = "spam"
        /\ job[Acct[t]].status = "failed" => HasTerminalFeedback(Acct[t])
    BY <2>1 DEF Resolved, IsCompletedJob, Completed, IsPendingJob, PendingHasVerdict
  <2> QED  BY <1>2, <2>2, Local DEF Drop, RemoveFailed, IsPendingJob, HasTerminalFeedback
<1>3. CASE MarkGone(t)
  <2>1. CASE job[Acct[t]] = NoJob
    BY <1>3, <2>1, Local DEF MarkGone, MarkUnavailable, RemoveFailed, NoJob, Completed
  <2>2. CASE job[Acct[t]] # NoJob
    <3>1. job'[Acct[t]].status = "unavailable"
      BY <1>3, <2>2 DEF MarkGone, MarkUnavailable, WriteJob, JobRecord
    <3> QED
      BY <1>3, <2>2, <3>1, Local DEF MarkGone, MarkUnavailable, WriteJob, Completed
  <2> QED  BY <2>1, <2>2
<1>4. CASE Begin(t) \/ BeginFails(t)
  <2>1. CASE BeginJob(Acct[t])
    BY <1>4, <2>1, Local DEF Begin, BeginFails, BeginJob, ProcessingJob, Completed
  <2>2. CASE BeginFails(t) /\ UNCHANGED storeVars
    BY <2>2, Quiet DEF BeginFails
  <2> QED  BY <1>4, <2>1, <2>2 DEF Begin, BeginFails
<1>5. CASE Classify(t) \/ ClassifyFails(t)
  <2>1. CASE RecordPending(Acct[t])
    BY <1>5, <2>1, Local DEF Classify, ClassifyFails, RecordPending, PendingJob, Completed
  <2>2. CASE ClassifyFails(t) /\ UNCHANGED storeVars
    BY <2>2, Quiet DEF ClassifyFails
  <2> QED  BY <1>5, <2>1, <2>2 DEF Classify, ClassifyFails
<1>6. CASE Complete(t)
  <2>1. judged[t] \in Completed
    BY <1>6 DEF Complete, HasAnswer, Answer, Completed
  <2> QED  BY <1>6, <2>1, Local DEF Complete, CompleteJob, WriteJob, Completed
<1>7. CASE FailWrite(t)
  <2>1. job'[Acct[t]].status = "failed"
    BY <1>7 DEF FailWrite, FailJob, WriteJob, HeldRecord
  <2> QED  BY <1>7, <2>1, Local DEF FailWrite, FailJob, WriteJob, Completed
<1> QED  BY <1>1, <1>2, <1>3, <1>4, <1>5, <1>6, <1>7

\* Together, every step of a task.
LEMMA JobTask ==
  ASSUME Exclusive, JobInv, NEW t \in Task, TaskStep(t) \/ Fault(t)
  PROVE  JobParts'
  BY JobQuietTask, JobWritingTask
  DEF TaskStep, QueueStep, CheckStep, FailStep, Fault, ScanFails, DropFails,
      FetchAccountFails, MarkGoneFails, CheckFeedbackFails, LookupFails, JudgeFails,
      SuppressedFails, FailJobFails

\* A ruling, an expiry or a departure keeps the parts, whatever the tasks do.
LEMMA JobStore ==
  ASSUME Exclusive, JobInv, NEW a \in Account, StoreMoves(a)
  PROVE  JobParts'
<1> USE AcctAssumption
    DEF JobInv, JobParts, ClaimInv, TypeInv, TypeOK, StoreTypeOK, storeVars, taskVars, StageOK,
        PendingHasVerdict, DebtsAreQueued, CompletedIsNotQueued, IsPendingJob, IsCompletedJob,
        HasTerminalFeedback, Queued, Resolved
<1>1. ASSUME NEW verdict \in Terminal, Moderate(a, verdict) PROVE JobParts'
  BY <1>1 DEF Moderate, RecordFeedback
<1>2. CASE JobExpires(a)
  <2>1. \A t \in Task : pc[t] \in Delivery \cup {"drop"} => Acct[t] # a
    BY <1>2 DEF JobExpires, At, Delivery
  <2> QED  BY <1>2, <2>1 DEF JobExpires, ExpireJob, NoJob, Completed
<1>3. CASE ClaimExpires(a) \/ AccountGoes(a)
  BY <1>3 DEF ClaimExpires, ExpireClaim, AccountGoes
<1> QED  BY <1>1, <1>2, <1>3 DEF StoreMoves

\* JobInv is inductive with one task per account.
LEMMA JobStep == Exclusive /\ JobInv /\ [Next]_vars => JobInv'
<1> SUFFICES ASSUME Exclusive, JobInv, [Next]_vars PROVE JobParts'
  BY ClaimStep DEF JobInv, JobParts
<1>1. ASSUME NEW t \in Task, NEW m \in Mode, Start(t, m) PROVE JobParts'
  BY <1>1, Quiet DEF Start, JobInv, ClaimInv, TypeInv, TypeOK, Goto, storeVars, Delivery
<1>2. CASE UNCHANGED vars
  BY <1>2 DEF vars, taskVars, storeVars, JobInv, JobParts, StageOK, PendingHasVerdict,
              DebtsAreQueued, CompletedIsNotQueued, IsPendingJob, IsCompletedJob,
              HasTerminalFeedback, Queued, Resolved
<1> QED  BY <1>1, <1>2, JobTask, JobStore DEF Next, TaskMoves

\* So it holds throughout.
LEMMA JobInvariant == ASSUME Exclusive PROVE Spec => []JobInv
<1>1. Init => JobInv
  BY InitType, ClaimInit, JobInit DEF JobInv, JobParts, ClaimInv
<1>2. JobInv /\ [Next]_vars => JobInv'
  BY JobStep
<1> QED  BY <1>1, <1>2, PTL DEF Spec

\* Under the run lease, a message is on its way to Slack only when the store
\* already holds all that a crash at that instant would need: the pending job,
\* its verdict and its place in the queue.
THEOREM WriteAheadCorrect == ASSUME Exclusive PROVE Spec => []WriteAhead
<1>1. JobInv => WriteAhead
  BY AcctAssumption
  DEF JobInv, ClaimInv, ClaimHeld, StageOK, DebtsAreQueued, WriteAhead, At, Delivery,
      IsPendingJob, HasTerminalFeedback, Terminal
<1>2. Spec => []JobInv
  BY JobInvariant
<1> QED  BY <1>1, <1>2, PTL

\* Under the run lease, no failed check and no uncertain delivery is without a
\* place in the retry queue or a moderator's decision.
THEOREM DebtsAreQueuedCorrect == ASSUME Exclusive PROVE Spec => []DebtsAreQueued
<1>1. JobInv => DebtsAreQueued
  BY DEF JobInv
<1>2. Spec => []JobInv
  BY JobInvariant
<1> QED  BY <1>1, <1>2, PTL

\* Under the run lease, no finished account waits for a retry.
THEOREM CompletedIsNotQueuedCorrect == ASSUME Exclusive PROVE Spec => []CompletedIsNotQueued
<1>1. JobInv => CompletedIsNotQueued
  BY DEF JobInv
<1>2. Spec => []JobInv
  BY JobInvariant
<1> QED  BY <1>1, <1>2, PTL
-----------------------------------------------------------------------------
(* Settling without a message, for any overlap of runs *)

\* A task that is about to store a spam verdict of which it told nobody was
\* started without --notify, or a moderator has decided.
QuietIsDue ==
  \A t \in Task : pc[t] = "complete" /\ judged[t] = "spam" /\ ~sent[t] =>
    HasTerminalFeedback(Acct[t]) \/ ~Notifies(t)

QuietInv == TypeInv /\ QuietIsDue

\* What a task may do to itself and to the feedback without disturbing that.
LEMMA QuietLocal ==
  ASSUME QuietInv, NEW t \in Task,
         \A u \in Task : u # t =>
           pc'[u] = pc[u] /\ judged'[u] = judged[u] /\ sent'[u] = sent[u] /\ mode'[u] = mode[u],
         UNCHANGED feedback,
         pc'[t] = "complete" /\ judged'[t] = "spam" =>
           sent'[t] \/ HasTerminalFeedback(Acct[t]) \/ mode'[t] = "backfill"
  PROVE  QuietIsDue'
  BY AcctAssumption DEF QuietInv, QuietIsDue, HasTerminalFeedback, Notifies

\* A step of a task keeps it: the paths that lead to "complete" are Judge,
\* Suppressed and the release.
LEMMA QuietTask ==
  ASSUME QuietInv, NEW t \in Task, TaskMoves(t)
  PROVE  QuietIsDue'
<1> USE AcctAssumption
    DEF QuietInv, TypeInv, TypeOK, StoreTypeOK, At, Goto, Finish, Continue, storeVars,
        worldVars, HasTerminalFeedback, Notifies
<1>1. CASE pc'[t] # "complete" /\ UNCHANGED feedback
           /\ \A u \in Task : u # t => pc'[u] = pc[u] /\ judged'[u] = judged[u]
                                       /\ sent'[u] = sent[u] /\ mode'[u] = mode[u]
  BY <1>1, QuietLocal
<1>2. ASSUME NEW answer \in Answer, Judge(t, answer) PROVE QuietIsDue'
  BY <1>2, QuietLocal DEF Judge
<1>3. CASE Suppressed(t)
  BY <1>3, QuietLocal DEF Suppressed
<1>4. CASE Release(t) \/ ReleaseFails(t)
  BY <1>4, QuietLocal DEF Release, ReleaseFails, ReleaseClaim, AfterRelease
<1>5. CASE Send(t) \/ SendFails(t) \/ SendRetries(t)
  BY <1>5, <1>1 DEF Send, SendFails, SendRetries, taskVars
<1>6. CASE Claim(t) \/ ClaimRefused(t) \/ ClaimFails(t)
  BY <1>6, <1>1 DEF Claim, ClaimRefused, ClaimFails, ClaimNotification
<1>7. CASE QueueStep(t)
  BY <1>7, <1>1 DEF QueueStep, Scan, Drop, FetchAccount, MarkGone, MarkUnavailable,
                    RemoveFailed, WriteJob
<1>8. CASE CheckStep(t)
  BY <1>8, <1>1, <1>2 DEF CheckStep, CheckFeedback, Decided, Abandon, ResumePending, Proceed,
                    Existing, Begin, BeginJob, Classify, RecordPending, Complete,
                    CompleteJob, WriteJob
<1>9. CASE FailStep(t) \/ Abandon(t) \/ Fail(t) \/ Crash(t)
  BY <1>9, <1>1 DEF FailStep, FailRead, FailWrite, FailJob, WriteJob, Abandon, Fail, Crash
<1>10. CASE BeginFails(t) \/ ClassifyFails(t) \/ CompleteFails(t)
  BY <1>10, <1>1 DEF BeginFails, BeginJob, ClassifyFails, RecordPending, CompleteFails
<1>11. ASSUME NEW m \in Mode, Start(t, m) PROVE QuietIsDue'
  BY <1>11, <1>1 DEF Start
<1> QED
  BY <1>2, <1>3, <1>4, <1>5, <1>6, <1>7, <1>8, <1>9, <1>10, <1>11, TaskMoves(t)
  DEF TaskMoves, TaskStep, DeliveryStep, Fault, ScanFails, DropFails, FetchAccountFails,
      MarkGoneFails, CheckFeedbackFails, LookupFails, JudgeFails, SuppressedFails, FailJobFails

\* So do the others: feedback is never taken back.
LEMMA QuietStep == QuietInv /\ [Next]_vars => QuietInv'
<1> SUFFICES ASSUME QuietInv, [Next]_vars PROVE QuietIsDue'
  BY TypeStep DEF QuietInv
<1>1. ASSUME NEW a \in Account, StoreMoves(a) PROVE QuietIsDue'
  <2> USE AcctAssumption
      DEF QuietInv, TypeInv, TypeOK, StoreTypeOK, QuietIsDue, storeVars, taskVars,
          HasTerminalFeedback, Notifies
  <2>1. ASSUME NEW verdict \in Terminal, Moderate(a, verdict) PROVE QuietIsDue'
    BY <2>1 DEF Moderate, RecordFeedback
  <2>2. CASE JobExpires(a) \/ ClaimExpires(a) \/ AccountGoes(a)
    BY <2>2 DEF JobExpires, ExpireJob, ClaimExpires, ExpireClaim, AccountGoes
  <2> QED  BY <1>1, <2>1, <2>2 DEF StoreMoves
<1>2. CASE UNCHANGED vars
  BY <1>2 DEF vars, taskVars, storeVars, QuietInv, QuietIsDue, HasTerminalFeedback, Notifies
<1> QED  BY <1>1, <1>2, QuietTask DEF Next

\* A job becomes "spam" without a message only in the write of complete_job.
LEMMA OnlyCompleteSettles ==
  ASSUME TypeInv, NEW t \in Task, TaskMoves(t), ~Complete(t), NEW a \in Account,
         SettledQuietly(a)'
  PROVE  SettledQuietly(a)
<1> USE AcctAssumption
    DEF TypeInv, TypeOK, StoreTypeOK, At, Goto, Finish, Continue, storeVars, SettledQuietly
<1>1. CASE UNCHANGED job
  BY <1>1
<1>2. CASE Begin(t) \/ BeginFails(t)
  BY <1>2, <1>1 DEF Begin, BeginFails, BeginJob, ProcessingJob
<1>3. CASE Classify(t) \/ ClassifyFails(t)
  BY <1>3, <1>1 DEF Classify, ClassifyFails, RecordPending, PendingJob
<1>4. CASE FailWrite(t)
  <2>1. [held[t] EXCEPT !.status = "failed"].status = "failed"
    BY DEF HeldRecord
  <2> QED  BY <1>4, <2>1 DEF FailWrite, FailJob, WriteJob
<1>5. CASE MarkGone(t)
  <2>1. CASE job[Acct[t]] = NoJob
    BY <1>5, <2>1, <1>1 DEF MarkGone, MarkUnavailable, RemoveFailed
  <2>2. CASE job[Acct[t]] # NoJob
    <3>1. [job[Acct[t]] EXCEPT !.status = "unavailable"].status = "unavailable"
      BY <2>2 DEF JobRecord
    <3> QED  BY <1>5, <2>2, <3>1 DEF MarkGone, MarkUnavailable, WriteJob
  <2> QED  BY <2>1, <2>2
<1>6. CASE QueueStep(t) /\ ~MarkGone(t)
  BY <1>6, <1>1 DEF QueueStep, Scan, Drop, FetchAccount, RemoveFailed
<1>7. CASE CheckStep(t) /\ ~Begin(t) /\ ~Classify(t)
  BY <1>7, <1>1 DEF CheckStep, CheckFeedback, Decided, Abandon, ResumePending, Proceed,
                    Existing, Judge
<1>8. CASE DeliveryStep(t)
  BY <1>8, <1>1 DEF DeliveryStep, Claim, ClaimRefused, Suppressed, Send, Release,
                    ClaimNotification, ReleaseClaim
<1>9. CASE FailRead(t) \/ Abandon(t) \/ Fail(t) \/ Crash(t) \/ CompleteFails(t) \/ ClaimFails(t)
           \/ SendFails(t) \/ SendRetries(t) \/ ReleaseFails(t) \/ (\E m \in Mode : Start(t, m))
  BY <1>9, <1>1 DEF FailRead, Abandon, Fail, Crash, CompleteFails, ClaimFails,
                    ClaimNotification, SendFails, SendRetries, ReleaseFails, Start
<1> QED
  BY <1>2, <1>3, <1>4, <1>5, <1>6, <1>7, <1>8, <1>9, TaskMoves(t)
  DEF TaskMoves, TaskStep, FailStep, Fault, ScanFails, DropFails, FetchAccountFails,
      MarkGoneFails, CheckFeedbackFails, LookupFails, JudgeFails, SuppressedFails, FailJobFails

\* However the runs overlap, fail and are killed: a spam verdict that is settled
\* without a message was settled by a moderator's feedback or by a run that was
\* asked not to notify (notify_with_claim returning Ok(false)).
THEOREM QuietOnlyWithCauseCorrect == Spec => QuietOnlyWithCause
<1>1. Init => QuietInv
  BY InitType DEF Init, QuietInv, QuietIsDue
<1>2. QuietInv /\ [Next]_vars =>
        [\A a \in Account : ~SettledQuietly(a) /\ SettledQuietly(a)' =>
           \/ HasTerminalFeedback(a)
           \/ \E t \in Task : Acct[t] = a /\ ~Notifies(t)]_vars
  <2> SUFFICES ASSUME QuietInv, Next, NEW a \in Account,
                      ~SettledQuietly(a), SettledQuietly(a)'
               PROVE  \/ HasTerminalFeedback(a)
                      \/ \E t \in Task : Acct[t] = a /\ ~Notifies(t)
    OBVIOUS
  <2>1. ASSUME NEW t \in Task, Complete(t)
        PROVE  Acct[t] = a /\ (HasTerminalFeedback(a) \/ ~Notifies(t))
    BY <2>1, AcctAssumption
    DEF QuietInv, TypeInv, TypeOK, StoreTypeOK, QuietIsDue, SettledQuietly, Complete, At,
        CompleteJob, WriteJob
  <2>2. ASSUME NEW t \in Task, TaskMoves(t), ~Complete(t) PROVE FALSE
    BY <2>2, OnlyCompleteSettles DEF QuietInv
  <2>3. ASSUME NEW b \in Account, StoreMoves(b) PROVE FALSE
    BY <2>3 DEF StoreMoves, Moderate, RecordFeedback, JobExpires, ExpireJob, NoJob, ClaimExpires,
       ExpireClaim, AccountGoes, SettledQuietly, QuietInv, TypeInv, TypeOK, StoreTypeOK, storeVars
  <2> QED  BY <2>1, <2>2, <2>3 DEF Next
<1> QED  BY <1>1, <1>2, QuietStep, PTL DEF Spec, QuietOnlyWithCause
-----------------------------------------------------------------------------
(* The messages, for one run at a time *)

\* Where a task has found its account unfinished and means to do something
\* about it.
AtWork == Delivery \cup Failing
            \cup {"fetch", "unavailable", "begin", "judge", "classify", "complete"}

\* What a task knows of its message and of its account.
TaskKnows ==
  \A t \in Task :
    /\ sent[t] => pc[t] \in {"release", "complete"}
    /\ pc[t] \in AtWork => ~IsCompletedJob(Acct[t])
    /\ pc[t] = "unavailable" => Acct[t] \in gone

\* Whoever could know of a message does: the job it was about is finished, or
\* the task that sent it is still there.
Accounted ==
  \A a \in Account : posts[a] > 0 =>
    doubt[a] \/ IsCompletedJob(a) \/ \E t \in Task : Acct[t] = a /\ sent[t]

MessageParts == TaskKnows /\ Accounted /\ RepeatsOnlyInDoubt
MessageInv == JobInv /\ MessageParts

\* Nothing has been sent at the start.
LEMMA MessageInit == Init => MessageParts
  BY DEF Init, MessageParts, TaskKnows, Accounted, RepeatsOnlyInDoubt, AtWork, Delivery, Failing

\* As for the job: a step of a task is about its own account, where no other
\* task is.
LEMMA MessageLocal ==
  ASSUME Exclusive, MessageInv, NEW t \in Task,
         \A u \in Task : u # t => pc'[u] = pc[u] /\ sent'[u] = sent[u],
         \A a \in Account : a # Acct[t] =>
           job'[a] = job[a] /\ posts'[a] = posts[a] /\ doubt'[a] = doubt[a],
         gone \subseteq gone',
         sent'[t] => pc'[t] \in {"release", "complete"},
         pc'[t] \in AtWork => job'[Acct[t]].status \notin Completed,
         pc'[t] = "unavailable" => Acct[t] \in gone',
         posts'[Acct[t]] > 0 =>
           doubt'[Acct[t]] \/ job'[Acct[t]].status \in Completed \/ sent'[t],
         posts'[Acct[t]] > 1 => doubt'[Acct[t]]
  PROVE  MessageParts'
<1> USE AcctAssumption
<1>1. TaskKnows'
  BY DEF Exclusive, MessageInv, MessageParts, TaskKnows, IsCompletedJob
<1>2. Accounted'
  <2> SUFFICES ASSUME NEW a \in Account, posts'[a] > 0, ~doubt'[a], ~IsCompletedJob(a)'
               PROVE  \E u \in Task : Acct[u] = a /\ sent'[u]
    BY DEF Accounted
  <2>1. CASE a = Acct[t]
    BY <2>1 DEF IsCompletedJob
  <2>2. CASE a # Acct[t]
    BY <2>2 DEF MessageInv, MessageParts, Accounted, IsCompletedJob
  <2> QED  BY <2>1, <2>2
<1>3. RepeatsOnlyInDoubt'
  BY DEF MessageInv, MessageParts, RepeatsOnlyInDoubt
<1> QED  BY <1>1, <1>2, <1>3 DEF MessageParts

\* A step that leaves the job and the messages alone and sends nothing.
LEMMA MessageQuiet ==
  ASSUME Exclusive, MessageInv, NEW t \in Task,
         \A u \in Task : u # t => pc'[u] = pc[u] /\ sent'[u] = sent[u],
         UNCHANGED <<job, posts, doubt, gone>>,
         sent'[t] = sent[t],
         sent[t] => pc'[t] \in {"release", "complete"},
         pc'[t] \in AtWork => pc[t] \in AtWork \/ ~IsCompletedJob(Acct[t]),
         pc'[t] = "unavailable" => Acct[t] \in gone
  PROVE  MessageParts'
<1> USE AcctAssumption
<1>1. Acct[t] \in Account
  OBVIOUS
<1>2. pc'[t] \in AtWork => job'[Acct[t]].status \notin Completed
  BY DEF MessageInv, MessageParts, TaskKnows, IsCompletedJob
<1>3. posts'[Acct[t]] > 0 =>
        doubt'[Acct[t]] \/ job'[Acct[t]].status \in Completed \/ sent'[t]
  BY <1>1 DEF Exclusive, MessageInv, MessageParts, Accounted, IsCompletedJob
<1>4. posts'[Acct[t]] > 1 => doubt'[Acct[t]]
  BY <1>1 DEF MessageInv, MessageParts, RepeatsOnlyInDoubt
<1> QED  BY <1>2, <1>3, <1>4, MessageLocal

\* The steps of check_one and of the queue that write no job.
LEMMA MessageQuietTask ==
  ASSUME Exclusive, MessageInv, NEW t \in Task,
         \/ QueueStep(t) /\ ~MarkGone(t)
         \/ CheckStep(t) /\ ~Begin(t) /\ ~Classify(t) /\ ~Complete(t)
         \/ Claim(t) \/ ClaimRefused(t) \/ ClaimFails(t) \/ Suppressed(t)
         \/ Release(t) \/ ReleaseFails(t) \/ FailRead(t)
         \/ JudgeFails(t) \/ SuppressedFails(t) \/ (\E m \in Mode : Start(t, m))
  PROVE  MessageParts'
<1>1. /\ \A u \in Task : u # t => pc'[u] = pc[u] /\ sent'[u] = sent[u]
      /\ UNCHANGED <<job, posts, doubt, gone>>
      /\ sent'[t] = sent[t]
      /\ sent[t] => pc'[t] \in {"release", "complete"}
      /\ pc'[t] \in AtWork => pc[t] \in AtWork \/ ~IsCompletedJob(Acct[t])
      /\ pc'[t] = "unavailable" => Acct[t] \in gone
  <2> USE DEF MessageInv, MessageParts, TaskKnows, JobInv, ClaimInv, TypeInv, TypeOK, Goto,
          Continue, Finish, storeVars, worldVars, At, AtWork, Delivery, Failing
  <2>1. CASE QueueStep(t) /\ ~MarkGone(t)
    BY <2>1 DEF QueueStep, Scan, Drop, FetchAccount, RemoveFailed, Resolved
  <2>2. CASE CheckFeedback(t) \/ Decided(t) \/ Proceed(t) \/ Existing(t)
    BY <2>2 DEF CheckFeedback, Decided, Proceed, Existing, Abandon
  <2>3. CASE ResumePending(t)
    BY <2>3 DEF ResumePending, IsPending, IsPendingJob, IsCompletedJob, Completed
  <2>4. CASE \E answer \in Answer : Judge(t, answer)
    BY <2>4 DEF Judge
  <2>5. CASE Claim(t) \/ ClaimRefused(t) \/ ClaimFails(t) \/ Suppressed(t)
    BY <2>5 DEF Claim, ClaimNotification, ClaimRefused, ClaimFails, Suppressed
  <2>6. CASE Release(t) \/ ReleaseFails(t)
    BY <2>6 DEF Release, ReleaseFails, ReleaseClaim, AfterRelease
  <2>7. CASE FailRead(t) \/ JudgeFails(t) \/ SuppressedFails(t)
    BY <2>7 DEF FailRead, JudgeFails, SuppressedFails, Fail
  <2>8. CASE \E m \in Mode : Start(t, m)
    BY <2>8 DEF Start
  <2> QED  BY <2>1, <2>2, <2>3, <2>4, <2>5, <2>6, <2>7, <2>8 DEF CheckStep
<1> QED  BY <1>1, MessageQuiet

\* The messages themselves, and the ways a task ends.  A task that ends without
\* having recorded its message leaves the account in doubt.
LEMMA MessageSendOrEnd ==
  ASSUME Exclusive, MessageInv, NEW t \in Task,
         \/ Send(t) \/ SendFails(t) \/ SendRetries(t)
         \/ Abandon(t) /\ ~sent[t]
         \/ CompleteFails(t) \/ Crash(t)
  PROVE  MessageParts'
<1> USE AcctAssumption, PostCapAssumption
    DEF MessageInv, MessageParts, TaskKnows, Accounted, RepeatsOnlyInDoubt, JobInv, ClaimInv,
        TypeInv, TypeOK, StoreTypeOK, Goto, Continue, Finish, storeVars, worldVars, At, AtWork,
        Delivery, Failing, IsCompletedJob, Post, Exclusive
<1>1. CASE Send(t)
  BY <1>1, MessageLocal DEF Send
<1>2. CASE SendFails(t)
  BY <1>2, MessageLocal DEF SendFails
<1>3. CASE SendRetries(t)
  BY <1>3, MessageLocal DEF SendRetries, taskVars
<1>4. CASE Abandon(t) /\ ~sent[t]
  BY <1>4, MessageLocal DEF Abandon
<1>5. CASE CompleteFails(t) \/ Crash(t)
  BY <1>5, MessageLocal DEF CompleteFails, Crash
<1> QED  BY <1>1, <1>2, <1>3, <1>4, <1>5
\* The steps that write the job: only complete_job and mark_unavailable finish
\* it, and begin_job never starts over on a finished one.
LEMMA MessageWritingTask ==
  ASSUME Exclusive, MessageInv, NEW t \in Task,
         \/ MarkGone(t) \/ Begin(t) \/ BeginFails(t) \/ Classify(t) \/ ClassifyFails(t)
         \/ Complete(t) \/ FailWrite(t)
  PROVE  MessageParts'
<1> USE AcctAssumption
    DEF MessageInv, MessageParts, TaskKnows, JobInv, ClaimInv, TypeInv, TypeOK, StoreTypeOK,
        Goto, Continue, Finish, storeVars, worldVars, At, AtWork, Delivery, Failing,
        IsCompletedJob
<1>1. Acct[t] \in Account /\ posts[Acct[t]] \in Nat
  BY PostCapAssumption
<1>2. pc[t] \in AtWork \ {"release", "complete"} =>
        ~sent[t] /\ (posts[Acct[t]] > 0 => doubt[Acct[t]])
  BY <1>1 DEF Accounted, Exclusive
<1>3. posts[Acct[t]] > 1 => doubt[Acct[t]]
  BY <1>1 DEF RepeatsOnlyInDoubt
<1>4. CASE MarkGone(t)
  <2>1. CASE job[Acct[t]] = NoJob
    BY <1>2, <1>3, <1>4, <2>1, MessageLocal DEF MarkGone, MarkUnavailable, RemoveFailed
  <2>2. CASE job[Acct[t]] # NoJob
    BY <1>2, <1>3, <1>4, <2>2, MessageLocal DEF MarkGone, MarkUnavailable, WriteJob
  <2> QED  BY <2>1, <2>2
<1>5. CASE Begin(t) \/ BeginFails(t)
  BY <1>2, <1>3, <1>5, MessageLocal DEF Begin, BeginFails, BeginJob, ProcessingJob, Completed
<1>6. CASE Classify(t) \/ ClassifyFails(t)
  BY <1>2, <1>3, <1>6, MessageLocal
  DEF Classify, ClassifyFails, RecordPending, PendingJob, Completed
<1>7. CASE Complete(t)
  <2>1. judged[t] \in Completed
    BY <1>7 DEF Complete, HasAnswer, Answer, Completed
  <2> QED  BY <1>3, <1>7, <2>1, MessageLocal DEF Complete, CompleteJob, WriteJob
<1>8. CASE FailWrite(t)
  BY <1>2, <1>3, <1>8, MessageLocal DEF FailWrite, FailJob, WriteJob
<1> QED  BY <1>4, <1>5, <1>6, <1>7, <1>8

\* An error that ends a task ends it before it has sent anything.
LEMMA AbandonUnsent ==
  ASSUME MessageInv, NEW t \in Task,
         \/ ScanFails(t) \/ DropFails(t) \/ FetchAccountFails(t) \/ MarkGoneFails(t)
         \/ CheckFeedbackFails(t) \/ LookupFails(t) \/ FailJobFails(t)
  PROVE  Abandon(t) /\ ~sent[t]
  BY DEF MessageInv, MessageParts, TaskKnows, At, Failing, ScanFails, DropFails,
         FetchAccountFails, MarkGoneFails, CheckFeedbackFails, LookupFails, FailJobFails

\* Rulings, expiry and departures: a record that expires leaves its message in
\* doubt.
LEMMA MessageStore ==
  ASSUME Exclusive, MessageInv, NEW a \in Account, StoreMoves(a)
  PROVE  MessageParts'
<1> USE AcctAssumption, PostCapAssumption
    DEF MessageInv, MessageParts, TaskKnows, Accounted, RepeatsOnlyInDoubt, JobInv, ClaimInv,
        TypeInv, TypeOK, StoreTypeOK, storeVars, taskVars, worldVars, IsCompletedJob
<1>1. ASSUME NEW verdict \in Terminal, Moderate(a, verdict) PROVE MessageParts'
  BY <1>1 DEF Moderate, RecordFeedback
<1>2. CASE JobExpires(a)
  <2>1. \A t \in Task : pc[t] \in AtWork => Acct[t] # a
    BY <1>2 DEF JobExpires, At, AtWork, Delivery, Failing
  <2>2. TaskKnows'
    BY <1>2, <2>1 DEF JobExpires, ExpireJob
  <2>3. Accounted' /\ RepeatsOnlyInDoubt'
    BY <1>2 DEF JobExpires, ExpireJob
  <2> QED  BY <2>2, <2>3
<1>3. CASE ClaimExpires(a)
  BY <1>3 DEF ClaimExpires, ExpireClaim
<1>4. CASE AccountGoes(a)
  BY <1>4 DEF AccountGoes
<1> QED  BY <1>1, <1>2, <1>3, <1>4 DEF StoreMoves

\* MessageInv is inductive with one task per account.
LEMMA MessageStep == Exclusive /\ MessageInv /\ [Next]_vars => MessageInv'
<1> SUFFICES ASSUME Exclusive, MessageInv, [Next]_vars PROVE MessageParts'
  BY JobStep DEF MessageInv
<1>1. ASSUME NEW t \in Task, TaskMoves(t) PROVE MessageParts'
  BY <1>1, MessageQuietTask, MessageSendOrEnd, MessageWritingTask, AbandonUnsent
  DEF TaskMoves, TaskStep, DeliveryStep, FailStep, QueueStep, CheckStep, Fault
<1>2. CASE UNCHANGED vars
  BY <1>2 DEF vars, taskVars, storeVars, worldVars, MessageInv, MessageParts, TaskKnows,
              Accounted, RepeatsOnlyInDoubt, IsCompletedJob
<1> QED  BY <1>1, <1>2, MessageStore DEF Next

\* So it holds throughout.
LEMMA MessageInvariant == ASSUME Exclusive PROVE Spec => []MessageInv
<1>1. Init => MessageInv
  BY InitType, ClaimInit, JobInit, MessageInit DEF MessageInv, JobInv, JobParts, ClaimInv
<1>2. MessageInv /\ [Next]_vars => MessageInv'
  BY MessageStep
<1> QED  BY <1>1, <1>2, PTL DEF Spec

\* Under the run lease, moderators see an account twice only after a message
\* whose delivery or record the store could not know of.
THEOREM RepeatsOnlyInDoubtCorrect == ASSUME Exclusive PROVE Spec => []RepeatsOnlyInDoubt
<1>1. MessageInv => RepeatsOnlyInDoubt
  BY DEF MessageInv, MessageParts
<1>2. Spec => []MessageInv
  BY MessageInvariant
<1> QED  BY <1>1, <1>2, PTL
-----------------------------------------------------------------------------
(* The outbox, for one run at a time *)

\* An account of which the store says the same as before is in the same phase.
LEMMA SamePhase ==
  ASSUME NEW a \in Account, job'[a] = job[a], feedback'[a] = feedback[a],
         a \in failed' <=> a \in failed, a \in pending' <=> a \in pending
  PROVE  OutboxPhase(a)' = OutboxPhase(a)
  BY DEF OutboxPhase, HasTerminalFeedback, IsCompletedJob, Queued

\* The step of the outbox that a step is: a step without effect on it, ...
LEMMA OutboxStutter ==
  ASSUME \A a \in Account : OutboxPhase(a)' = OutboxPhase(a), UNCHANGED <<gone, posts>>
  PROVE  [O!Next]_<<[a \in Account |-> OutboxPhase(a)], gone, posts>>
  OBVIOUS

\* ... a move of one entry, ...
LEMMA OutboxMove ==
  ASSUME NEW a \in Account, \A b \in Account : b # a => OutboxPhase(b)' = OutboxPhase(b),
         UNCHANGED <<gone, posts>>,
         \/ <<OutboxPhase(a), OutboxPhase(a)'>> \in O!Moves
         \/ a \in gone /\ OutboxPhase(a) = "owed" /\ OutboxPhase(a)' = "open"
         \/ OutboxPhase(a)' = OutboxPhase(a)
  PROVE  [O!Next]_<<[b \in Account |-> OutboxPhase(b)], gone, posts>>
<1>1. CASE OutboxPhase(a)' = OutboxPhase(a)
  BY <1>1, OutboxStutter
<1>2. CASE OutboxPhase(a)' # OutboxPhase(a)
  <2> DEFINE next == OutboxPhase(a)'
  <2>1. next \in O!Phase
    BY <1>2 DEF O!Phase, O!Moves
  <2>2. O!Allowed(a, next)
    BY <1>2 DEF O!Allowed
  <2>3. [b \in Account |-> OutboxPhase(b)']
          = [[b \in Account |-> OutboxPhase(b)] EXCEPT ![a] = next]
    OBVIOUS
  <2>4. O!Move(a)
    BY <2>1, <2>2, <2>3 DEF O!Move
  <2> QED  BY <2>4 DEF O!Next
<1> QED  BY <1>1, <1>2

\* ... a message about an account that is owed one.
LEMMA OutboxPost ==
  ASSUME TypeInv, NEW a \in Account, OutboxPhase(a) = "owed", Post(a), UNCHANGED gone,
         \A b \in Account : OutboxPhase(b)' = OutboxPhase(b)
  PROVE  [O!Next]_<<[b \in Account |-> OutboxPhase(b)], gone, posts>>
<1> USE DEF TypeInv, TypeOK, Post
<1>1. CASE posts[a] = PostCap
  <2>1. posts' = posts
    BY <1>1
  <2> QED  BY <2>1, OutboxStutter
<1>2. CASE posts[a] # PostCap
  <2>1. posts[a] < PostCap /\ posts' = [posts EXCEPT ![a] = @ + 1]
    BY <1>2, PostCapAssumption
  <2>2. O!Post(a)
    BY <2>1 DEF O!Post
  <2> QED  BY <2>2 DEF O!Next
<1> QED  BY <1>1, <1>2

\* The initial states of the outbox: nothing is stored of any account.
LEMMA OutboxInit == Init => O!Init
  BY DEF Init, StoreInit, O!Init, OutboxPhase, HasTerminalFeedback, Terminal, IsCompletedJob,
         NoJob, Completed, Queued

\* Taking an account off the queue for good needs a ruling, an outcome or
\* Mastodon's word that it is gone.
LEMMA OutboxLetOff ==
  ASSUME MessageInv, NEW t \in Task, Drop(t) \/ MarkGone(t)
  PROVE  [O!Next]_<<[a \in Account |-> OutboxPhase(a)], gone, posts>>
<1> USE AcctAssumption
    DEF MessageInv, MessageParts, TaskKnows, JobInv, StageOK, ClaimInv, TypeInv, TypeOK,
        StoreTypeOK, At, worldVars, OutboxPhase, HasTerminalFeedback, IsCompletedJob, Queued
<1>1. Acct[t] \in Account
  OBVIOUS
<1>2. CASE Drop(t)
  <2>1. \A b \in Account : OutboxPhase(b)' = OutboxPhase(b)
    BY <1>1, <1>2 DEF Drop, RemoveFailed, Resolved
  <2>2. UNCHANGED <<gone, posts>>
    BY <1>2 DEF Drop
  <2> QED  BY <2>1, <2>2, OutboxStutter
<1>3. CASE MarkGone(t)
  <2>1. Acct[t] \in gone /\ UNCHANGED <<gone, posts>>
    BY <1>3 DEF MarkGone
  <2>2. \A b \in Account : b # Acct[t] => OutboxPhase(b)' = OutboxPhase(b)
    BY <1>1, <1>3 DEF MarkGone, MarkUnavailable, RemoveFailed, WriteJob
  <2>3. \/ <<OutboxPhase(Acct[t]), OutboxPhase(Acct[t])'>> \in O!Moves
        \/ OutboxPhase(Acct[t]) = "owed" /\ OutboxPhase(Acct[t])' = "open"
        \/ OutboxPhase(Acct[t])' = OutboxPhase(Acct[t])
    <3>1. CASE job[Acct[t]] = NoJob
      BY <1>1, <1>3, <3>1 DEF MarkGone, MarkUnavailable, RemoveFailed
    <3>2. CASE job[Acct[t]] # NoJob
      <4>1. job'[Acct[t]].status = "unavailable" /\ UNCHANGED feedback
        BY <1>1, <1>3, <3>2 DEF MarkGone, MarkUnavailable, WriteJob, JobRecord
      <4> QED  BY <1>1, <4>1 DEF O!Moves, Completed
    <3> QED  BY <3>1, <3>2
  <2> QED  BY <1>1, <2>1, <2>2, <2>3, OutboxMove
<1> QED  BY <1>2, <1>3

\* What check_one and fail_job write: the account is owed, then settled.
LEMMA OutboxWrites ==
  ASSUME MessageInv, NEW t \in Task,
         \/ Begin(t) \/ BeginFails(t) \/ Classify(t) \/ ClassifyFails(t) \/ Complete(t)
         \/ FailWrite(t)
  PROVE  [O!Next]_<<[a \in Account |-> OutboxPhase(a)], gone, posts>>
<1> USE AcctAssumption
    DEF MessageInv, MessageParts, TaskKnows, AtWork, Failing, Delivery, JobInv, ClaimInv, TypeInv,
        TypeOK, StoreTypeOK, At, storeVars, worldVars, OutboxPhase, HasTerminalFeedback,
        IsCompletedJob, Queued, O!Moves
<1>1. Acct[t] \in Account
  OBVIOUS
<1>2. UNCHANGED <<gone, posts>>
  BY DEF Begin, BeginFails, Classify, ClassifyFails, Complete, FailWrite
<1>3. CASE Begin(t) \/ BeginFails(t)
  <2>1. \A b \in Account : OutboxPhase(b)' = OutboxPhase(b)
    BY <1>1, <1>3 DEF Begin, BeginFails, BeginJob, ProcessingJob, Completed
  <2> QED  BY <1>2, <2>1, OutboxStutter
<1>4. CASE Classify(t) \/ ClassifyFails(t)
  <2>1. \A b \in Account : b # Acct[t] => OutboxPhase(b)' = OutboxPhase(b)
    BY <1>1, <1>4 DEF Classify, ClassifyFails, RecordPending
  <2>2. \/ <<OutboxPhase(Acct[t]), OutboxPhase(Acct[t])'>> \in O!Moves
        \/ OutboxPhase(Acct[t])' = OutboxPhase(Acct[t])
    BY <1>1, <1>4 DEF Classify, ClassifyFails, RecordPending, PendingJob, Completed
  <2> QED  BY <1>1, <1>2, <2>1, <2>2, OutboxMove
<1>5. CASE Complete(t)
  <2>1. \A b \in Account : b # Acct[t] => OutboxPhase(b)' = OutboxPhase(b)
    BY <1>1, <1>5 DEF Complete, CompleteJob, WriteJob
  <2>2. judged[t] \in Completed
    BY <1>5 DEF Complete, HasAnswer, Answer, Completed
  <2>3. \/ <<OutboxPhase(Acct[t]), OutboxPhase(Acct[t])'>> \in O!Moves
        \/ OutboxPhase(Acct[t])' = OutboxPhase(Acct[t])
    BY <1>1, <1>5, <2>2 DEF Complete, CompleteJob, WriteJob
  <2> QED  BY <1>1, <1>2, <2>1, <2>3, OutboxMove
<1>6. CASE FailWrite(t)
  <2>1. \A b \in Account : b # Acct[t] => OutboxPhase(b)' = OutboxPhase(b)
    BY <1>1, <1>6 DEF FailWrite, FailJob, WriteJob
  <2>2. job'[Acct[t]].status = "failed"
    BY <1>1, <1>6 DEF FailWrite, FailJob, WriteJob, HeldRecord
  <2>3. \/ <<OutboxPhase(Acct[t]), OutboxPhase(Acct[t])'>> \in O!Moves
        \/ OutboxPhase(Acct[t])' = OutboxPhase(Acct[t])
    BY <1>1, <1>6, <2>2 DEF FailWrite, FailJob, WriteJob, Completed
  <2> QED  BY <1>1, <1>2, <2>1, <2>3, OutboxMove
<1> QED  BY <1>3, <1>4, <1>5, <1>6

\* A message goes out for an account that is owed one.
LEMMA OutboxSends ==
  ASSUME MessageInv, NEW t \in Task, Send(t) \/ SendFails(t) \/ SendRetries(t)
  PROVE  [O!Next]_<<[a \in Account |-> OutboxPhase(a)], gone, posts>>
<1>1. Acct[t] \in Account
  BY AcctAssumption
<1>2. UNCHANGED <<storeVars, gone>> /\ (Post(Acct[t]) \/ UNCHANGED posts)
  BY DEF Send, SendFails, SendRetries, worldVars
<1>3. \A b \in Account : OutboxPhase(b)' = OutboxPhase(b)
  BY <1>2, SamePhase DEF storeVars
<1>4. OutboxPhase(Acct[t]) = "owed"
  BY <1>1
  DEF Send, SendFails, SendRetries, At, MessageInv, JobInv, ClaimInv, ClaimHeld, StageOK,
      DebtsAreQueued, Delivery, OutboxPhase, HasTerminalFeedback, Terminal, IsPendingJob,
      IsCompletedJob, Completed, Queued
<1> QED  BY <1>1, <1>2, <1>3, <1>4, OutboxPost, OutboxStutter DEF MessageInv, JobInv, ClaimInv

\* The steps the outbox does not see.
LEMMA OutboxUnseen ==
  ASSUME NEW t \in Task,
         \/ Scan(t) \/ FetchAccount(t) \/ CheckFeedback(t) \/ Decided(t) \/ ResumePending(t)
         \/ Proceed(t) \/ Existing(t) \/ (\E answer \in Answer : Judge(t, answer))
         \/ Claim(t) \/ ClaimRefused(t) \/ ClaimFails(t) \/ Suppressed(t) \/ Release(t)
         \/ ReleaseFails(t) \/ FailRead(t) \/ Abandon(t) \/ Fail(t) \/ CompleteFails(t)
         \/ Crash(t) \/ (\E m \in Mode : Start(t, m))
  PROVE  [O!Next]_<<[a \in Account |-> OutboxPhase(a)], gone, posts>>
<1>1. UNCHANGED <<job, failed, pending, feedback, gone, posts>>
  BY DEF storeVars, worldVars, Scan, FetchAccount, CheckFeedback, Decided, ResumePending, Proceed,
         Existing, Judge, Claim, ClaimRefused, ClaimFails, ClaimNotification, Suppressed, Release,
         ReleaseClaim, ReleaseFails, FailRead, Abandon, Fail, CompleteFails, Crash, Start
<1> QED  BY <1>1, SamePhase, OutboxStutter

\* Rulings, expiry and departures.
LEMMA OutboxStore ==
  ASSUME MessageInv, NEW a \in Account, StoreMoves(a)
  PROVE  [O!Next]_<<[b \in Account |-> OutboxPhase(b)], gone, posts>>
<1> USE DEF MessageInv, JobInv, ClaimInv, TypeInv, TypeOK, StoreTypeOK, storeVars, worldVars,
        OutboxPhase, HasTerminalFeedback, IsCompletedJob, Queued, O!Moves
<1>1. ASSUME NEW verdict \in Terminal, Moderate(a, verdict)
      PROVE  [O!Next]_<<[b \in Account |-> OutboxPhase(b)], gone, posts>>
  <2>1. \A b \in Account : b # a => OutboxPhase(b)' = OutboxPhase(b)
    BY <1>1 DEF Moderate, RecordFeedback
  <2>2. \/ <<OutboxPhase(a), OutboxPhase(a)'>> \in O!Moves
        \/ OutboxPhase(a)' = OutboxPhase(a)
    BY <1>1 DEF Moderate, RecordFeedback
  <2>3. UNCHANGED <<gone, posts>>
    BY <1>1 DEF Moderate
  <2> QED  BY <2>1, <2>2, <2>3, OutboxMove
<1>2. CASE JobExpires(a)
  <2>1. \A b \in Account : b # a => OutboxPhase(b)' = OutboxPhase(b)
    BY <1>2 DEF JobExpires, ExpireJob
  <2>2. \/ <<OutboxPhase(a), OutboxPhase(a)'>> \in O!Moves
        \/ OutboxPhase(a)' = OutboxPhase(a)
    BY <1>2 DEF JobExpires, ExpireJob, NoJob, Completed, CompletedIsNotQueued
  <2>3. UNCHANGED <<gone, posts>>
    BY <1>2 DEF JobExpires
  <2> QED  BY <2>1, <2>2, <2>3, OutboxMove
<1>3. CASE ClaimExpires(a)
  BY <1>3, SamePhase, OutboxStutter DEF ClaimExpires, ExpireClaim
<1>4. CASE AccountGoes(a)
  <2>1. \A b \in Account : OutboxPhase(b)' = OutboxPhase(b)
    BY <1>4, SamePhase DEF AccountGoes
  <2>2. O!Go(a)
    BY <1>4, <2>1 DEF AccountGoes, O!Go
  <2> QED  BY <2>2 DEF O!Next
<1> QED  BY <1>1, <1>2, <1>3, <1>4 DEF StoreMoves

\* Under the run lease, every step of the tasks, of the moderators and of the
\* store is a step of the outbox or none: a message goes out only for an account
\* that is durably owed one and on which no moderator has ruled, and an account
\* leaves the queue only with an outcome, a ruling or Mastodon's word that it is
\* gone.
THEOREM OutboxImplemented == ASSUME Exclusive PROVE Spec => ImplementsOutbox
<1>1. MessageInv /\ [Next]_vars =>
        [O!Next]_<<[a \in Account |-> OutboxPhase(a)], gone, posts>>
  <2> SUFFICES ASSUME MessageInv, [Next]_vars
               PROVE  [O!Next]_<<[a \in Account |-> OutboxPhase(a)], gone, posts>>
    OBVIOUS
  <2>1. ASSUME NEW t \in Task, TaskMoves(t)
        PROVE  [O!Next]_<<[a \in Account |-> OutboxPhase(a)], gone, posts>>
    BY <2>1, OutboxLetOff, OutboxWrites, OutboxSends, OutboxUnseen
    DEF TaskMoves, TaskStep, QueueStep, CheckStep, DeliveryStep, FailStep, Fault, ScanFails,
        DropFails, FetchAccountFails, MarkGoneFails, CheckFeedbackFails, LookupFails,
        JudgeFails, SuppressedFails, FailJobFails
  <2>2. CASE UNCHANGED vars
    BY <2>2, SamePhase, OutboxStutter DEF vars, storeVars, worldVars
  <2> QED  BY <2>1, <2>2, OutboxStore DEF Next
<1>2. Spec => []MessageInv
  BY MessageInvariant
<1> QED  BY <1>1, <1>2, OutboxInit, PTL DEF Spec, ImplementsOutbox, O!Spec
=============================================================================
