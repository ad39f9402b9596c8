----------------------------- MODULE AccountJobs ----------------------------
(***************************************************************************)
(* The life of one account through the checker: check_one and its helpers  *)
(* (src/src/check.rs), the per-account part of retry-failed                *)
(* (src/src/cli.rs, failed_ids and mark_unavailable of src/src/redis.rs),  *)
(* and the moderator's feedback that arrives from the Slack server at any  *)
(* moment.                                                                 *)
(*                                                                         *)
(* A task is one check of one account; a run is a set of tasks that share  *)
(* nothing but the store.  Acct is injective when one run is active at a   *)
(* time, which is what the run lease is for; two tasks on one account are  *)
(* two overlapping runs.  Each action is one round trip, so anything may   *)
(* happen between two of them, and every round trip may fail: a read       *)
(* without effect, a write with or without having been applied.            *)
(***************************************************************************)
EXTENDS Naturals, StateStore

CONSTANTS
  Acct,         \* the account a task checks
  PostCap       \* bound on the count of messages about an account

ASSUME AcctAssumption == Acct \in [Task -> Account]
ASSUME PostCapAssumption == PostCap \in Nat \ {0}

VARIABLES
  pc,           \* where the task is; "idle" when there is none
  mode,         \* the command that started it
  held,         \* the JobRecord it holds in memory
  judged,       \* what the classifier said: the status the task will store
  sent,         \* notify_spam returned Ok
  gone,         \* accounts Mastodon no longer has
  posts,        \* messages about the account in Slack, up to PostCap
  doubt         \* a message is there whose delivery the sender or the store never
                \* learned of, or no longer knows

taskVars == <<pc, mode, held, judged, sent>>
worldVars == <<posts, doubt, gone>>
vars == <<storeVars, taskVars, worldVars>>

-----------------------------------------------------------------------------
(* Types *)

\* "backfill" is the default, without --notify.
Mode == {"check", "retry", "backfill", "backfill_notify"}
Notifies(t) == mode[t] # "backfill"
RetriesPending(t) == mode[t] = "retry"

QueueWalk == {"scan", "drop", "fetch", "unavailable"}
CheckOne == {"feedback", "lookup", "begin", "judge", "classify", "complete"}
Delivery == {"claim", "suppressed", "send", "release"}
Failing == {"fail_read", "fail_write"}
PC == {"idle"} \cup QueueWalk \cup CheckOne \cup Delivery \cup Failing

\* A JobRecord in a task's hands, or NoJob.
HeldRecord == [status : JobStatus \cup {"absent"}, verdict : Verdict, notified : BOOLEAN]
Answer == {"spam", "not_spam", "undetermined"}

TypeOK ==
  /\ StoreTypeOK
  /\ pc \in [Task -> PC]
  /\ mode \in [Task -> Mode]
  /\ held \in [Task -> HeldRecord]
  /\ judged \in [Task -> Answer \cup {"none"}]
  /\ sent \in [Task -> BOOLEAN]
  /\ gone \subseteq Account
  /\ posts \in [Account -> 0..PostCap]
  /\ doubt \in [Account -> BOOLEAN]

Init ==
  /\ StoreInit
  /\ pc = [t \in Task |-> "idle"]
  /\ mode = [t \in Task |-> "check"]
  /\ held = [t \in Task |-> NoJob]
  /\ judged = [t \in Task |-> "none"]
  /\ sent = [t \in Task |-> FALSE]
  /\ gone = {}
  /\ posts = [a \in Account |-> 0]
  /\ doubt = [a \in Account |-> FALSE]

-----------------------------------------------------------------------------
(* Steps of a task *)

At(t, place) == pc[t] = place
Goto(t, place) == pc' = [pc EXCEPT ![t] = place]

\* What a task leaves behind when its locals go out of scope.
Finish(t) ==
  /\ Goto(t, "idle")
  /\ held' = [held EXCEPT ![t] = NoJob]
  /\ judged' = [judged EXCEPT ![t] = "none"]
  /\ sent' = [sent EXCEPT ![t] = FALSE]
  /\ UNCHANGED mode

Continue(t, place) == Goto(t, place) /\ UNCHANGED <<mode, held, judged, sent>>

\* Where an error leads: out of the task, or to fail_job.
Abandon(t) == Finish(t) /\ UNCHANGED <<storeVars, worldVars>>
Fail(t) == Continue(t, "fail_read") /\ UNCHANGED <<storeVars, worldVars>>

Start(t, m) ==
  /\ At(t, "idle")
  /\ m = "retry" => Acct[t] \in Queued
  /\ mode' = [mode EXCEPT ![t] = m]
  /\ Goto(t, IF m = "retry" THEN "scan" ELSE "feedback")
  /\ UNCHANGED <<held, judged, sent, storeVars, worldVars>>

-----------------------------------------------------------------------------
(* retry-failed: the walk over the queue, then the fetch from Mastodon *)

Resolved(a) == HasTerminalFeedback(a) \/ IsCompletedJob(a)

Scan(t) ==
  /\ At(t, "scan")
  /\ Continue(t, IF Resolved(Acct[t]) THEN "drop" ELSE "fetch")
  /\ UNCHANGED <<storeVars, worldVars>>

ScanFails(t) == At(t, "scan") /\ Abandon(t)

Drop(t) ==
  /\ At(t, "drop")
  /\ RemoveFailed(Acct[t])
  /\ Finish(t)
  /\ UNCHANGED worldVars

DropFails(t) == At(t, "drop") /\ Abandon(t)

FetchAccount(t) ==
  /\ At(t, "fetch")
  /\ Continue(t, IF Acct[t] \in gone THEN "unavailable" ELSE "feedback")
  /\ UNCHANGED <<storeVars, worldVars>>

FetchAccountFails(t) == At(t, "fetch") /\ Abandon(t)

MarkGone(t) ==
  /\ At(t, "unavailable")
  /\ MarkUnavailable(Acct[t])
  /\ Finish(t)
  /\ UNCHANGED worldVars

MarkGoneFails(t) == At(t, "unavailable") /\ Abandon(t)

-----------------------------------------------------------------------------
(* check_one *)

CheckFeedback(t) ==
  /\ At(t, "feedback")
  /\ ~HasTerminalFeedback(Acct[t])
  /\ Continue(t, "lookup")
  /\ UNCHANGED <<storeVars, worldVars>>

Decided(t) ==
  /\ At(t, "feedback")
  /\ HasTerminalFeedback(Acct[t])
  /\ Abandon(t)

CheckFeedbackFails(t) == At(t, "feedback") /\ Abandon(t)

IsPendingJob(a) == job[a].status = "notification_pending"
IsPending(t) == IsPendingJob(Acct[t])

\* A delivery left uncertain is re-sent from the stored verdict, when the run
\* retries those.
ResumePending(t) ==
  /\ At(t, "lookup")
  /\ IsPending(t) /\ RetriesPending(t) /\ job[Acct[t]].verdict # "none"
  /\ held' = [held EXCEPT ![t] = job[Acct[t]]]
  /\ judged' = [judged EXCEPT ![t] = job[Acct[t]].verdict]
  /\ Goto(t, "claim")
  /\ UNCHANGED <<mode, sent, storeVars, worldVars>>

Proceed(t) ==
  /\ At(t, "lookup")
  /\ ~IsPending(t) /\ ~IsCompletedJob(Acct[t])
  /\ Continue(t, "begin")
  /\ UNCHANGED <<storeVars, worldVars>>

\* Nothing to do, or only retry-failed may do it.
Existing(t) ==
  /\ At(t, "lookup")
  /\ IsCompletedJob(Acct[t]) \/ (IsPending(t) /\ ~RetriesPending(t))
  /\ Abandon(t)

\* The read, or a pending job without a verdict.
LookupFails(t) == At(t, "lookup") /\ Abandon(t)

\* begin_job reads the old record only for its attempt count.
Begin(t) ==
  /\ At(t, "begin")
  /\ BeginJob(Acct[t])
  /\ held' = [held EXCEPT ![t] = ProcessingJob]
  /\ Goto(t, "judge")
  /\ UNCHANGED <<mode, judged, sent, worldVars>>

\* An error here leaves check_one before there is a job to fail.
BeginFails(t) ==
  /\ At(t, "begin")
  /\ BeginJob(Acct[t]) \/ UNCHANGED storeVars
  /\ Finish(t)
  /\ UNCHANGED worldVars

\* Posts, campaign context and the classifier: check_one_inner up to report_spam.
Judge(t, answer) ==
  /\ At(t, "judge")
  /\ judged' = [judged EXCEPT ![t] = answer]
  /\ Goto(t, IF answer = "spam" /\ Notifies(t) THEN "classify" ELSE "complete")
  /\ UNCHANGED <<mode, held, sent, storeVars, worldVars>>

JudgeFails(t) == At(t, "judge") /\ Fail(t)

Classify(t) ==
  /\ At(t, "classify")
  /\ job[Acct[t]] # NoJob
  /\ RecordPending(Acct[t])
  /\ Continue(t, "claim")
  /\ UNCHANGED worldVars

ClassifyFails(t) ==
  /\ At(t, "classify")
  /\ \/ job[Acct[t]] # NoJob /\ RecordPending(Acct[t])
     \/ UNCHANGED storeVars
  /\ Continue(t, "fail_read")
  /\ UNCHANGED worldVars

\* Mutant of StoredVerdict: an undetermined answer stored as a verdict.
AnswerAsVerdict(answer) == answer

StoredVerdict(answer) == IF answer = "undetermined" THEN "none" ELSE answer

Complete(t) ==
  /\ At(t, "complete")
  /\ CompleteJob(Acct[t], judged[t], StoredVerdict(judged[t]), sent[t])
  /\ Finish(t)
  /\ UNCHANGED worldVars

\* The write was lost and check_one returns the error without fail_job.  (An
\* error after an applied write leaves the store as Complete does.)
CompleteFails(t) ==
  /\ At(t, "complete")
  /\ UNCHANGED storeVars
  /\ Finish(t)
  /\ doubt' = [doubt EXCEPT ![Acct[t]] = @ \/ sent[t]]
  /\ UNCHANGED <<posts, gone>>

-----------------------------------------------------------------------------
(* notify_with_claim *)

Claim(t) ==
  /\ At(t, "claim")
  /\ ClaimNotification(Acct[t], t)
  /\ Continue(t, "send")
  /\ UNCHANGED worldVars

ClaimRefused(t) ==
  /\ At(t, "claim")
  /\ ~MayClaim(Acct[t])
  /\ Continue(t, "suppressed")
  /\ UNCHANGED <<storeVars, worldVars>>

\* The script may have taken the claim all the same; nobody holds that token.
ClaimFails(t) ==
  /\ At(t, "claim")
  /\ \/ ClaimNotification(Acct[t], Orphan)
     \/ UNCHANGED storeVars
  /\ Continue(t, "fail_read")
  /\ UNCHANGED worldVars

\* Refused by feedback the job completes unnotified; refused by another claim
\* it is an error.
\* Mutant of Suppressed: any refusal completes the job.
SuppressedAlways(t) ==
  /\ At(t, "suppressed")
  /\ Continue(t, "complete")
  /\ UNCHANGED <<storeVars, worldVars>>

Suppressed(t) ==
  /\ At(t, "suppressed")
  /\ Continue(t, IF HasTerminalFeedback(Acct[t]) THEN "complete" ELSE "fail_read")
  /\ UNCHANGED <<storeVars, worldVars>>

SuppressedFails(t) == At(t, "suppressed") /\ Fail(t)

Post(a) == posts' = [posts EXCEPT ![a] = IF @ = PostCap THEN @ ELSE @ + 1]

Send(t) ==
  /\ At(t, "send")
  /\ Post(Acct[t])
  /\ sent' = [sent EXCEPT ![t] = TRUE]
  /\ Goto(t, "release")
  /\ UNCHANGED <<mode, held, judged, doubt, gone, storeVars>>

\* An error from Slack, or a delivered message whose response was lost.
SendFails(t) ==
  /\ At(t, "send")
  /\ \/ Post(Acct[t]) /\ doubt' = [doubt EXCEPT ![Acct[t]] = TRUE] /\ UNCHANGED gone
     \/ UNCHANGED worldVars
  /\ Continue(t, "release")
  /\ UNCHANGED storeVars

\* send_with_retry takes a timeout or a 5xx for a failure and posts again, after a
\* message that may have arrived.
SendRetries(t) ==
  /\ At(t, "send")
  /\ Post(Acct[t])
  /\ doubt' = [doubt EXCEPT ![Acct[t]] = TRUE]
  /\ UNCHANGED <<gone, taskVars, storeVars>>

\* The result is notify_spam's; an error of the release is only logged.
AfterRelease(t) == Continue(t, IF sent[t] THEN "complete" ELSE "fail_read")

Release(t) ==
  /\ At(t, "release")
  /\ ReleaseClaim(Acct[t], t)
  /\ AfterRelease(t)
  /\ UNCHANGED worldVars

\* Mutant of ReleaseFails: the error of the release hides a successful delivery.
ReleaseErrorWins(t) ==
  /\ At(t, "release")
  /\ claim' = OrphanClaim(Acct[t], t)
  /\ Continue(t, "fail_read")
  /\ UNCHANGED <<job, failed, pending, feedback, worldVars>>

ReleaseFails(t) ==
  /\ At(t, "release")
  /\ claim' = OrphanClaim(Acct[t], t)
  /\ AfterRelease(t)
  /\ UNCHANGED <<job, failed, pending, feedback, worldVars>>

-----------------------------------------------------------------------------
(* fail_job *)

FailRead(t) ==
  /\ At(t, "fail_read")
  /\ held' = IF job[Acct[t]] = NoJob THEN held
             ELSE [held EXCEPT ![t].verdict = job[Acct[t]].verdict]
  /\ Goto(t, "fail_write")
  /\ UNCHANGED <<mode, judged, sent, storeVars, worldVars>>

FailWrite(t) ==
  /\ At(t, "fail_write")
  /\ FailJob(Acct[t], held[t])
  /\ Finish(t)
  /\ UNCHANGED worldVars

\* Either round trip failed: logged, and the task ends in its first error.
FailJobFails(t) == pc[t] \in Failing /\ Abandon(t)

-----------------------------------------------------------------------------
(* The environment *)

\* The process dies, the lease is lost, or the task panics: at any await.
Crash(t) ==
  /\ ~At(t, "idle")
  /\ claim' = OrphanClaim(Acct[t], t)
  /\ doubt' = [doubt EXCEPT ![Acct[t]] = @ \/ sent[t]]
  /\ Finish(t)
  /\ UNCHANGED <<job, failed, pending, feedback, posts, gone>>

\* A click needs a message to click on.
Moderate(a, verdict) ==
  /\ posts[a] > 0
  /\ RecordFeedback(a, verdict)
  /\ UNCHANGED <<taskVars, worldVars>>

AccountGoes(a) ==
  /\ gone' = gone \cup {a}
  /\ UNCHANGED <<storeVars, taskVars, posts, doubt>>

\* Ninety days outlast any task on the account.
JobExpires(a) ==
  /\ \A t \in Task : Acct[t] = a => At(t, "idle")
  /\ ExpireJob(a)
  /\ doubt' = [doubt EXCEPT ![a] = @ \/ posts[a] > 0]
  /\ UNCHANGED <<taskVars, posts, gone>>

\* Ten minutes outlast any delivery, so only an orphan gets to expire.
ClaimExpires(a) == ExpireClaim(a) /\ UNCHANGED <<taskVars, worldVars>>

-----------------------------------------------------------------------------
QueueStep(t) == Scan(t) \/ Drop(t) \/ FetchAccount(t) \/ MarkGone(t)

CheckStep(t) ==
  \/ CheckFeedback(t) \/ Decided(t) \/ ResumePending(t) \/ Proceed(t)
  \/ Existing(t) \/ Begin(t) \/ Classify(t) \/ Complete(t)
  \/ \E answer \in Answer : Judge(t, answer)

DeliveryStep(t) ==
  \/ Claim(t) \/ ClaimRefused(t) \/ Suppressed(t) \/ Send(t) \/ Release(t)

FailStep(t) == FailRead(t) \/ FailWrite(t)

TaskStep(t) == QueueStep(t) \/ CheckStep(t) \/ DeliveryStep(t) \/ FailStep(t)

\* A call fails, or the task is gone.
Fault(t) ==
  \/ ScanFails(t) \/ DropFails(t) \/ FetchAccountFails(t) \/ MarkGoneFails(t)
  \/ CheckFeedbackFails(t) \/ LookupFails(t) \/ BeginFails(t)
  \/ JudgeFails(t) \/ ClassifyFails(t) \/ CompleteFails(t)
  \/ ClaimFails(t) \/ SuppressedFails(t)
  \/ SendFails(t) \/ SendRetries(t) \/ ReleaseFails(t)
  \/ FailJobFails(t) \/ Crash(t)

TaskMoves(t) == TaskStep(t) \/ Fault(t) \/ \E m \in Mode : Start(t, m)

StoreMoves(a) ==
  \/ \E verdict \in Terminal : Moderate(a, verdict)
  \/ JobExpires(a)
  \/ ClaimExpires(a)
  \/ AccountGoes(a)

Next ==
  \/ \E t \in Task : TaskMoves(t)
  \/ \E a \in Account : StoreMoves(a)

Spec == Init /\ [][Next]_vars

-----------------------------------------------------------------------------
(* Properties *)

\* While a message is on its way to Slack, the store already says so: the job is
\* pending with its verdict, the account is on the retry queue, the delivery is
\* claimed by this task and no moderator has decided.  A crash at this point
\* leaves the account to retry-failed (report_spam, notify_with_claim).
WriteAhead ==
  \A t \in Task : At(t, "send") =>
    /\ job[Acct[t]].status = "notification_pending"
    /\ job[Acct[t]].verdict = "spam"
    /\ Acct[t] \in pending
    /\ feedback[Acct[t]] = "none"
    /\ claim[Acct[t]] = t

\* A job that failed, or whose delivery is uncertain, is in the set retry-failed
\* reads, or a moderator has decided (write_job, record_classification,
\* record_feedback).
DebtsAreQueued ==
  \A a \in Account :
    /\ job[a].status = "failed" => a \in failed \/ HasTerminalFeedback(a)
    /\ IsPendingJob(a) => a \in pending \/ HasTerminalFeedback(a)

\* The other half of write_job's transaction: a finished account is not waiting
\* for a retry.
CompletedIsNotQueued == \A a \in Account : IsCompletedJob(a) => a \notin Queued

\* Moderators see an account twice only if an earlier message is one the store
\* could not know of: its delivery or its record was in doubt, or its record
\* has expired.
RepeatsOnlyInDoubt == \A a \in Account : posts[a] > 1 => doubt[a]

\* A spam verdict that settles without a message was settled by a moderator's
\* feedback or by a backfill run without --notify, and by nothing else
\* (notify_with_claim returning Ok(false)).
SettledQuietly(a) == job[a].status = "spam" /\ ~job[a].notified
QuietOnlyWithCause ==
  [][\A a \in Account : ~SettledQuietly(a) /\ SettledQuietly(a)' =>
       \/ HasTerminalFeedback(a)
       \/ \E t \in Task : Acct[t] = a /\ ~Notifies(t)]_vars

\* The claim alone, without the run lease: of two runs on one account only one
\* is delivering at a time, and never once a moderator has decided
\* (claim_notification, record_feedback).
OneDelivery ==
  \A t, u \in Task :
    At(t, "send") =>
      /\ feedback[Acct[t]] = "none"
      /\ Acct[u] = Acct[t] /\ At(u, "send") => u = t

\* The store and the tasks implement the outbox.
OutboxPhase(a) ==
  CASE HasTerminalFeedback(a) -> "ruled"
    [] ~HasTerminalFeedback(a) /\ IsCompletedJob(a) -> "settled"
    [] ~HasTerminalFeedback(a) /\ ~IsCompletedJob(a) /\ a \in Queued -> "owed"
    [] OTHER -> "open"
O == INSTANCE Outbox WITH phase <- [a \in Account |-> OutboxPhase(a)]
ImplementsOutbox == O!Spec

-----------------------------------------------------------------------------
(* Liveness.  A running process takes its next step, the operator keeps     *)
(* running retry-failed between other commands, Redis expires what is due,  *)
(* and outages end.                                                         *)

\* A step that only a failure explains.
Outage(t) == Fault(t) /\ ~TaskStep(t)
OutagesEnd == <>[][\A t \in Task : ~Outage(t)]_vars

FairSpec ==
  /\ Spec
  /\ \A t \in Task : WF_vars(TaskStep(t)) /\ SF_vars(Start(t, "retry"))
  /\ \A a \in Account : WF_vars(ClaimExpires(a))
  /\ OutagesEnd

\* Every account on the retry queue leaves it.
QueuedIsSettled == \A a \in Account : a \in Queued ~> a \notin Queued
=============================================================================
