----------------------------- MODULE StateStore -----------------------------
(***************************************************************************)
(* The per-account keys of the Redis state store (src/src/redis.rs): the   *)
(* job record, the two sets of the retry queue, the moderator's feedback   *)
(* and the notification claim.  Every operator that ends in a primed       *)
(* formula is one round trip to Redis: a command, a MULTI transaction or a *)
(* Lua script, each of which Redis runs atomically.  Three of them also    *)
(* take in the GET of the record they rewrite, a round trip of its own in  *)
(* the code: BeginJob, RecordPending and MarkUnavailable.                  *)
(*                                                                         *)
(* A job record keeps the fields the protocol reads back (status, verdict, *)
(* notified); attempts, timestamps, labels and error texts are left out.   *)
(***************************************************************************)
CONSTANTS
  Account,      \* Mastodon accounts
  Task,         \* check_one tasks, the holders of notification claims
  Nobody,       \* no claim key
  Orphan        \* a claim whose holder is gone; it disappears by its TTL

ASSUME ClaimAssumption ==
  Nobody \notin Task /\ Orphan \notin Task /\ Nobody # Orphan

VARIABLES
  job,          \* job:<account>            -> record, or NoJob
  failed,       \* failed_accounts          set
  pending,      \* pending_notifications    set
  feedback,     \* feedback:<account>       -> moderator's verdict; no TTL
  claim         \* notification_claim:<account> -> token of the holder

storeVars == <<job, failed, pending, feedback, claim>>

-----------------------------------------------------------------------------
(* Types *)

Completed == {"not_spam", "spam", "undetermined", "unavailable"}
JobStatus == Completed \cup {"processing", "notification_pending", "failed"}

\* StoredVerdict: absent, or the classifier's answer.
Verdict == {"none", "spam", "not_spam"}
JobRecord == [status : JobStatus, verdict : Verdict, notified : BOOLEAN]
NoJob == [status |-> "absent", verdict |-> "none", notified |-> FALSE]

Terminal == {"false_positive", "confirmed_spam"}
Feedback == Terminal \cup {"none"}

StoreTypeOK ==
  /\ job \in [Account -> JobRecord \cup {NoJob}]
  /\ failed \subseteq Account
  /\ pending \subseteq Account
  /\ feedback \in [Account -> Feedback]
  /\ claim \in [Account -> Task \cup {Nobody, Orphan}]

StoreInit ==
  /\ job = [a \in Account |-> NoJob]
  /\ failed = {}
  /\ pending = {}
  /\ feedback = [a \in Account |-> "none"]
  /\ claim = [a \in Account |-> Nobody]

-----------------------------------------------------------------------------
(* Reads *)

HasTerminalFeedback(a) == feedback[a] \in Terminal
IsCompletedJob(a) == job[a].status \in Completed
Queued == failed \cup pending

\* set_job: these statuses are written with the 90-day TTL, the others without.
HasTTL(a) == job[a].status \in Completed \cup {"processing"}

-----------------------------------------------------------------------------
(* Writes *)

\* save_job of begin_job: a new record; an earlier verdict is gone.
ProcessingJob == [status |-> "processing", verdict |-> "none", notified |-> FALSE]
\* Mutant of BeginJob: a retried account leaves the queue when its check starts.
BeginJobDequeueing(a) ==
  /\ job' = [job EXCEPT ![a] = ProcessingJob]
  /\ failed' = failed \ {a}
  /\ UNCHANGED <<pending, feedback, claim>>

BeginJob(a) ==
  /\ job' = [job EXCEPT ![a] = ProcessingJob]
  /\ UNCHANGED <<failed, pending, feedback, claim>>

\* The MULTI of record_classification: the verdict and the obligation together.
PendingJob(record) ==
  [status |-> "notification_pending", verdict |-> "spam", notified |-> record.notified]
\* Mutant of RecordPending: without the SADD.
RecordPendingUnqueued(a) ==
  /\ job' = [job EXCEPT ![a] = PendingJob(@)]
  /\ UNCHANGED <<failed, pending, feedback, claim>>

RecordPending(a) ==
  /\ job' = [job EXCEPT ![a] = PendingJob(@)]
  /\ pending' = pending \cup {a}
  /\ UNCHANGED <<failed, feedback, claim>>

\* write_job: the record, FAILED_KEY by its outcome, and always out of the
\* pending set.
\* Mutant of WriteJob: without the SREM of the pending set.
WriteJobKeepingPending(a, record, retry) ==
  /\ job' = [job EXCEPT ![a] = record]
  /\ failed' = IF retry = "queue" THEN failed \cup {a} ELSE failed \ {a}
  /\ UNCHANGED <<pending, feedback, claim>>

WriteJob(a, record, retry) ==
  /\ job' = [job EXCEPT ![a] = record]
  /\ failed' = IF retry = "queue" THEN failed \cup {a} ELSE failed \ {a}
  /\ pending' = pending \ {a}
  /\ UNCHANGED <<feedback, claim>>

\* Of the fields kept here complete_job overwrites all.
CompleteJob(a, status, verdict, notified) ==
  WriteJob(a, [status |-> status, verdict |-> verdict, notified |-> notified], "clear")

FailJob(a, held) == WriteJob(a, [held EXCEPT !.status = "failed"], "queue")

RemoveFailed(a) ==
  /\ failed' = failed \ {a}
  /\ pending' = pending \ {a}
  /\ UNCHANGED <<job, feedback, claim>>

\* An account Mastodon no longer knows: with no record there is only the queue
\* to clear.
MarkUnavailable(a) ==
  IF job[a] = NoJob
  THEN RemoveFailed(a)
  ELSE WriteJob(a, [job[a] EXCEPT !.status = "unavailable"], "clear")

\* The Lua script of claim_notification.
\* Mutant of MayClaim: SET without NX.
MayClaimOver(a) == feedback[a] = "none"

MayClaim(a) == feedback[a] = "none" /\ claim[a] = Nobody
ClaimNotification(a, owner) ==
  /\ MayClaim(a)
  /\ claim' = [claim EXCEPT ![a] = owner]
  /\ UNCHANGED <<job, failed, pending, feedback>>

\* Compare-and-delete on the token.
ReleaseClaim(a, owner) ==
  /\ claim' = IF claim[a] = owner THEN [claim EXCEPT ![a] = Nobody] ELSE claim
  /\ UNCHANGED <<job, failed, pending, feedback>>

\* The Lua script of record_feedback: refused without a job or an earlier
\* feedback, and while a delivery is claimed.
\* Mutant of AcceptsFeedback: accepted in the middle of a delivery.
AcceptsFeedbackAnytime(a) == job[a] # NoJob \/ feedback[a] # "none"

AcceptsFeedback(a) ==
  /\ job[a] # NoJob \/ feedback[a] # "none"
  /\ claim[a] = Nobody
RecordFeedback(a, verdict) ==
  /\ AcceptsFeedback(a)
  /\ feedback' = [feedback EXCEPT ![a] = verdict]
  /\ failed' = failed \ {a}
  /\ pending' = pending \ {a}
  /\ UNCHANGED <<job, claim>>

\* TTLs.
ExpireJob(a) ==
  /\ HasTTL(a)
  /\ job' = [job EXCEPT ![a] = NoJob]
  /\ UNCHANGED <<failed, pending, feedback, claim>>

\* Mutant of ExpireClaim: SET without EX, so a dead holder's claim stays.
ExpireClaimNever(a) == claim[a] = Orphan /\ FALSE /\ UNCHANGED storeVars

ExpireClaim(a) ==
  /\ claim[a] = Orphan
  /\ claim' = [claim EXCEPT ![a] = Nobody]
  /\ UNCHANGED <<job, failed, pending, feedback>>

\* The holder is gone, or lost the reply to its own claim or release.
OrphanClaim(a, owner) ==
  IF claim[a] = owner THEN [claim EXCEPT ![a] = Orphan] ELSE claim
=============================================================================
