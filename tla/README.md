# A verification of mastodon-spam-checker

`mastodon-spam-checker` asks a language model about new remote accounts of a
Mastodon instance and tells moderators in Slack which of them look like spam.
It is a set of commands (`check`, `retry-failed`, `backfill`, `dry-run`) that a
timer or an operator starts as separate processes, and one long-running server
(`serve`) for the buttons of the Slack messages. They share nothing but Redis.
The program is small, but what it promises is a protocol: no account is skipped,
no verdict is lost between Redis and Slack, nobody is told twice without need,
and all of that while processes die, calls time out after they took effect, and
moderators click in the middle of it.

Paths below are relative to `src/`; the Rust sources are in `src/src/`.

## The system

| Component | State | Operations | Module |
|---|---|---|---|
| Per-account store (`redis.rs`) | `job:<id>`, the sets `failed_accounts` and `pending_notifications`, `feedback:<id>`, `notification_claim:<id>`, `action:<id>` | `begin_job`, `record_classification`, `complete_job`, `fail_job`, `mark_unavailable`, `remove_failed`, `claim_notification`, `release_notification_claim`, `record_feedback`, TTLs | `StateStore` |
| Account check and delivery (`check.rs`) | the job record in memory, the answer, the claim token | `check_one`, `check_one_inner`, `report_spam`, `retry_pending_notification`, `notify_with_claim` | `AccountJobs` |
| Retry queue (`cli.rs`, `redis.rs`, `check.rs`, `ids.rs`) | the two sets; what a run has walked, fetched and is checking | `failed_ids`, `retry_failed_command`, `process_accounts`, `numeric_id_cmp` | `RetryQueue`; one account's entry in `AccountJobs` |
| Run lease (`cli.rs`, `redis.rs`) | `run_lease` and its TTL | `exclusive_run`, acquire, renew, release | `RunLease` |
| Batch run (`check.rs`, `cli.rs`, `mastodon.rs`) | the cursor `last_account_id`; batch, chunk and progress in memory | `check`, `dry_run`, `backfill`, `fetch_remote_accounts`, `process_accounts`, `set_cursor` | `CheckRun` |
| Campaign index (`redis.rs`) | a sorted set per signal | `campaign_context` | `CampaignIndex` |
| Retention migration (`redis.rs`) | the marker key; the TTLs of jobs and action records | `cleanup_expired_records`, `set_job`, `record_action` | `RetentionMigration` |
| Slack server (`server.rs`) | the in-flight set, action records, the blocks left of a message | suspend, delete, feedback, drain at shutdown | `SlackServer`; to the runs, the server is `Moderate` of `AccountJobs` |
| HTTP retries (`http.rs`) | attempts, delay | `send_with_retry` | timing in `HttpRetry`, its effect on delivery in `AccountJobs` |
| Classifier (`llm.rs`) | none of its own; the models configured | `check_spam`, `decide`, `chat`, `normalize_confidence` | `Judging`; its outcomes in `AccountJobs` |
| Remote posts (`activitypub.rs`, `check.rs`) | the documents still to fetch | `PostSource::fetch`, `RemoteFetcher::fetch_statuses`, `same_origin_url` | `Judging` |
| Moderation notes (`postgres.rs`) | one cached connection behind a mutex | `add_note` | `NoteWriter` |
| Slack notifier (`slack.rs`), Mastodon client (`mastodon.rs`) | none of their own | post; list, fetch, statuses, suspend, delete | outcomes in `AccountJobs`, `CheckRun`, `SlackServer`, `Judging` |
| IDs (`ids.rs`) | none | `numeric_id_cmp` | `RetryQueue` on digits, numbers elsewhere |
| Signals, text, key decryption, configuration | none | pure functions, reads | not modelled |

How they interact:

- A run (`check`, `retry-failed`, `backfill`) first takes the run lease and
  renews it from a second branch of a `select!`; losing it abandons the run.
- The run fetches accounts from Mastodon and checks them in chunks of concurrent
  tasks. A task reads the account's feedback and job, writes `processing`, asks
  the classifier, and for spam writes `notification_pending` *together with* the
  account's place on the retry queue, claims the delivery, posts to Slack,
  releases the claim, and completes the job, taking it off the queue.
- `check` saves the last account before the first failure as the cursor.
- The Slack server writes feedback. Redis refuses it while a delivery of the
  account is claimed, and refuses the claim once there is feedback.
- A click on a message reaches the server with a copy of that message. The server
  answers at once, works in a task of its own (reads the feedback, asks Mastodon,
  records the action) and sends the copy, edited, back to replace the message. If
  the payload has no blocks, it makes a copy of the message's text, without buttons.
- `retry-failed` walks the union of the two sets, drops what is resolved, and
  checks the rest again; a pending delivery is re-sent from the stored verdict.
- `check` first gives the records of earlier versions their TTLs, once.
- A task takes an account's posts from Mastodon or, if it has none, from the
  account's own server, and its campaign from Redis, before it asks the classifier.
- A spam verdict and a suspension write a note into Mastodon's database; what
  becomes of the note does not change what becomes of the account.

What is hard: every line above is a round trip that may fail, may have been
applied although it failed, and may be the last thing the process does; runs can
overlap when a lease runs out; a moderator's click falls between any two; tasks
of a chunk finish in any order. `PROJECT.json` lists these hazards at their
lines.

What makes each component correct:

- **Delivery**: nothing goes to Slack that is not already owed on record; what
  failed or is uncertain is queued; what is finished is not; a moderator's ruling
  ends deliveries; nobody is told twice unless a delivery or its record was
  really in doubt; no spam verdict is dropped silently; the queue drains.
- **Lease**: a run that is operating holds a live lease; a late call of a run
  that lost it does not touch its successor's.
- **Batch**: the cursor passes only accounts that are settled or queued, never
  moves back, and in the end reaches every account.
- **Retry queue**: an account that keeps failing holds up only accounts behind it,
  and one that cannot be fetched holds up nobody while such accounts are few.
- **Judging**: only our own services fail a check, never what an account or its
  server does; a spam flag is not lost in its review; a verdict stands on the side
  of the threshold it is stored for; requests stay at the account's own origin.
- **Message delivery over HTTP**: all attempts and waits fit into the claim.
- **Retention**: nothing owed expires, nothing goes early, and once the migration is
  marked done nothing stays for ever.
- **Moderation notes**: none is written twice or reported without having been
  written; a dead connection costs a note and not those after it; every call ends.
- **Campaign index**: trimming, capping and expiring the sets is invisible to
  whoever reads them.
- **Slack server**: nothing is done to an account a moderator has cleared; what a
  message still offers and what is on record agree with what has happened, though
  calls fail, are lost, or are repeated from stale copies; no account stays
  blocked; a shutdown cuts nothing off that it has waited for.

## Modules

`StateStore` has the keys of one account and every operation on them, one
operator per Redis command, transaction or script, since Redis runs each of these
atomically. Job records keep `status`, `verdict` and `notified`.

`AccountJobs` (extends `StateStore`) has the tasks. `pc` names the await a task
is about to make; each action is the code from one await to the next, together
with the round trip's effect. Every round trip has a failing counterpart: a read
fails without effect, a write fails with or without having been applied.
`Crash` ends a task at any await and turns its claim into an orphan, which only
the TTL removes; that stands for a killed process, a lost lease and a panicking
task alike. `SendRetries` is a message that `send_with_retry` posts again
because its answer was lost. `mode` is the command, which decides whether spam
is notified and whether a pending delivery may be resumed. `doubt` is history: a
message is in Slack that the store does not, or no longer, know of.

`Outbox` is the abstract specification: an entry per account that is open, owed,
settled or ruled, and messages that go out only for entries that are owed.
`AccountJobs` is shown to implement it with the refinement mapping `OutboxPhase`, by
a run for one account and by a proof for any number.

`RunLease` counts time in ticks. A call is sent, reaches Redis and is answered in
three separate steps, so a release or renewal may arrive long after the lease
changed hands. Nothing forces a process to be on time: when a tick passes though
a timer of a process was due, the history variable `stalled` says so.

`CheckRun` has whole runs over account IDs. It summarises what `AccountJobs`
knows of an account as three sets (settled, pending, queued) whose operations are
what the refinement of `Outbox` allows, and is otherwise detailed: page by page
pagination in both directions with arrivals in between, chunks of tasks that
finish in any order, the walk in ID order, the cursor script.

`CampaignIndex` has the sorted sets with their scores, the pipeline of
`campaign_context`, the TTL of the sets and the clock.

`SlackServer` (extends `StateStore`) has the clicks. `step` names the await a
task is at, `click` what it carries: the button, the message, and the blocks of
the copy it will send back. Of a message's blocks (`blocks`) the model keeps the
buttons and whether the notification's own block (`"notice"`) is above them. A click
in `Bare` may come with a payload without blocks; what `extract_interaction` rebuilds
from its text (or leaves empty) is a copy with neither (`Copies`), and replaces the
message all the same. Each call has a failing counterpart; a suspension or
deletion that got no answer may have been done, may not, or may be done later
(`late`, `Lands`). `Exit` is the end of a process, drained or not, and takes its
tasks and the in-flight set along. Deliveries of the runs (`Claim`, `Post`,
`Release`, `JobIsDone`) are `AccountJobs` in outline: they post messages and keep
feedback out meanwhile. `once` is history: what was ever true of an account.

`HttpRetry` is one delivery in units of half a second: `attempt`, and `spent`, the
time since the claim was taken. An attempt and the wait after it are one step; the
attempt takes any time up to its timeout and the server asks for any wait.

`NoteWriter` has the client in its slot (`slot`) or in the hands of the task that
holds the mutex (`held`), and what became of each task's INSERT, which PostgreSQL
may carry out after the task has given up on it. A connection that has ended is
`"broken"` until its background task notices and `is_closed` says so.

`RetentionMigration` keeps a job as its age, its TTL and whether its status is one
that expires. The SCANs return pages in any order, with repetitions; the time the
migration read at its start ages under way (`elapsed`); `Interrupted` ends it
within a pipeline or after a marker whose answer was lost. Clicks record actions
at any time; the runs that write jobs exclude the migration by the lease.

`RetryQueue` has run after run of `retry-failed` over many accounts: the walk in
the order of the IDs to `--max` times ten, the fetches until `--max` accounts are
there, the chunks, the stop at the first chunk with a failure. `IdBefore` compares
digits as `numeric_id_cmp` does.

`Judging` has the way of an account to its verdict. The documents of its own
server link to each other by URLs that are refused, at the actor's origin or
elsewhere; the models answer with a verdict, with nothing usable or not at all, in
any number. `flag` is the decision model's verdict, `review` what its review came
back with (a verdict, `"unusable"`, or `"none"` as yet), `verdict` what counts. The
operators on verdicts are `normalize_confidence`, `decision_verdict`
and `spam_probability`, with 1.0 as `Scale`.

These five keep no state in common. `Services` composes them for the model
checker: `part` says which one runs, the others are at rest. That each of them
satisfies its own specification there is `PartsAreThemselves` of `ServicesProofs`.

`InterruptedDelivery` and `ResumedRun` add a history variable to `AccountJobs`
and `CheckRun` to state sentences of the documentation. `MCAccountJobs`,
`MCInterruptedDelivery`, `MCCampaignIndex` and `MCSlackServer` give constants
their values. The modules
named `...Proofs` hold the proofs about the module they are named for;
`ServicesProofs` has those about `HttpRetry`, `NoteWriter` and `RetryQueue` as well.

## Runs

| Run | What it asks | Bounds | Distinct states |
|---|---|---|---|
| `AccountJobs` | type, `WriteAhead`, `DebtsAreQueued`, `CompletedIsNotQueued`, `RepeatsOnlyInDoubt`, `QuietOnlyWithCause`, refinement of `Outbox`, and that queued accounts are settled | one account, one task at a time, any number of runs after one another; messages counted to 2 | 5,028 |
| `AccountJobsOverlap` | `OneDelivery` without the lease | one account, two tasks | 926,476 |
| `RunLease` | `LeaseCoversRun`, `OnlyOwnerTouchesLease` | two processes, the code's 180/60/30 seconds in ticks of 30 | 14,979 |
| `CheckRun` | `NothingSkipped`, `NoGapInBatch`, `EveryAccountIsChecked` | four accounts, two of them the system's; pages of 2, chunks of 2, batches of 3 | 63,595 |
| `CheckRunOverlap` | `CursorNeverRegresses` | two runs, two accounts, pages and chunks of 1 | 371,565 |
| `CampaignIndex` | `IndexIsLossless` | four accounts, two signals, a cap of 3 over a report of 2, five ticks of a window of 2 | 2,274 |
| `SlackServer` | `ClearedIsNotActedOn`, `FailedActionKeepsButton`, `RecordIsTrue`, `DrainInterruptsNothing`, `ClicksAreTakenAgain` | two clicks at a time on one message about one account, one of them with or without the message's blocks; any number after one another | 675,160 |
| `Services` | `TypeOK`, `ClaimOutlivesDelivery`; `NoteWrittenOnce`, `WriterRecovers`, `NoteCallsEnd`; `MigratedIsBounded`, `UnresolvedIsDurable`, `KeptForRetention`; `RetriedInTurn`; `OnlyOwnServicesFail`, `FlagIsNotBuried`, `ThresholdIsMet`, `RequestsStayHome` | see below | 28,727 |
| `InterruptedDelivery`, `RunLeaseAbort`, `ResumedRun`, `CampaignDryRun` | a sentence of the documentation that the code does not keep | as the runs they extend | up to the counterexample |

Why these bounds are enough:

- Every key, claim and message of `StateStore` belongs to one account and no
  operation reads two accounts, so accounts do not interact except through a
  run's order (`CheckRun`). One account under every command, failure and click is
  the whole protocol. Two tasks are what an expired lease adds. `PostCap` 2
  tells one message from several; in the overlap run, where messages are not the
  question, 1 keeps the state small.
- A lease has one holder, so two processes are a holder and a rival; the proof
  covers any number. Ticks of 30 seconds are the greatest common divisor of the
  code's periods.
- In `CheckRun` a batch takes two pages and two chunks, a chunk can have a
  failure before or after a success, a page can be full, short, or full with a
  repeated ID, and accounts are skipped as the system's. Four accounts leave a
  second chunk beyond an existing cursor, which is where one account could park
  all that follow.
- In `SlackServer` clicks on different accounts share nothing. Two at a time are one
  under way and one that was pressed on the same copy, taken before, during or after
  it; feedback of a third click fits between any two of their calls because clicks end
  and others begin at any time. Only one of the two may come without blocks (`Bare`),
  so a copy without them meets one with them in either order. `Expire` drops a job
  only while there is no feedback, to save states: what reads jobs here is the guard
  of a verdict (`AcceptsFeedback`), and that holds once there is feedback. The proofs
  are for any number of accounts, messages and clicks, of which any may be `Bare`.
- `Services` checks its five parts one at a time. No two of them have a variable or
  an action in common and every property is about one of them, so the states of
  their product would repeat the sum of theirs. Its bounds are, part by part:
  - `HttpRetry`: the code's numbers, 3 retries, 30 seconds for an attempt
    (`Timeout` 60) and for a wait (`MaxRetryAfter` 60), 600 for the claim
    (`ClaimTTL` 1200). Attempts take no time, some or all of it; servers ask for no
    wait, the longest that is granted, or an hour.
  - `NoteWriter`: two tasks are a holder of the mutex and one that waits for it or
    inherits what it left in the slot. The proof is for any number.
  - `RetentionMigration`: records of two accounts, one that a page returns and one
    that it does not; a retention of 2 ticks, so that a record is new, of age or
    due; a migration that lasts up to one tick. The proof is for any.
  - `RetryQueue`: three accounts, of which the third is written with two digits
    (`Radix` 3), so that textual order would put it before the second; `--max` 2 with
    a walk of as many (`WalkFactor` 1 for 10, so that the walk ends before the queue
    does), in chunks of 1. Four accounts were checked too, and once, with the same
    result, chunks of 2 (`QueueLast` 4, `RetryMax` 3, `RetryChunk` 2), where accounts
    of a chunk are all checked though one of them fails. The standing run has chunks
    of 1, so a failure beside or behind another account of its chunk is not in it.
  - `Judging`: every configuration, account and kind of reply, thresholds 0, 0.5 and
    1.0, and reports on either side of 0.0, 1.0 and 100 and NaN (`AnyReport`). The
    proof is for any set of numbers.
- The caps of `CampaignIndex` are hit, members and whole sets expire, and members
  share one signal or both. The proof is for any.

Fairness, used only by the liveness properties (`QueuedIsSettled`,
`EveryAccountIsChecked`, `ClicksAreTakenAgain`, `WriterRecovers`, `NoteCallsEnd`,
`RetriedInTurn`):

- Weak fairness of `TaskStep`/`RunStep`: a running process takes its next step.
- Strong fairness of starting `retry-failed` and `check`: a systemd timer or cron
  (README "Running periodically") and the operator start them again and again
  although other commands run in between.
- Weak fairness of a click's next step (`SlackServer`): every call of a task is
  answered, fails or runs into its timeout. A server that is up need not be shut
  down, nor a dead one started again, for `ClicksAreTakenAgain`.
- `NoteFairness`: weak fairness of each step of `add_note`, for every wait in it has
  `DATABASE_TIMEOUT`; of `Notice`, for the background task of a connection sees its
  end; and strong fairness of `Lock`, for tokio's mutex serves in turn. PostgreSQL
  need never come back for `NoteCallsEnd`.
- `QueueFairness`: `retry-failed` is started again and again and goes on until it
  ends. `RetriedInTurn` itself says which failures must cease.
- Weak fairness of `ClaimExpires`: Redis drops a key whose TTL is over.
- For `AccountJobs` and `CheckRun`, outages end (no `Outage` step from some point
  on): a Mastodon, Slack or
  classifier that always fails makes any promise empty. Everything that went
  wrong before that point stays in the state. A step counts as an outage only if
  no regular step explains it as well, so a run that ends with nothing to save is
  not ruled out.

### What the runs found

Four sentences of the documentation are stronger than the code:

1. `InterruptedDelivery`. README.md:62-64 says an interrupted delivery is pending
   and is re-sent by `retry-failed` from its stored verdict. A process that dies
   while delivering leaves its claim for up to ten minutes. A `retry-failed` in
   that time is refused the claim, fails, and `fail_job` replaces
   `notification_pending` by `failed` (`check.rs:505`). The next check starts over,
   asks the classifier again, and may decide `not_spam`.
2. `RunLeaseAbort`. `cli.rs:48` runs an operation "as the only checker touching
   shared state". When renewal fails, the operation is no longer polled, but it
   is dropped only when `exclusive_run` returns, after the lease is released; the
   tasks it spawned run until then.
3. `ResumedRun`. README.md:47-49 says the next run resumes from the failed
   account. Without a cursor, a run whose first account fails saves none
   (`cli.rs:138`), and the next run takes the newest window, which may begin
   beyond that account. (The account is still on the retry queue, so it is not
   lost; accounts between the two windows never had been promised.)
4. `CampaignDryRun`. `redis.rs:649` says a dry run "reports the same matches". A
   recording run counts its own entry among the newest 20 it reads and then
   leaves it out, so it can report one fewer.

A fifth was met without a run of its own. README.md:232 says a failed action keeps its
button. If the click's payload came without the message's blocks, `extract_interaction`
rebuilds them from the text (`server.rs:254`), and the answer to a failure replaces the
message by one without buttons. `FailedActionKeepsButton` is therefore about messages
that still show the notification; of one that was replaced by such a copy it says that
Delete is the only button it can have, and only for an account that was suspended.

## Proofs

TLAPS proves these for every value of the constants that satisfies the named
assumptions.

**`AccountJobsProofs`**, from `ClaimAssumption`, `AcctAssumption` and
`PostCapAssumption`: `TypeCorrect`, `OneDeliveryCorrect` and `QuietOnlyWithCauseCorrect`
hold for any number of accounts and of overlapping tasks. `WriteAheadCorrect`,
`DebtsAreQueuedCorrect`, `CompletedIsNotQueuedCorrect`, `RepeatsOnlyInDoubtCorrect` and
`OutboxImplemented` also assume `Exclusive`, that no two tasks check
the same account at once, which is what the run lease is for (a batch has no
account twice, and `OneOperation` below says one run operates at a time). The
inductive invariants build on each other:

- `TypeInv` adds to the types that a task about to store an answer has one;
  without it, `complete_job` could store the status `"none"`.
- `ClaimInv` adds `ClaimHeld`: a task between claim and release is the holder and
  there is no feedback. It is inductive because the claim script looks at both
  keys, feedback is refused under a claim, and only orphans expire.
- `JobInv` adds `StageOK` (a task in its delivery still finds its job pending with
  a spam verdict, a task about to drop an entry still finds it resolved) and
  `PendingHasVerdict`. `Exclusive` enters here and only here: the lemma `Local`
  says that a task's step cannot disturb what other tasks know.
- `QuietInv` adds to `TypeInv` `QuietIsDue`, that a task about to complete a spam job
  without a message was sent there by feedback or by its mode. Feedback is never
  taken back, so the reason still holds when the job is written.
- `MessageInv` adds to `JobInv` `Accounted` (an account about which a message is out is
  finished, or the task that sent it is still there, or there is doubt) and `TaskKnows`
  (a task that may yet send has sent nothing, and its account is not finished).
  `RepeatsOnlyInDoubt` only counts messages; these two say why there is none when a task
  without doubt comes to send.

The proof of `OutboxImplemented` maps every action to the step of `Outbox` it stands for:
`OutboxSends` is a post (by `StageOK` and `ClaimHeld` the entry is owed and not ruled),
`OutboxWrites`, `OutboxLetOff` and `OutboxStore` are moves of one entry, and whatever
changes no entry is a stutter (`OutboxUnseen`).

**`RunLeaseProofs`**, from `HolderAssumption` and `TickAssumption` (sleep plus two
timeouts are shorter than the lease; the Redis client's response timeout is no
longer than a renewal's): `TypeCorrect`, `LeaseCoversRunCorrect`, its corollary
`OneOperation`, and `OnlyOwnerTouchesLeaseCorrect`. The invariant `Covered` bounds
the age of a lease by where its holder is and for how long; the arithmetic of one
sleep and two answers between two extensions is `YoungLeaseLives`.

**`CheckRunProofs`**, from `SizeAssumption`, for any numbers of accounts, page, batch
and chunk sizes and processes, in two layers:

- `Shape` has the types, `Progress` (what is checked, being checked and still to do
  are consecutive parts of the batch) and `Gapless` (a page adjoins what was fetched
  before). It needs nothing of the lease, so `TypeCorrect`, `NoGapInBatchCorrect` and
  `CursorNeverRegressesCorrect` hold for any number of overlapping runs. The lemma with
  the substance is `FetchShape`, that the next page adjoins what was fetched before,
  in either direction.
- `CursorParts` has `NothingSkipped` itself, that what is pending is queued, `Window`
  (what was fetched has no gap above the cursor the run began with) and `Done` (what
  lies at or before the last contiguous account is accounted for), which is what makes
  a new cursor safe. It is inductive provided at most one of the processes is a
  `check` (`OneCheck`, from the lease; dry runs and backfills are unrestricted): a
  second one would move the cursor under the first one's window.
  `NothingSkippedCorrect` has that hypothesis, and `OneOperation` is why the program
  satisfies it.

**`SlackServerProofs`**, from `AboutAssumption` and `ClaimAssumption`:
`TypeCorrect`, `ClearedIsNotActedOnCorrect`, `DrainInterruptsNothingCorrect`,
`RecordIsTrueCorrect` and `FailedActionKeepsButtonCorrect`. The inductive invariants:

- `Typed` adds to the types `KindFits`, that a task is at a place its button leads
  to: a verdict never ends up where a suspension is asked for.
- `Held`: the account of a task is in the in-flight set, and no two tasks have the
  same. `Halted`: the set of an ended process is empty. From these two follows the
  drain.
- `Vetted`: past `refuse_if_cleared` the account is no false positive. Alone it is
  not inductive; with `Held`, the only step that could break it would be that of a
  second task of the account.
- `Witnessed`: the history holds what is true now, what a task is about to record,
  and what was recorded.
- `Faithful`: a message, and every copy of it that a click carries, offers what fits
  the history (`Honest`): under a notification a missing button is accounted for, and
  what replaced one by a copy without blocks has Delete at most. The copies are why
  `FailedActionKeepsButton` is not inductive: a copy taken long ago replaces the
  message, with edits of its own. That does no harm because history only grows and
  what is honest stays so (`HonestStays`), and each edit is honest when it is made.
  `Honest` says more than the property: when neither Suspend nor Delete is left, not
  only when nothing is, the account was deleted or cleared. Otherwise a confirmation,
  which takes the last two buttons away, would break it. It also takes Mastodon's rule
  that only suspended accounts are deleted.

The lemmas split a step into calls within a task (`Inner`), a click before and
after its task (`Outer`), the process and the world, and say once what each kind
of step leaves alone.

**`CampaignIndexProofs`**, from `CampaignAssumption` (the report is within the cap):
`TypeCorrect`, which includes that no set outgrows its cap, and
`IndexIsLosslessCorrect`, for any accounts, signals, window and cap. `IndexIsLossless`
is about what is read now; what makes it inductive is `Complete`, that a set holds the
newest `MemberCap` of the members the full history has in the window, more than any
reader asks for. With it go `Truthful` (scores are those of the history) and `Unexpired`
(a set outlives the window of its members, so that a set that is dropped has none).
Below that are lemmas about ranks in a sorted set: that no two members have one rank,
so the newest n are at most n (`NewestAtMost`, by the pigeonhole principle) and every
set has a newest member (`HasNewest`), and that a part which keeps the newest reads
like the whole (`NewestOfPart`): the newest member it lacks would have at least
`MemberCap` before it.

**`ServicesProofs`** has three parts.

- `HttpRetry`, from `RetryAssumption` (the client's own waits are no longer
  than the cap on a server's, and as many timeouts and caps as there are attempts fit
  into the claim): `ClaimOutlivesDeliveryHolds`. The invariant gives a delivery a
  budget of one timeout and one wait per attempt (`Budget`); a delivery that has
  ended has spent at most one attempt more.
- `NoteWriter`: `NoteWrittenOnceHolds`, for any number of tasks. The
  invariant `NoteOf` ties the rows of a note to its one query: a call that has not
  sent it has none, and nothing is sent twice.
- `Services`: `PartsAreThemselves` says that every behaviour of `Services` is one of each
  part, with its fairness, so that theorems about the parts are about the whole
  (`PartsKeepTheirPromises`). `TypeCorrect` follows from the parts' invariants, with
  `QueueStepType` for `RetryQueue`.

**`RetentionMigrationProofs`**, from `RetentionAssumption`: `MigratedIsBoundedHolds`,
`UnresolvedIsDurableHolds` and `KeptForRetentionHolds`, for any accounts, any
retention and however long the migration takes. `GoodJob` bounds age and TTL of a
job together, from below and from above; `Progress` says that what is still
unmigrated is still to be returned by the SCAN, so that none is when the marker is
set. An interruption needs nothing of it, since the next migration starts over.

**`JudgingProofs`**, from `JudgingAssumption`: `NormalizedInRange`,
`ScalesAgreeHolds`, `OnlyOwnServicesFailHolds`, `FlagIsNotBuriedHolds`,
`ThresholdIsMetHolds` and `RequestsStayHomeHolds`, for every configuration and
whatever numbers models report. `JudgeInv` has a part for each: the requests made by
where the check is (`RequestInv`), failures (`FaultInv`), what is flagged and what the
review has said before, during and after it (`FlagInv`), and the lemma
`DecisionMeetsThreshold` about the verdict that is turned round for an account that is
not spam (`FlagMeetsThreshold`).

Every safety property and action property that a passing run checks is proved. Only
model-checked are the liveness properties `QueuedIsSettled`, `EveryAccountIsChecked`,
`ClicksAreTakenAgain`, `WriterRecovers`, `NoteCallsEnd` and `RetriedInTurn`: the prover's
temporal fragment has neither fairness nor `ENABLED`. The four sentences of the
documentation that the code does not keep are refuted by their runs.

## Abstractions

- Posts, prompts and message texts are left out; the classifier's answer is any of
  spam, not spam, undetermined or an error.
- Attempts, timestamps, labels and error texts of a job record are left out: no
  decision depends on them.
- Tokens are taken to be unique: a token is its task or process. In the code the
  token of a claim is the process ID and the second (`redis.rs:407`), that of the
  lease the process ID, seconds and nanoseconds (`redis.rs:188`). The claim's could
  only be confused between two processes of one ID, as two containers have, within
  a second on the same account; the tasks of one process have different accounts.
- In `AccountJobs` a claim outlives its delivery. `HttpRetry` shows it: four requests
  of at most 30 seconds and three waits of at most 30 are 210 of the claim's 600
  seconds. (The comment at `redis.rs:18` counts one request; there is room for
  four.) A job's 90 days outlive
  any task on it.
- `begin_job`, `record_classification` and `mark_unavailable` read the job before they
  write it (`redis.rs:267`, `315`, `625`). `StateStore` takes the GET and the write as
  one step: only another run's write to the job of the same account could fall
  between, which the lease excludes; what is said of overlapping runs depends on
  claims and feedback. The other operations are one command, transaction or script in
  the code too, after the reads that are steps of their own.
- Account IDs are numbers, and Mastodon's accounts appear in ascending order.
- The pagination's stop on a page that makes no progress is unreachable with
  Mastodon's exclusive bounds and has no action. `backfill --from 0` is left out: the
  lowest ID to start after is the first account's. A queue entry without a job, which
  `mark_unavailable` only removes, is in `AccountJobs` and not in `Elsewhere` of
  `CheckRun`.
- In `CheckRun` settled records do not expire and two runs do not race on one
  account; both are in `AccountJobs`. `CheckRunOverlap` is about the cursor only.
- In `RunLease` the operation is a black box that may end at any time.
- The pipeline of `campaign_context` is one step: it runs on the process's one
  multiplexed connection, and processes exclude each other by the lease.
- `SlackServer` has one server process. `Panic` ends one task, as unwinding does; the
  release profile aborts the process instead (`Cargo.toml`), which is `Crash`.
  Signatures and the payload's form are checked before anything changes and are left
  out; so are the moderation note written after a suspension (`NoteWriter` has its
  writing) and the texts of the replies.
- Requests that were given up are recalled by nobody. `ClearedIsNotActedOn` is about
  what the server asks for, and a request may still land after its account has
  been cleared; `RecordIsTrue` and `FailedActionKeepsButton` hold for whenever
  it lands. An update of a message that failed has reached Slack or
  has not; it does not arrive later.
- Mastodon keeps a deleted account suspended. A suspend button left on another
  message of it then records `suspended` over `deleted`, both of which happened.
- `NoteWriter` follows the INSERT of a task's current note. That of a note already
  given up as failed may still be carried out while the task is at its next one; it
  is the earlier note's only row. IDs that are no 64-bit integer fail before the
  mutex and are left out.
- `RetentionMigration` relies on the lease for its GETs and updates: no run writes a
  job between them. What would happen without is not asked. Every stored job parses.
- `RetryQueue` does not tell apart why a check fails. A fetch that finds an account
  gone which a moderator has resolved meanwhile looks like `FetchGone`.
- `Judging` has posts only as there are any or none, an account's campaign not at all,
  and numbers as integers; a request stands for all its attempts. URLs are classes:
  which ones are refused, and how addresses are told apart, is not modelled.
- Mutants of definitions stand beside the originals and are named in
  `PROJECT.json`; no specification uses them.

## Plan

Done, in this order: `StateStore`, `AccountJobs` with `Outbox`, `RunLease`,
`CheckRun`, `CampaignIndex`, `SlackServer`, then `HttpRetry`, `NoteWriter`,
`RetentionMigration`, `RetryQueue`, `Judging` with `Services`, and the proofs above.
To come: the safety halves of the liveness properties (what a queued account or a
click in progress is never without), as invariants with proofs.

### Not modelled

- **Account signals** (`signals.rs`) and **text truncation** (`text.rs`) are pure
  functions of strings. What matters of the signals is which accounts share one,
  which `CampaignIndex` takes as given; text only fills prompts and messages.
- **Key decryption** (`encryption.rs`) and the reading of the instance's key run once
  at startup and decide only whether remote posts are available (`config.remote` of
  `Judging`).
- **Configuration and entry point** (`config.rs`, `main.rs`) parse the environment.
  The limits they enforce are the assumptions on the constants.
- Of the modelled components: prompts, message layout and escaping; request
  signatures and their verification; the shapes of responses that parse to the same.

## Running

In this directory, with the TLA+ tools and the community modules:

    tlc -config AccountJobs.cfg MCAccountJobs
    tlapm AccountJobsProofs.tla

`SlackServer` takes three minutes, the overlapping runs and `CheckRun` about one each,
`Services` half a minute, everything else a few
seconds; the proof modules take some minutes together.
