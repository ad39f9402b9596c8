---------------------------- MODULE ServicesProofs ----------------------------
(***************************************************************************)
(* Deliveries and their retries, moderation notes, and the parts around    *)
(* the check together: the claim outlives the delivery for every number of *)
(* retries and every timeout, cap and claim that RetryAssumption allows; a *)
(* note is written at most once, and every call that says so has written   *)
(* it, for any number of tasks that share the connection; and each part    *)
(* behaves within Services as it does by itself.                           *)
(***************************************************************************)
EXTENDS Services, JudgingProofs, RetentionMigrationProofs

-----------------------------------------------------------------------------
(* HttpRetry *)

\* What n attempts and the waits after them may take.
Budget(n) == n * (Timeout + MaxRetryAfter)

\* A delivery that is under way has used up the budget of the attempts it has
\* made, and one that has ended at most one attempt more.
HttpInv ==
  /\ HttpTypeOK
  /\ delivery \in {"none", "sending"} => spent <= Budget(attempt)
  /\ spent <= Budget(attempt + 1)
  /\ delivery = "none" => attempt = 0 /\ spent = 0

\* A budget grows by one attempt and one wait.
LEMMA BudgetGrows ==
  ASSUME NEW n \in Nat
  PROVE  /\ Budget(n) \in Nat
         /\ Budget(n + 1) = Budget(n) + Timeout + MaxRetryAfter
<1>1. Timeout \in Nat /\ MaxRetryAfter \in Nat  BY RetryAssumption
<1> QED  BY <1>1 DEF Budget

\* Budgets are ordered as the numbers of attempts are.
LEMMA BudgetOrder ==
  ASSUME NEW n \in Nat, NEW m \in Nat, n <= m
  PROVE  Budget(n) <= Budget(m)
<1> DEFINE C == Timeout + MaxRetryAfter
<1>1. C \in Nat  BY RetryAssumption
<1> HIDE DEF C
<1>2. n * C <= m * C  BY <1>1, SMT
<1> QED  BY <1>2 DEF Budget, C

\* The wait a server is granted is at most the cap.
LEMMA GrantIsCapped ==
  ASSUME NEW asked \in RetryAfter
  PROVE  GrantedWait(asked) \in 0..MaxRetryAfter
BY RetryAssumption DEF GrantedWait

\* The client's own waits are no longer.
LEMMA BackoffIsCapped ==
  ASSUME NEW n \in 0..MaxRetries, n < MaxRetries
  PROVE  Backoff(n) \in 0..MaxRetryAfter
<1>1. Backoff(n) \in Nat /\ Backoff(n) <= MaxRetryAfter  BY RetryAssumption
<1>2. MaxRetryAfter \in Nat  BY RetryAssumption
<1> QED  BY <1>1, <1>2

\* Before the first delivery the invariant holds.
LEMMA HttpInitInv == HttpInit => HttpInv
<1> SUFFICES ASSUME HttpInit PROVE HttpInv  OBVIOUS
<1>1. MaxRetries \in Nat  BY RetryAssumption
<1>2. HttpTypeOK  BY <1>1 DEF HttpInit, HttpTypeOK
<1>3. Budget(0) \in Nat /\ Budget(0 + 1) \in Nat  BY BudgetGrows
<1> QED  BY <1>2, <1>3 DEF HttpInit, HttpInv

\* A retry of an attempt and a wait within their caps stays within the budget.
LEMMA RetryInv ==
  ASSUME HttpInv, NEW took \in Took, NEW wait \in 0..MaxRetryAfter, Retry(took, wait)
  PROVE  HttpInv'
<1>1. /\ attempt \in 0..MaxRetries /\ spent \in Nat /\ MaxRetries \in Nat
      /\ Timeout \in Nat /\ MaxRetryAfter \in Nat /\ took \in 0..Timeout
  BY RetryAssumption DEF HttpInv, HttpTypeOK
<1>2. /\ delivery = "sending" /\ delivery' = "sending"
      /\ attempt < MaxRetries /\ attempt' = attempt + 1 /\ spent' = spent + took + wait
  BY DEF Retry
<1>3. spent <= Budget(attempt)  BY <1>2 DEF HttpInv
<1>4. /\ Budget(attempt) \in Nat
      /\ Budget(attempt + 1) = Budget(attempt) + Timeout + MaxRetryAfter
  BY <1>1, BudgetGrows
<1>5. spent' <= Budget(attempt')  BY <1>1, <1>2, <1>3, <1>4
<1>6. attempt' \in 0..MaxRetries /\ spent' \in Nat  BY <1>1, <1>2
<1>7. /\ Budget(attempt') \in Nat
      /\ Budget(attempt' + 1) = Budget(attempt') + Timeout + MaxRetryAfter
  BY <1>6, BudgetGrows
<1>8. spent' <= Budget(attempt' + 1)  BY <1>1, <1>5, <1>6, <1>7
<1>9. HttpTypeOK'  BY <1>2, <1>6 DEF HttpTypeOK
<1> QED  BY <1>2, <1>5, <1>8, <1>9 DEF HttpInv, Budget

\* So does the attempt that ends a delivery.
LEMMA EndsInv ==
  ASSUME HttpInv, NEW took \in Took, NEW how \in {"ok", "failed"}, Ends(how, took)
  PROVE  HttpInv'
<1>1. /\ attempt \in 0..MaxRetries /\ spent \in Nat /\ MaxRetries \in Nat
      /\ Timeout \in Nat /\ MaxRetryAfter \in Nat /\ took \in 0..Timeout
  BY RetryAssumption DEF HttpInv, HttpTypeOK
<1>2. /\ delivery = "sending" /\ delivery' = how
      /\ attempt' = attempt /\ spent' = spent + took
  BY DEF Ends
<1>3. spent <= Budget(attempt)  BY <1>2 DEF HttpInv
<1>4. /\ Budget(attempt) \in Nat
      /\ Budget(attempt + 1) = Budget(attempt) + Timeout + MaxRetryAfter
  BY <1>1, BudgetGrows
<1>5. spent' <= Budget(attempt + 1) /\ spent' \in Nat  BY <1>1, <1>2, <1>3, <1>4
<1>6. HttpTypeOK'  BY <1>1, <1>2, <1>5 DEF HttpTypeOK
<1> QED  BY <1>2, <1>5, <1>6 DEF HttpInv, Budget

\* Every step of a delivery keeps within the budget of its attempts.
LEMMA HttpStepInv == HttpInv /\ [HttpNext]_httpVars => HttpInv'
<1> SUFFICES ASSUME HttpInv, [HttpNext]_httpVars PROVE HttpInv'  OBVIOUS
<1>0. attempt \in 0..MaxRetries  BY DEF HttpInv, HttpTypeOK
<1>1. CASE Post
  BY <1>1 DEF Post, HttpInv, HttpTypeOK, Budget
<1>2. CASE RetryStatus
  <2>1. PICK took \in Took :
          \/ \E asked \in RetryAfter : Retry(took, GrantedWait(asked))
          \/ Retry(took, Backoff(attempt))
    BY <1>2 DEF RetryStatus
  <2>2. CASE \E asked \in RetryAfter : Retry(took, GrantedWait(asked))
    <3>1. PICK asked \in RetryAfter : Retry(took, GrantedWait(asked))  BY <2>2
    <3> QED  BY <3>1, GrantIsCapped, RetryInv
  <2>3. CASE Retry(took, Backoff(attempt))
    <3>1. attempt < MaxRetries  BY <2>3 DEF Retry
    <3> QED  BY <1>0, <2>3, <3>1, BackoffIsCapped, RetryInv
  <2> QED  BY <2>1, <2>2, <2>3
<1>3. CASE RetryError
  <2>1. PICK took \in Took : Retry(took, Backoff(attempt))  BY <1>3 DEF RetryError
  <2>2. attempt < MaxRetries  BY <2>1 DEF Retry
  <2> QED  BY <1>0, <2>1, <2>2, BackoffIsCapped, RetryInv
<1>4. CASE Succeeds  BY <1>4, EndsInv DEF Succeeds
<1>5. CASE GivesUp  BY <1>5, EndsInv DEF GivesUp
<1>6. CASE Settled
  <2>1. delivery' = "none" /\ attempt' = 0 /\ spent' = 0  BY <1>6 DEF Settled
  <2>2. HttpInit'  BY <2>1 DEF HttpInit
  <2>3. Budget(0) \in Nat /\ Budget(0 + 1) \in Nat  BY BudgetGrows
  <2>4. MaxRetries \in Nat  BY RetryAssumption
  <2> QED  BY <2>1, <2>3, <2>4 DEF HttpInv, HttpTypeOK, Budget
<1>7. CASE UNCHANGED httpVars
  BY <1>7 DEF httpVars, HttpInv, HttpTypeOK, Budget
<1> QED  BY <1>1, <1>2, <1>3, <1>4, <1>5, <1>6, <1>7 DEF HttpNext

\* The invariant is enough: all attempts and waits fit into the claim.
LEMMA HttpInvClaim == HttpInv => ClaimOutlivesDelivery
<1> SUFFICES ASSUME HttpInv PROVE ClaimOutlivesDelivery  OBVIOUS
<1>1. attempt \in 0..MaxRetries /\ MaxRetries \in Nat /\ spent \in Nat /\ ClaimTTL \in Nat
  BY RetryAssumption DEF HttpInv, HttpTypeOK
<1>2. /\ Budget(attempt + 1) \in Nat /\ Budget(MaxRetries + 1) \in Nat
      /\ Budget(attempt + 1) <= Budget(MaxRetries + 1)
  BY <1>1, BudgetGrows, BudgetOrder
<1>3. spent <= Budget(attempt + 1)  BY DEF HttpInv
<1>4. Budget(MaxRetries + 1) < ClaimTTL  BY RetryAssumption DEF Budget
<1> QED  BY <1>1, <1>2, <1>3, <1>4 DEF ClaimOutlivesDelivery

\* No delivery outlasts the claim it is made under, whatever waits Slack asks for
\* (src/src/http.rs:95, src/src/redis.rs:18).
THEOREM ClaimOutlivesDeliveryHolds == HttpSpec => []ClaimOutlivesDelivery
<1>1. HttpInv /\ [HttpNext]_httpVars => HttpInv'  BY HttpStepInv
<1> QED  BY <1>1, HttpInitInv, HttpInvClaim, PTL DEF HttpSpec

-----------------------------------------------------------------------------
(* NoteWriter *)

\* A row is there exactly when PostgreSQL has carried the INSERT out; a call that
\* has not sent its INSERT has no query; and one that succeeded had it done.
NoteOf(w) ==
  /\ rows[w] = IF query[w] = "done" THEN 1 ELSE 0
  /\ noting[w] \in {"waiting", "dialling"} => query[w] = "none"
  /\ noted[w] = "ok" => query[w] = "done"

NoteInv == NoteTypeOK /\ \A w \in Writer : NoteOf(w)

\* The parts of a note that a step leaves alone keep its invariant.
LEMMA NoteOfUnchanged ==
  ASSUME NEW w \in Writer, NoteOf(w),
         rows'[w] = rows[w], noting'[w] = noting[w],
         query'[w] = query[w], noted'[w] = noted[w]
  PROVE  NoteOf(w)'
BY DEF NoteOf

\* Nothing is written at first.
LEMMA NoteInitInv == NoteInit => NoteInv
BY DEF NoteInit, NoteInv, NoteTypeOK, NoteOf, Connection

\* A new note starts with no row.
LEMMA AddNoteInv == ASSUME NoteInv, NEW w \in Writer, AddNote(w) PROVE NoteInv'
<1>1. NoteTypeOK'  BY DEF NoteInv, NoteTypeOK, AddNote
<1>2. ASSUME NEW v \in Writer PROVE NoteOf(v)'
  BY DEF NoteInv, NoteTypeOK, NoteOf, AddNote
<1> QED  BY <1>1, <1>2 DEF NoteInv

\* Taking the mutex writes nothing; the INSERT that goes out is the note's first.
LEMMA LockInv == ASSUME NoteInv, NEW w \in Writer, Lock(w) PROVE NoteInv'
<1>1. NoteTypeOK'
  BY DEF NoteInv, NoteTypeOK, Lock, Insert, IsClosed, Connection, Locked
<1>2. ASSUME NEW v \in Writer PROVE NoteOf(v)'
  BY DEF NoteInv, NoteTypeOK, NoteOf, Lock, Insert
<1> QED  BY <1>1, <1>2 DEF NoteInv

\* Nor does dialling.
LEMMA DialInv == ASSUME NoteInv, NEW w \in Writer, Dial(w) PROVE NoteInv'
<1>1. NoteTypeOK'
  BY DEF NoteInv, NoteTypeOK, Dial, Insert, Connection, Locked
<1>2. ASSUME NEW v \in Writer PROVE NoteOf(v)'
  BY DEF NoteInv, NoteTypeOK, NoteOf, Dial, Insert
<1> QED  BY <1>1, <1>2 DEF NoteInv

\* What is put back into the slot is a connection, or none.
LEMMA KeptIsConnection == ASSUME NoteTypeOK PROVE KeptClient \in Connection
BY DEF NoteTypeOK, KeptClient, Connection

\* A call that fails leaves the table as it is.
LEMMA FailedInv ==
  ASSUME NoteInv, NEW w \in Writer, NEW kept \in Connection, EndNote(w, "failed", kept),
         query' = query \/ (query[w] = "sent" /\ query' = [query EXCEPT ![w] = "none"]),
         UNCHANGED <<dbUp, rows>>
  PROVE  NoteInv'
<1>1. query' \in [Writer -> {"none", "sent", "done"}]  BY DEF NoteInv, NoteTypeOK
<1>2. NoteTypeOK'  BY <1>1 DEF NoteInv, NoteTypeOK, EndNote, Connection
<1>3. ASSUME NEW v \in Writer PROVE NoteOf(v)'
  BY DEF NoteInv, NoteTypeOK, NoteOf, EndNote
<1> QED  BY <1>2, <1>3 DEF NoteInv

\* The one INSERT of a note is carried out once.
LEMMA ExecuteInv == ASSUME NoteInv, NEW w \in Writer, Execute(w) PROVE NoteInv'
<1>1. rows[w] = 0  BY DEF NoteInv, NoteOf, Execute
<1>2. NoteTypeOK'  BY <1>1 DEF NoteInv, NoteTypeOK, Execute
<1>3. ASSUME NEW v \in Writer PROVE NoteOf(v)'
  BY <1>1 DEF NoteInv, NoteTypeOK, NoteOf, Execute
<1> QED  BY <1>2, <1>3 DEF NoteInv

\* A call that says ok has its row.
LEMMA ReplyInv == ASSUME NoteInv, NEW w \in Writer, Reply(w) PROVE NoteInv'
<1>1. KeptClient \in Connection  BY KeptIsConnection DEF NoteInv
<1>2. NoteTypeOK'  BY <1>1 DEF NoteInv, NoteTypeOK, Reply, EndNote, Connection
<1>3. ASSUME NEW v \in Writer PROVE NoteOf(v)'
  BY DEF NoteInv, NoteTypeOK, NoteOf, Reply, EndNote
<1> QED  BY <1>2, <1>3 DEF NoteInv

\* A timeout writes nothing.
LEMMA TimesOutInv == ASSUME NoteInv, NEW w \in Writer, TimesOut(w) PROVE NoteInv'
<1>1. NoteTypeOK'  BY DEF NoteInv, NoteTypeOK, TimesOut, Locked
<1>2. ASSUME NEW v \in Writer PROVE NoteOf(v)'
  BY DEF NoteInv, NoteTypeOK, NoteOf, TimesOut
<1> QED  BY <1>1, <1>2 DEF NoteInv

\* Every step of add_note keeps the invariant.
LEMMA NoteStepInv == ASSUME NoteInv, NEW w \in Writer, NoteStep(w) PROVE NoteInv'
<1>0. KeptClient \in Connection /\ "none" \in Connection
  BY KeptIsConnection DEF NoteInv, Connection
<1>1. CASE Dial(w)  BY <1>1, DialInv
<1>2. CASE DialFails(w)  BY <1>0, <1>2, FailedInv DEF DialFails
<1>3. CASE Reply(w)  BY <1>3, ReplyInv
<1>4. CASE Refused(w)  BY <1>0, <1>4, FailedInv DEF Refused
<1>5. CASE ConnectionLost(w)  BY <1>0, <1>5, FailedInv DEF ConnectionLost
<1>6. CASE TimesOut(w)  BY <1>6, TimesOutInv
<1>7. CASE Cancelled(w)
  <2>1. query' = query \/ (query[w] = "sent" /\ query' = [query EXCEPT ![w] = "none"])
    <3>1. query = [query EXCEPT ![w] = query[w]]  BY DEF NoteInv, NoteTypeOK
    <3> QED  BY <1>7, <3>1 DEF Cancelled
  <2>2. EndNote(w, "failed", "none") /\ UNCHANGED <<dbUp, rows>>  BY <1>7 DEF Cancelled
  <2> QED  BY <1>0, <2>1, <2>2, FailedInv
<1> QED  BY <1>1, <1>2, <1>3, <1>4, <1>5, <1>6, <1>7 DEF NoteStep

\* What happens to the connection and to PostgreSQL may kill a query that is under
\* way, and writes nothing.
LEMMA OutsideInv ==
  ASSUME NoteInv, slot' \in Connection, held' \in Connection, dbUp' \in BOOLEAN,
         query' = query \/ query' = Killed,
         UNCHANGED <<noting, rows, noted>>
  PROVE  NoteInv'
<1>1. query' \in [Writer -> {"none", "sent", "done"}]
  BY DEF NoteInv, NoteTypeOK, Killed
<1>2. NoteTypeOK'  BY <1>1 DEF NoteInv, NoteTypeOK
<1>3. ASSUME NEW v \in Writer PROVE NoteOf(v)'
  BY DEF NoteInv, NoteTypeOK, NoteOf, Killed
<1> QED  BY <1>2, <1>3 DEF NoteInv

\* Every step keeps it.
LEMMA NoteNextInv == NoteInv /\ [NoteNext]_noteVars => NoteInv'
<1> SUFFICES ASSUME NoteInv, [NoteNext]_noteVars PROVE NoteInv'  OBVIOUS
<1>0. slot \in Connection /\ held \in Connection /\ dbUp \in BOOLEAN
  BY DEF NoteInv, NoteTypeOK
<1>1. Ended(slot) \in Connection /\ Ended(held) \in Connection
  BY <1>0 DEF Ended, Connection
<1>2. ASSUME NEW w \in Writer, AddNote(w) \/ Lock(w) \/ NoteStep(w) \/ Execute(w)
      PROVE  NoteInv'
  BY <1>2, AddNoteInv, LockInv, NoteStepInv, ExecuteInv
<1>3. CASE DbStops  BY <1>0, <1>1, <1>3, OutsideInv DEF DbStops
<1>4. CASE DbStarts  BY <1>0, <1>4, OutsideInv DEF DbStarts
<1>5. CASE Drops
  <2>1. query' = query \/ query' = Killed  BY <1>5 DEF Drops
  <2>2. /\ slot' = Ended(slot) /\ held' = Ended(held)
        /\ UNCHANGED <<dbUp, noting, rows, noted>>
    BY <1>5 DEF Drops
  <2> QED  BY <1>0, <1>1, <2>1, <2>2, OutsideInv
<1>6. CASE Notice
  <2>1. slot' \in Connection /\ held' \in Connection  BY <1>0, <1>6 DEF Notice, Connection
  <2>2. UNCHANGED <<dbUp, noting, query, rows, noted>>  BY <1>6 DEF Notice
  <2> QED  BY <1>0, <2>1, <2>2, OutsideInv
<1>7. CASE UNCHANGED noteVars  BY <1>0, <1>7, OutsideInv DEF noteVars
<1> QED  BY <1>2, <1>3, <1>4, <1>5, <1>6, <1>7 DEF NoteNext

\* The invariant is enough.
LEMMA NoteInvWritten == NoteInv => NoteWrittenOnce
<1> SUFFICES ASSUME NoteInv, NEW w \in Writer
             PROVE  rows[w] <= 1 /\ (noted[w] = "ok" => rows[w] = 1)
  BY DEF NoteWrittenOnce
<1>1. /\ rows[w] = IF query[w] = "done" THEN 1 ELSE 0
      /\ noted[w] = "ok" => query[w] = "done"
  BY DEF NoteInv, NoteOf
<1>2. rows[w] \in {0, 1}  BY <1>1
<1>3. noted[w] = "ok" => rows[w] = 1  BY <1>1
<1> QED  BY <1>2, <1>3

\* However connections and calls fail and the tasks take turns, no note is written
\* twice and none is reported that is not there (src/src/postgres.rs:139).
THEOREM NoteWrittenOnceHolds == NoteSpec => []NoteWrittenOnce
<1>1. NoteInv /\ [NoteNext]_noteVars => NoteInv'  BY NoteNextInv
<1> QED  BY <1>1, NoteInitInv, NoteInvWritten, PTL DEF NoteSpec

-----------------------------------------------------------------------------
(* RetryQueue *)

\* Of the retry queue: whatever a run walks, fetches and checks are IDs.
LEMMA QueueInitType == QueueInit => QueueTypeOK
BY DEF QueueInit, QueueTypeOK

\* The first of some IDs are some of them.
LEMMA FirstAreThem == ASSUME NEW n, NEW ids PROVE FirstIds(n, ids) \subseteq ids
BY DEF FirstIds

\* So is the next chunk, and what is left.
LEMMA ChunkType ==
  ASSUME NEW rest \in SUBSET QueueId, NextChunk(rest)
  PROVE  checking' \subseteq QueueId /\ fetched' \subseteq QueueId
<1>1. FirstIds(RetryChunk, rest) \subseteq rest  BY FirstAreThem
<1> QED  BY <1>1 DEF NextChunk

\* Every step of retry-failed, and of those who add to the queue and take from it,
\* keeps the types.
LEMMA QueueStepType == QueueTypeOK /\ [QueueNext]_queueVars => QueueTypeOK'
<1> SUFFICES ASSUME QueueTypeOK, [QueueNext]_queueVars PROVE QueueTypeOK'  OBVIOUS
<1> USE DEF QueueTypeOK
<1>1. CASE NothingQueued \/ UNCHANGED queueVars
  BY <1>1 DEF NothingQueued, queueVars
<1>2. CASE WalkQueue
  <2> DEFINE found == FirstIds(RetryMax * WalkFactor, retryable \ resolved)
  <2>1. found \subseteq retryable \ resolved  BY FirstAreThem
  <2>2. walked' = found /\ retryable' \subseteq retryable /\ stage' = "fetch"
        /\ UNCHANGED <<resolved, fetched, checking, chunkFailed>>
    BY <1>2 DEF WalkQueue
  <2> QED  BY <2>1, <2>2
<1>3. CASE FetchDone
  <2>1. CASE fetched = {}  BY <1>3, <2>1 DEF FetchDone, EndRetry
  <2>2. CASE fetched # {}  BY <1>3, <2>2, ChunkType DEF FetchDone
  <2> QED  BY <2>1, <2>2
<1>4. CASE ChunkDone
  <2>1. CASE chunkFailed \/ fetched = {}  BY <1>4, <2>1 DEF ChunkDone, EndRetry
  <2>2. CASE ~(chunkFailed \/ fetched = {})  BY <1>4, <2>2, ChunkType DEF ChunkDone
  <2> QED  BY <2>1, <2>2
<1>5. ASSUME NEW a \in QueueId, FetchOk(a) \/ FetchGone(a) \/ FetchFails(a)
      PROVE  QueueTypeOK'
  BY <1>5 DEF FetchOk, FetchGone, FetchFails, Fetching
<1>6. ASSUME NEW a \in QueueId, CheckOk(a) \/ CheckFails(a) PROVE QueueTypeOK'
  BY <1>6 DEF CheckOk, CheckFails
<1>7. CASE AbortRetry  BY <1>7 DEF AbortRetry, EndRetry
<1>8. CASE Enqueue \/ ModeratorResolves  BY <1>8 DEF Enqueue, ModeratorResolves
<1> QED  BY <1>1, <1>2, <1>3, <1>4, <1>5, <1>6, <1>7, <1>8 DEF QueueNext, RunStep

-----------------------------------------------------------------------------
(* All parts together *)

\* A step of Services is a step of one part, and none of the others.
LEMMA PartSteps ==
  ASSUME [Next]_serviceVars
  PROVE  /\ [HttpNext]_httpVars /\ [NoteNext]_noteVars /\ [RetentionNext]_retentionVars
         /\ [QueueNext]_queueVars /\ [JudgeNext]_judgeVars
<1>1. CASE Next  BY <1>1 DEF Next
<1>2. CASE UNCHANGED serviceVars  BY <1>2 DEF serviceVars
<1> QED  BY <1>1, <1>2

\* The part that runs starts as it does by itself, and so do those at rest.
LEMMA PartInits == Init => HttpInit /\ NoteInit /\ RetentionInit /\ QueueInit /\ JudgeInit
BY DEF Init

\* Each part behaves within Services as it does by itself, fairness included, so
\* that what is true of the part is true of the whole.
THEOREM PartsAreThemselves ==
  Spec => HttpSpec /\ NoteSpec /\ RetentionSpec /\ QueueSpec /\ JudgeSpec
<1>1. [Next]_serviceVars =>
        /\ [HttpNext]_httpVars /\ [NoteNext]_noteVars /\ [RetentionNext]_retentionVars
        /\ [QueueNext]_queueVars /\ [JudgeNext]_judgeVars
  BY PartSteps
<1> QED
  BY <1>1, PartInits, PTL DEF Spec, HttpSpec, NoteSpec, RetentionSpec, QueueSpec, JudgeSpec

\* The state of every part is what its code can hold: attempts within the retries,
\* a connection that is known to be there or not, jobs and actions with or without
\* a TTL, accounts that are queued, walked, fetched and checked, and a judgement
\* at one of its calls.
THEOREM TypeCorrect == Spec => []TypeOK
<1>1. HttpSpec => []HttpInv
  <2>1. HttpInv /\ [HttpNext]_httpVars => HttpInv'  BY HttpStepInv
  <2> QED  BY <2>1, HttpInitInv, PTL DEF HttpSpec
<1>2. NoteSpec => []NoteInv
  <2>1. NoteInv /\ [NoteNext]_noteVars => NoteInv'  BY NoteNextInv
  <2> QED  BY <2>1, NoteInitInv, PTL DEF NoteSpec
<1>3. QueueSpec => []QueueTypeOK
  <2>1. QueueTypeOK /\ [QueueNext]_queueVars => QueueTypeOK'  BY QueueStepType
  <2> QED  BY <2>1, QueueInitType, PTL DEF QueueSpec
<1>4. HttpInv /\ NoteInv /\ RetentionInv /\ QueueTypeOK /\ JudgeInv => TypeOK
  BY DEF TypeOK, HttpInv, NoteInv, RetentionInv, JudgeInv
<1> QED  BY <1>1, <1>2, <1>3, <1>4, RetentionAlways, JudgeAlways, PartsAreThemselves, PTL

\* So the promises of the parts are promises of the whole: the claim outlives its
\* delivery, a note is written once, the migration bounds what should expire and
\* keeps what should not, only the services a check relies on fail it, a flag is not
\* buried, the threshold is met and requests for posts stay with their server.
THEOREM PartsKeepTheirPromises ==
  Spec => /\ [](ClaimOutlivesDelivery /\ NoteWrittenOnce)
          /\ [](MigratedIsBounded /\ UnresolvedIsDurable) /\ KeptForRetention
          /\ [](OnlyOwnServicesFail /\ FlagIsNotBuried /\ ThresholdIsMet /\ RequestsStayHome)
<1> QED
  BY PartsAreThemselves, ClaimOutlivesDeliveryHolds, NoteWrittenOnceHolds,
     MigratedIsBoundedHolds, UnresolvedIsDurableHolds, KeptForRetentionHolds,
     OnlyOwnServicesFailHolds, FlagIsNotBuriedHolds, ThresholdIsMetHolds,
     RequestsStayHomeHolds, PTL
=============================================================================
