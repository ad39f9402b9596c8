------------------------------ MODULE RetryQueue ------------------------------
(***************************************************************************)
(* retry-failed over the whole queue (retry_failed_command in              *)
(* src/src/cli.rs, failed_ids in src/src/redis.rs, process_accounts in     *)
(* src/src/check.rs): run after run, in the order of the IDs, some of the  *)
(* queue is walked, some of that fetched, and that checked in chunks up to *)
(* the first chunk with a failure.  What a check does to one account is    *)
(* AccountJobs; here it succeeds, fails, or finds the account gone.        *)
(***************************************************************************)
EXTENDS Naturals, FiniteSets, Sequences

CONSTANTS
  QueueLast,     \* bound on account IDs
  Radix,         \* of the digits an ID is written with
  RetryMax,      \* --max
  WalkFactor,    \* the queue is walked up to RetryMax * WalkFactor
  RetryChunk     \* CHECK_CONCURRENCY

QueueId == 1..QueueLast

ASSUME QueueAssumption ==
  /\ QueueLast \in Nat
  /\ {RetryMax, WalkFactor, RetryChunk} \subseteq Nat \ {0}
  /\ Radix \in Nat \ {0, 1}

VARIABLES
  retryable,   \* failed_accounts and pending_notifications together
  resolved,    \* accounts completed, or ruled on by a moderator
  stage,       \* where the run of retry-failed is
  walked,      \* IDs it has still to fetch
  fetched,     \* accounts it has still to check
  checking,    \* the chunk being checked
  chunkFailed  \* a check of the chunk has failed

queueVars == <<retryable, resolved, stage, walked, fetched, checking, chunkFailed>>

QueueTypeOK ==
  /\ retryable \subseteq QueueId /\ resolved \subseteq QueueId
  /\ stage \in {"off", "fetch", "work"}
  /\ walked \subseteq QueueId /\ fetched \subseteq QueueId /\ checking \subseteq QueueId
  /\ chunkFailed \in BOOLEAN

QueueInit ==
  /\ retryable = {} /\ resolved = {}
  /\ stage = "off"
  /\ walked = {} /\ fetched = {} /\ checking = {}
  /\ chunkFailed = FALSE

-----------------------------------------------------------------------------
(* The order of the IDs *)

\* An ID is kept as its digits.
Places(n) == CHOOSE k \in 1..n : Radix^(k - 1) <= n /\ n < Radix^k
Digits(n) == [i \in 1..Places(n) |-> (n \div Radix^(Places(n) - i)) % Radix]

\* Comparison of two strings.
TextBefore(s, t) ==
  \E i \in 1..(Len(s) + 1) :
    /\ \A j \in 1..(i - 1) : j <= Len(t) /\ s[j] = t[j]
    /\ i <= Len(t) /\ (i <= Len(s) => s[i] < t[i])

\* numeric_id_cmp is Less.
\* Mutant of IdBefore: the textual order.
IdBeforeTextual(a, b) == TextBefore(Digits(a), Digits(b))
IdBefore(a, b) ==
  LET s == Digits(a) t == Digits(b)
  IN Len(s) < Len(t) \/ (Len(s) = Len(t) /\ TextBefore(s, t))

\* The first n of a set of IDs, or all of it.
FirstIds(n, ids) ==
  {a \in ids : Cardinality({b \in ids : IdBefore(b, a)}) < n}

-----------------------------------------------------------------------------
\* The run ends; so does a process that dies.
EndRetry ==
  /\ stage' = "off"
  /\ walked' = {} /\ fetched' = {} /\ checking' = {}
  /\ chunkFailed' = FALSE

\* "retry queue is empty"
NothingQueued == stage = "off" /\ retryable = {} /\ UNCHANGED queueVars

\* failed_ids: resolved entries are dropped up to the last one returned.
WalkQueue ==
  /\ stage = "off"
  /\ retryable # {}
  /\ LET found == FirstIds(RetryMax * WalkFactor, retryable \ resolved)
         passed == {a \in retryable \cap resolved :
                      Cardinality(found) = RetryMax * WalkFactor
                        => \E b \in found : IdBefore(a, b)}
     IN /\ walked' = found
        /\ retryable' = retryable \ passed
  /\ stage' = "fetch"
  /\ UNCHANGED <<resolved, fetched, checking, chunkFailed>>

Fetching(a) == stage = "fetch" /\ Cardinality(fetched) < RetryMax /\ FirstIds(1, walked) = {a}

FetchOk(a) ==
  /\ Fetching(a)
  /\ walked' = walked \ {a}
  /\ fetched' = fetched \cup {a}
  /\ UNCHANGED <<retryable, resolved, stage, checking, chunkFailed>>

\* Mastodon knows it no longer.
FetchGone(a) ==
  /\ Fetching(a)
  /\ walked' = walked \ {a}
  /\ retryable' = retryable \ {a}
  /\ resolved' = resolved \cup {a}
  /\ UNCHANGED <<stage, fetched, checking, chunkFailed>>

\* It stays queued and does not count.
FetchFails(a) ==
  /\ Fetching(a)
  /\ walked' = walked \ {a}
  /\ UNCHANGED <<retryable, resolved, stage, fetched, checking, chunkFailed>>

\* chunks(concurrency).
NextChunk(rest) ==
  /\ checking' = FirstIds(RetryChunk, rest)
  /\ fetched' = rest \ FirstIds(RetryChunk, rest)

\* As many as asked for, or all there are; without any there is nothing to check.
FetchDone ==
  /\ stage = "fetch"
  /\ walked = {} \/ Cardinality(fetched) = RetryMax
  /\ IF fetched = {}
     THEN EndRetry
     ELSE stage' = "work" /\ walked' = {} /\ NextChunk(fetched) /\ UNCHANGED chunkFailed
  /\ UNCHANGED <<retryable, resolved>>

\* The checks of a chunk, in any order; write_job moves the account in or out of
\* the queue.  A check that finds a moderator's ruling succeeds too.
CheckOk(a) ==
  /\ stage = "work" /\ a \in checking
  /\ checking' = checking \ {a}
  /\ retryable' = retryable \ {a}
  /\ resolved' = resolved \cup {a}
  /\ UNCHANGED <<stage, walked, fetched, chunkFailed>>

CheckFails(a) ==
  /\ stage = "work" /\ a \in checking
  /\ checking' = checking \ {a}
  /\ retryable' = retryable \cup {a}
  /\ chunkFailed' = TRUE
  /\ UNCHANGED <<resolved, stage, walked, fetched>>

ChunkDone ==
  /\ stage = "work" /\ checking = {}
  /\ IF chunkFailed \/ fetched = {}
     THEN EndRetry
     ELSE NextChunk(fetched) /\ UNCHANGED <<stage, walked, chunkFailed>>
  /\ UNCHANGED <<retryable, resolved>>

\* A read or write of the queue fails, the lease is lost, the process dies.
AbortRetry ==
  /\ stage # "off"
  /\ EndRetry
  /\ UNCHANGED <<retryable, resolved>>

-----------------------------------------------------------------------------
\* Another run's check of an account fails for the first time.
Enqueue ==
  /\ stage = "off"
  /\ \E a \in QueueId \ (resolved \cup retryable) : retryable' = retryable \cup {a}
  /\ UNCHANGED <<resolved, stage, walked, fetched, checking, chunkFailed>>

\* A moderator rules on an account.  A check under way may still queue it again.
ModeratorResolves ==
  /\ \E a \in QueueId \ resolved :
       resolved' = resolved \cup {a} /\ retryable' = retryable \ {a}
  /\ UNCHANGED <<stage, walked, fetched, checking, chunkFailed>>

RunStep ==
  \/ NothingQueued \/ WalkQueue \/ FetchDone \/ ChunkDone
  \/ \E a \in QueueId :
       FetchOk(a) \/ FetchGone(a) \/ FetchFails(a) \/ CheckOk(a) \/ CheckFails(a)

QueueNext == RunStep \/ AbortRetry \/ Enqueue \/ ModeratorResolves

\* retry-failed is run again and again, and a run goes on until it ends.
QueueFairness == WF_queueVars(RunStep)

QueueSpec == QueueInit /\ [][QueueNext]_queueVars /\ QueueFairness

-----------------------------------------------------------------------------
\* What keeps an account from its turn: a check of an account with a lower ID, or
\* its own, fails; it cannot be fetched, nor can others outside of skipped; or the
\* run is cut off before its end.
Hinders(a, skipped) ==
  \/ AbortRetry /\ ~FetchDone /\ ~ChunkDone
  \/ \E b \in 1..a : CheckFails(b) \/ (b \notin skipped /\ FetchFails(b))

\* A queued account is retried in its turn: it leaves the queue if retry-failed is
\* run again and again, and from some time on the accounts before it do not fail,
\* or are so few that cannot be fetched that the walk reaches past them.  Accounts
\* with higher IDs, in number or numerals, cannot hold it up.
RetriedInTurn ==
  \A a \in QueueId : \A skipped \in SUBSET (1..(a - 1)) :
    Cardinality(skipped) < RetryMax * WalkFactor =>
      ((<>[][~Hinders(a, skipped)]_queueVars) => (a \in retryable ~> a \notin retryable))
=============================================================================
