------------------------------ MODULE CheckRun ------------------------------
(***************************************************************************)
(* A run over many accounts: check, dry-run and backfill (src/src/cli.rs)  *)
(* fetch a batch page by page (src/src/mastodon.rs), process_accounts      *)
(* (src/src/check.rs) checks it in concurrent chunks, and check saves the  *)
(* cursor.                                                                 *)
(*                                                                         *)
(* An account is its ID, a number.  What AccountJobs keeps of it is        *)
(* summarised in three sets, as its refinement of Outbox allows: settled   *)
(* (completed, or ruled on by a moderator), pending and queued.  A settled *)
(* record's expiry after 90 days and the races of two runs on one account  *)
(* are left to AccountJobs: two processes here matter for the cursor only. *)
(***************************************************************************)
EXTENDS Naturals, FiniteSets, FiniteSetsExt

CONSTANTS
  Process,
  LastId,       \* bound on account IDs
  System,       \* accounts is_system_account recognises
  MaxAccounts,  \* MAX_ACCOUNTS_PER_RUN, or --max
  PageLimit,    \* the most Mastodon returns in one page
  Concurrency   \* CHECK_CONCURRENCY

Id == 1..LastId

ASSUME SizeAssumption ==
  /\ LastId \in Nat /\ System \subseteq Id
  /\ {MaxAccounts, PageLimit, Concurrency} \subseteq Nat \ {0}

VARIABLES
  newest,       \* Mastodon knows the accounts 1..newest
  cursor,       \* last_account_id; 0 for none
  base,         \* history: where the checking began, below the first cursor
  settled, pending, queued,   \* the accounts' records
  phase,        \* where the run is
  kind,         \* its command
  forward,      \* it pages upwards from an ID
  low, high,    \* exclusive bounds of its next page
  batch,        \* accounts it has fetched
  todo, chunk,  \* those still to be checked, and being checked
  result,       \* what check_one returned for those in the chunk
  last          \* last_contiguous_id; 0 for none

worldVars == <<newest, settled, pending, queued>>
fetchVars == <<kind, forward, low, high, batch>>
workVars == <<todo, chunk, result, last>>
cursorVars == <<cursor, base>>
vars == <<worldVars, cursorVars, phase, fetchVars, workVars>>

Phase == {"idle", "fetch", "next", "work", "save"}
Kind == {"check", "dry", "backfill"}
Result == {"none", "working", "reporting", "ok", "err"}

TypeOK ==
  /\ newest \in 0..LastId
  /\ cursor \in 0..LastId
  /\ base \in 0..LastId
  /\ settled \subseteq Id /\ pending \subseteq Id /\ queued \subseteq Id
  /\ phase \in [Process -> Phase]
  /\ kind \in [Process -> Kind]
  /\ forward \in [Process -> BOOLEAN]
  /\ low \in [Process -> 0..LastId]
  /\ high \in [Process -> Id \cup {LastId + 1}]
  /\ batch \in [Process -> SUBSET Id]
  /\ todo \in [Process -> SUBSET Id]
  /\ chunk \in [Process -> SUBSET Id]
  /\ result \in [Process -> [Id -> Result]]
  /\ last \in [Process -> 0..LastId]

NoResults == [a \in Id |-> "none"]

Init ==
  /\ newest \in 0..LastId
  /\ cursor \in 0..newest
  /\ base = cursor
  /\ settled = {} /\ pending = {} /\ queued = {}
  /\ phase = [p \in Process |-> "idle"]
  /\ kind = [p \in Process |-> "check"]
  /\ forward = [p \in Process |-> FALSE]
  /\ low = [p \in Process |-> 0]
  /\ high = [p \in Process |-> LastId + 1]
  /\ batch = [p \in Process |-> {}]
  /\ todo = [p \in Process |-> {}]
  /\ chunk = [p \in Process |-> {}]
  /\ result = [p \in Process |-> NoResults]
  /\ last = [p \in Process |-> 0]

-----------------------------------------------------------------------------
At(p, place) == phase[p] = place
Goto(p, place) == phase' = [phase EXCEPT ![p] = place]

\* What a run keeps ends with its process.
Exit(p) ==
  /\ Goto(p, "idle")
  /\ kind' = [kind EXCEPT ![p] = "check"]
  /\ forward' = [forward EXCEPT ![p] = FALSE]
  /\ low' = [low EXCEPT ![p] = 0]
  /\ high' = [high EXCEPT ![p] = LastId + 1]
  /\ batch' = [batch EXCEPT ![p] = {}]
  /\ todo' = [todo EXCEPT ![p] = {}]
  /\ chunk' = [chunk EXCEPT ![p] = {}]
  /\ result' = [result EXCEPT ![p] = NoResults]
  /\ last' = [last EXCEPT ![p] = 0]

-----------------------------------------------------------------------------
(* fetch_remote_accounts *)

Launch(p, command, from, to) ==
  /\ At(p, "idle")
  /\ Goto(p, "fetch")
  /\ kind' = [kind EXCEPT ![p] = command]
  /\ forward' = [forward EXCEPT ![p] = from # 0]
  /\ low' = [low EXCEPT ![p] = from]
  /\ high' = [high EXCEPT ![p] = to]
  /\ UNCHANGED <<worldVars, cursorVars, batch, workVars>>

\* check and dry-run start at the cursor; without one, at the newest account.
Check(p, command) == Launch(p, command, cursor, LastId + 1)

\* --from, and --to or none.
Backfill(p) ==
  \E from \in Id, to \in Id \cup {LastId + 1} :
    from < to /\ Launch(p, "backfill", from, to)

\* The first n of a set in ascending order, or all of it.
IsFirst(part, whole, n) ==
  /\ part \subseteq whole
  /\ \A x \in part, y \in whole \ part : x < y
  /\ part = whole \/ Cardinality(part) = n

\* Mastodon returns the limit accounts next to the bound, newest first.  A full
\* page that repeats an ID holds fewer.
IsPage(p, page, full) ==
  LET available == {a \in 1..newest : low[p] < a /\ a < high[p]}
      limit == Min({PageLimit, MaxAccounts - Cardinality(batch[p])})
  IN /\ page \subseteq available
     /\ \A x \in page, y \in available \ page : IF forward[p] THEN x < y ELSE y < x
     /\ IF full THEN page # {} /\ Cardinality(page) \in {limit, limit - 1}
                ELSE page = available /\ Cardinality(page) < limit

\* The bounds of the page after this one: sorted, its last and first account.
After(page) == Max(page)

\* Mutant of Before: as if max_id were inclusive.
BeforeInclusive(page) == Min(page) - 1
Before(page) == Min(page)

FetchPage(p) ==
  /\ At(p, "fetch")
  /\ \E page \in SUBSET (1..newest), full \in BOOLEAN :
       /\ IsPage(p, page, full)
       /\ batch' = [batch EXCEPT ![p] = @ \cup page]
       /\ low' = [low EXCEPT ![p] = IF forward[p] /\ page # {} THEN After(page) ELSE @]
       /\ high' = [high EXCEPT ![p] = IF forward[p] \/ page = {} THEN @ ELSE Before(page)]
       /\ LET more == full /\ Cardinality(batch'[p]) < MaxAccounts IN
            /\ Goto(p, IF more THEN "fetch" ELSE "next")
            /\ todo' = [todo EXCEPT ![p] = IF more THEN {} ELSE batch'[p]]
  /\ UNCHANGED <<worldVars, cursorVars, kind, forward, chunk, result, last>>

-----------------------------------------------------------------------------
(* check_one, in outline *)

Settle(a) ==
  /\ settled' = settled \cup {a}
  /\ pending' = pending \ {a}
  /\ queued' = queued \ {a}
  /\ UNCHANGED newest

Owe(a) ==
  /\ pending' = pending \cup {a}
  /\ queued' = queued \cup {a}
  /\ UNCHANGED <<newest, settled>>

FailJob(a) ==
  /\ pending' = pending \ {a}
  /\ queued' = queued \cup {a}
  /\ UNCHANGED <<newest, settled>>

Persists(p) == kind[p] # "dry"

Returns(p, a, outcome) == result' = [result EXCEPT ![p][a] = outcome]

Checking(p, a, states) == At(p, "work") /\ a \in chunk[p] /\ result[p][a] \in states

NotWorldOf == <<cursorVars, phase, fetchVars, todo, chunk, last>>

\* System, decided, completed, or left to retry-failed.
NothingToDo(p, a) == a \in System \/ (Persists(p) /\ a \in settled \cup pending)

\* Mutant of Skip: an account that is left alone counts as a failure.
SkipFails(p, a) ==
  /\ Checking(p, a, {"none"})
  /\ NothingToDo(p, a)
  /\ Returns(p, a, "err")
  /\ UNCHANGED <<worldVars, NotWorldOf>>

Skip(p, a) ==
  /\ Checking(p, a, {"none"})
  /\ NothingToDo(p, a)
  /\ Returns(p, a, "ok")
  /\ UNCHANGED <<worldVars, NotWorldOf>>

BeginCheck(p, a) ==
  /\ Checking(p, a, {"none"})
  /\ ~NothingToDo(p, a)
  /\ Returns(p, a, "working")
  /\ UNCHANGED <<worldVars, NotWorldOf>>

\* report_spam is about to deliver.
RecordPending(p, a) ==
  /\ Checking(p, a, {"working"})
  /\ Persists(p)
  /\ Owe(a)
  /\ Returns(p, a, "reporting")
  /\ UNCHANGED NotWorldOf

FinishCheck(p, a) ==
  /\ Checking(p, a, {"working", "reporting"})
  /\ IF Persists(p) THEN Settle(a) ELSE UNCHANGED worldVars
  /\ Returns(p, a, "ok")
  /\ UNCHANGED NotWorldOf

\* An error, or a panic of the task.  fail_job may have failed as well, and the
\* error may be of a write that took effect.
CheckFails(p, a) ==
  /\ \/ Checking(p, a, {"none"}) /\ a \notin System /\ UNCHANGED worldVars
     \/ /\ Checking(p, a, {"working", "reporting"})
        /\ \/ UNCHANGED worldVars
           \/ Persists(p) /\ (FailJob(a) \/ Settle(a))
  /\ Returns(p, a, "err")
  /\ UNCHANGED NotWorldOf

-----------------------------------------------------------------------------
(* process_accounts *)

NextChunk(p) ==
  /\ At(p, "next")
  /\ todo[p] # {}
  /\ \E part \in SUBSET todo[p] :
       /\ IsFirst(part, todo[p], Concurrency)
       /\ Cardinality(part) <= Concurrency
       /\ chunk' = [chunk EXCEPT ![p] = part]
       /\ todo' = [todo EXCEPT ![p] = @ \ part]
  /\ Goto(p, "work")
  /\ result' = [result EXCEPT ![p] = NoResults]
  /\ UNCHANGED <<worldVars, cursorVars, fetchVars, last>>

\* Those of the chunk with no failure at or before them in ID order.
\* Mutant of Contiguous: progress by completion.
Completed(p) == {a \in chunk[p] : result[p][a] = "ok"}

Contiguous(p) ==
  {a \in chunk[p] : \A b \in chunk[p] : b <= a => result[p][b] = "ok"}

EndChunk(p) ==
  /\ At(p, "work")
  /\ \A a \in chunk[p] : result[p][a] \in {"ok", "err"}
  /\ last' = [last EXCEPT ![p] = IF Contiguous(p) = {} THEN @ ELSE Max(Contiguous(p))]
  /\ Goto(p, IF Contiguous(p) = chunk[p] /\ todo[p] # {} THEN "next" ELSE "save")
  /\ chunk' = [chunk EXCEPT ![p] = {}]
  /\ result' = [result EXCEPT ![p] = NoResults]
  /\ UNCHANGED <<worldVars, cursorVars, fetchVars, todo>>

\* The Lua script of set_cursor.
\* Mutants of SetCursor: a plain SET; the ID to start at instead of the ID seen.
SetCursorAnyway(id) == cursor' = id
SetCursorBeyond(id) == cursor' = IF id + 1 > cursor THEN id + 1 ELSE cursor

SetCursor(id) == cursor' = IF id > cursor THEN id ELSE cursor

Save(p) ==
  /\ At(p, "save")
  /\ IF kind[p] = "check" /\ last[p] # 0 THEN SetCursor(last[p]) ELSE UNCHANGED cursor
  /\ base' = IF cursor = 0 /\ cursor' # 0 THEN Min(batch[p]) - 1 ELSE base
  /\ Exit(p)
  /\ UNCHANGED worldVars

\* No accounts: nothing to do.
EmptyBatch(p) ==
  /\ At(p, "next")
  /\ batch[p] = {}
  /\ Exit(p)
  /\ UNCHANGED <<worldVars, cursorVars>>

\* The fetch or the save failed, the lease was lost, the process died.
Stop(p) == ~At(p, "idle") /\ Exit(p) /\ UNCHANGED <<worldVars, cursorVars>>

-----------------------------------------------------------------------------
(* Everyone else *)

Arrive ==
  /\ newest < LastId
  /\ newest' = newest + 1
  /\ UNCHANGED <<settled, pending, queued, cursorVars, phase, fetchVars, workVars>>

\* retry-failed and the moderators.
Elsewhere(a) ==
  /\ a \in queued
  /\ \/ Settle(a)
     \/ a \notin settled /\ (FailJob(a) \/ Owe(a))
  /\ UNCHANGED <<cursorVars, phase, fetchVars, workVars>>

CheckStep(p, a) == Skip(p, a) \/ BeginCheck(p, a) \/ RecordPending(p, a) \/ FinishCheck(p, a)

RunStep(p) ==
  \/ FetchPage(p) \/ NextChunk(p) \/ EndChunk(p) \/ Save(p) \/ EmptyBatch(p)
  \/ \E a \in Id : CheckStep(p, a)

Fault(p) == Stop(p) \/ \E a \in Id : CheckFails(p, a)

Next ==
  \/ Arrive
  \/ \E a \in Id : Elsewhere(a)
  \/ \E p \in Process :
       RunStep(p) \/ Fault(p) \/ Check(p, "check") \/ Check(p, "dry") \/ Backfill(p)

Spec == Init /\ [][Next]_vars

-----------------------------------------------------------------------------
(* Properties *)

\* The cursor never passes an account that was neither settled nor put on the
\* retry queue, whatever failed, stopped or ran concurrently on the way
\* (process_accounts's walk in ID order, the pagination, check's save).
Accounted(a) == a \in System \/ a \in settled \/ a \in queued
NothingSkipped == \A a \in Id : base < a /\ a <= cursor => Accounted(a)

\* Overlapping runs never move the cursor back (set_cursor's comparison).
CursorNeverRegresses == [][cursor' >= cursor]_vars

\* A batch has no gap, through any number of pages, in either direction, and of
\* arrivals in between: an account in a gap would be behind the cursor for good
\* (fetch_remote_accounts).
NoGapInBatch ==
  \A p \in Process : \A a \in batch[p], b \in 1..newest :
    b < a => b \in batch[p] \/ \A c \in batch[p] : b < c

-----------------------------------------------------------------------------
(* Liveness: the periodic check keeps being started, its steps are taken, and *)
(* failures end.                                                             *)

\* A step that only a failure explains: stopping is also how a run ends that has
\* nothing to do or to save.
Outage(p) == Fault(p) /\ ~RunStep(p)

FairSpec ==
  /\ Spec
  /\ \A p \in Process : WF_vars(RunStep(p)) /\ SF_vars(Check(p, "check"))
  /\ <>[][\A p \in Process : ~Outage(p)]_vars

\* Once there is a cursor, every account Mastodon has beyond it is in the end
\* settled or on the retry queue: no account parks the cursor in front of those
\* after it (check_one's Existing, process_accounts).
EveryAccountIsChecked ==
  \A a \in Id : (cursor # 0 /\ a > cursor /\ a <= newest) ~> Accounted(a)
=============================================================================
