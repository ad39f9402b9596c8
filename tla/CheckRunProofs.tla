--------------------------- MODULE CheckRunProofs ---------------------------
(***************************************************************************)
(* Proofs about CheckRun, in two layers.  Shape is what a run knows of its *)
(* own batch: where it stands in it (Progress), and that the pages adjoin  *)
(* (Gapless).  It needs no other run to stand still.  That the cursor      *)
(* skips nobody also rests on the store (Done) and on where the batch      *)
(* begins (Window); this last part is about the cursor the run began with, *)
(* so NothingSkipped is proved of one check at a time, OneCheck.           *)
(***************************************************************************)
EXTENDS CheckRun, WellFoundedInduction, TLAPS

\* A non-empty set of numbers has a least element.
LEMMA Least ==
  ASSUME NEW S \in SUBSET Nat, S # {}
  PROVE  \E x \in S : \A y \in S : x <= y
<1>1. PICK x \in S : \A y \in S : ~(<<y, x>> \in OpToRel(<, Nat))
  BY NatLessThanWellFounded, WFMin
<1>2. \A y \in S : ~(y < x)
  BY <1>1 DEF OpToRel
<1> QED  BY <1>2

\* What Min of FiniteSetsExt returns for it.
LEMMA MinOfIds ==
  ASSUME NEW S \in SUBSET Nat, S # {}
  PROVE  Min(S) \in S /\ \A y \in S : Min(S) <= y
  BY Least DEF Min

\* What Max of FiniteSetsExt returns for a bounded set.
LEMMA MaxOfIds ==
  ASSUME NEW n \in Nat, NEW S \in SUBSET (0..n), S # {}
  PROVE  Max(S) \in S /\ \A y \in S : y <= Max(S)
<1> DEFINE R == {n - x : x \in S}
<1>1. R \in SUBSET Nat /\ R # {}
  <2>1. \A x \in S : n - x \in Nat
    OBVIOUS
  <2>2. \E x \in S : n - x \in R
    OBVIOUS
  <2> QED  BY <2>1, <2>2
<1>2. PICK r \in R : \A s \in R : r <= s
  BY <1>1, Least
<1>3. PICK x \in S : r = n - x
  OBVIOUS
<1>4. \A y \in S : n - y \in R
  OBVIOUS
<1>5. \A y \in S : x >= y
  BY <1>2, <1>3, <1>4
<1> QED  BY <1>5 DEF Max

-----------------------------------------------------------------------------
(* Types *)

WorldTypeOK ==
  /\ newest \in 0..LastId
  /\ settled \subseteq Id /\ pending \subseteq Id /\ queued \subseteq Id

\* Account IDs are natural numbers.
LEMMA Bounds == LastId \in Nat /\ Id \subseteq Nat
  BY SizeAssumption DEF Id

\* A process that ends leaves its variables well typed.
LEMMA ExitType ==
  ASSUME TypeOK, NEW p \in Process, Exit(p), WorldTypeOK', cursor' \in 0..LastId, base' \in 0..LastId
  PROVE  TypeOK'
<1>1. NoResults \in [Id -> Result]
  BY DEF NoResults, Result
<1>2. result' \in [Process -> [Id -> Result]]
  BY <1>1 DEF Exit, TypeOK
<1>3. high' \in [Process -> Id \cup {LastId + 1}]
  BY DEF Exit, TypeOK
<1>4. low' \in [Process -> 0..LastId] /\ last' \in [Process -> 0..LastId]
  BY SizeAssumption DEF Exit, TypeOK
<1> QED
  BY <1>2, <1>3, <1>4 DEF TypeOK, Exit, Goto, Phase, Kind, WorldTypeOK

\* No store operation takes an account out of account.
LEMMA AccountMoves ==
  ASSUME TypeOK, NEW a \in Id, Settle(a) \/ Owe(a) \/ FailJob(a) \/ UNCHANGED worldVars
  PROVE  /\ WorldTypeOK'
         /\ newest' = newest
         /\ \A b \in Id : Accounted(b) => Accounted(b)'
  BY DEF TypeOK, WorldTypeOK, Settle, Owe, FailJob, worldVars, Accounted

\* Returning a result keeps the types.
LEMMA WorkType ==
  ASSUME TypeOK, NEW p \in Process, NEW a \in Id, NEW outcome \in Result,
         WorldTypeOK', Returns(p, a, outcome), UNCHANGED NotWorldOf
  PROVE  TypeOK'
<1>1. result' \in [Process -> [Id -> Result]]
  BY DEF Returns, TypeOK
<1> QED  BY <1>1 DEF TypeOK, WorldTypeOK, NotWorldOf, cursorVars, fetchVars

\* Fetching a page keeps the types.
LEMMA FetchType ==
  ASSUME TypeOK, NEW p \in Process, FetchPage(p)
  PROVE  TypeOK'
<1>1. PICK page \in SUBSET (1..newest), full \in BOOLEAN :
        /\ batch' = [batch EXCEPT ![p] = @ \cup page]
        /\ low' = [low EXCEPT ![p] = IF forward[p] /\ page # {} THEN After(page) ELSE @]
        /\ high' = [high EXCEPT ![p] = IF forward[p] \/ page = {} THEN @ ELSE Before(page)]
        /\ LET more == full /\ Cardinality(batch'[p]) < MaxAccounts IN
             /\ Goto(p, IF more THEN "fetch" ELSE "next")
             /\ todo' = [todo EXCEPT ![p] = IF more THEN {} ELSE batch'[p]]
  BY DEF FetchPage
<1>2. page \subseteq Id /\ page \in SUBSET (0..LastId) /\ page \in SUBSET Nat
  BY Bounds DEF TypeOK, Id
<1>3. page # {} => Max(page) \in page /\ Min(page) \in page
  BY <1>2, Bounds, MinOfIds, MaxOfIds
<1>4. batch' \in [Process -> SUBSET Id]
  BY <1>1, <1>2 DEF TypeOK
<1>5. low' \in [Process -> 0..LastId]
  BY <1>1, <1>2, <1>3 DEF TypeOK, After
<1>6. high' \in [Process -> Id \cup {LastId + 1}]
  BY <1>1, <1>2, <1>3 DEF TypeOK, Before
<1>7. todo' \in [Process -> SUBSET Id] /\ phase' \in [Process -> Phase]
  BY <1>1, <1>4 DEF TypeOK, Goto, Phase
<1> QED  BY <1>4, <1>5, <1>6, <1>7 DEF FetchPage, TypeOK, worldVars, cursorVars

\* The last contiguous account is one of the chunk.
LEMMA ContiguousMax ==
  ASSUME TypeOK, NEW p \in Process, Contiguous(p) # {}
  PROVE  /\ Max(Contiguous(p)) \in Contiguous(p)
         /\ \A a \in Contiguous(p) : a <= Max(Contiguous(p))
<1>1. Contiguous(p) \in SUBSET (0..LastId)
  BY Bounds DEF Contiguous, TypeOK, Id
<1> QED  BY <1>1, MaxOfIds, Bounds

\* Starting and ending a chunk keep the types.
LEMMA ChunkType ==
  ASSUME TypeOK, NEW p \in Process, NextChunk(p) \/ EndChunk(p)
  PROVE  TypeOK'
<1>0. NoResults \in [Id -> Result]
  BY DEF NoResults, Result
<1>1. CASE NextChunk(p)
  <2>1. chunk' \in [Process -> SUBSET Id] /\ todo' \in [Process -> SUBSET Id]
    BY <1>1 DEF NextChunk, TypeOK
  <2> QED
    BY <1>0, <1>1, <2>1 DEF NextChunk, TypeOK, Goto, Phase, worldVars, cursorVars, fetchVars
<1>2. CASE EndChunk(p)
  <2>0. Contiguous(p) # {} => Max(Contiguous(p)) \in 0..LastId
    <3>1. Contiguous(p) \subseteq Id
      BY DEF TypeOK, Contiguous
    <3> QED  BY <3>1, ContiguousMax, Bounds DEF Id
  <2>1. last' \in [Process -> 0..LastId]
    BY <1>2, <2>0 DEF EndChunk, TypeOK
  <2>2. phase' \in [Process -> Phase]
    BY <1>2 DEF EndChunk, TypeOK, Goto, Phase
  <2> QED
    BY <1>0, <1>2, <2>1, <2>2 DEF EndChunk, TypeOK, worldVars, cursorVars, fetchVars
<1> QED  BY <1>1, <1>2

\* Starting a run keeps the types.
LEMMA LaunchType ==
  ASSUME TypeOK, NEW p \in Process, NEW command \in Kind,
         NEW from \in 0..LastId, NEW to \in Id \cup {LastId + 1}, Launch(p, command, from, to)
  PROVE  TypeOK'
<1>1. forward' \in [Process -> BOOLEAN]
  BY DEF Launch, TypeOK
<1>2. phase' \in [Process -> Phase] /\ kind' \in [Process -> Kind]
  BY DEF Launch, TypeOK, Goto, Phase
<1>3. low' \in [Process -> 0..LastId] /\ high' \in [Process -> Id \cup {LastId + 1}]
  BY DEF Launch, TypeOK
<1> QED  BY <1>1, <1>2, <1>3 DEF Launch, TypeOK, worldVars, cursorVars, workVars

\* A step of check_one keeps the types.
LEMMA CheckStepType ==
  ASSUME TypeOK, NEW p \in Process, NEW a \in Id, CheckStep(p, a) \/ CheckFails(p, a)
  PROVE  TypeOK'
<1>1. PICK outcome \in Result : Returns(p, a, outcome)
  BY DEF CheckStep, Skip, BeginCheck, RecordPending, FinishCheck, CheckFails, Result
<1>2. UNCHANGED NotWorldOf
  BY DEF CheckStep, Skip, BeginCheck, RecordPending, FinishCheck, CheckFails
<1>3. Settle(a) \/ Owe(a) \/ FailJob(a) \/ UNCHANGED worldVars
  BY DEF CheckStep, Skip, BeginCheck, RecordPending, FinishCheck, CheckFails
<1> QED  BY <1>1, <1>2, <1>3, AccountMoves, WorkType

-----------------------------------------------------------------------------
(* A run and its batch, beside any number of other runs *)

\* Where a run stands in its batch: all up to last is done, then comes the chunk,
\* then the rest.
Progress(p) ==
  /\ batch[p] \subseteq 1..newest
  /\ chunk[p] \subseteq batch[p] /\ todo[p] \subseteq batch[p]
  /\ last[p] \in batch[p] \cup {0}
  /\ phase[p] \in {"idle", "fetch"} => chunk[p] = {} /\ todo[p] = {} /\ last[p] = 0
  /\ phase[p] = "next" => chunk[p] = {}
  /\ phase[p] = "idle" => batch[p] = {}
  /\ phase[p] \in {"next", "work"} =>
       /\ \A a \in batch[p] : a <= last[p] \/ a \in chunk[p] \/ a \in todo[p]
       /\ \A a \in chunk[p], b \in todo[p] : a < b
       /\ \A a \in chunk[p] \cup todo[p] : last[p] < a

\* Between the bound its next page starts from and an account it has fetched, a
\* run has fetched every account.
Between(p, a, b) == IF forward[p] THEN a <= b /\ b <= low[p] ELSE high[p] <= b /\ b <= a

Gapless(p) ==
  /\ \A a \in batch[p] : IF forward[p] THEN a <= low[p] ELSE high[p] <= a
  /\ \A a \in batch[p], b \in Id : Between(p, a, b) => b \in batch[p]

Shape == TypeOK /\ \A p \in Process : Progress(p) /\ Gapless(p)

\* Every batch is empty at the start.
LEMMA ShapeInit == Init => Shape
<1> SUFFICES ASSUME Init PROVE Shape
  OBVIOUS
<1>1. NoResults \in [Id -> Result]
  BY DEF NoResults, Result
<1>2. newest \in 0..LastId /\ cursor \in 0..LastId /\ base \in 0..LastId
  BY SizeAssumption DEF Init
<1>3. LastId + 1 \in Id \cup {LastId + 1} /\ 0 \in 0..LastId
  BY SizeAssumption
<1>4. TypeOK
  BY <1>1, <1>2, <1>3 DEF Init, TypeOK, Phase, Kind
<1> QED  BY <1>4 DEF Init, Shape, Progress, Gapless

\* A run keeps its shape through what it has no part in: another run's step, the
\* store's, an arrival.
LEMMA ShapeKept ==
  ASSUME Shape, NEW q \in Process, 1..newest \subseteq 1..newest',
         phase'[q] = phase[q], forward'[q] = forward[q], low'[q] = low[q], high'[q] = high[q],
         batch'[q] = batch[q], todo'[q] = todo[q], chunk'[q] = chunk[q], last'[q] = last[q]
  PROVE  Progress(q)' /\ Gapless(q)'
<1>1. Progress(q)'
  BY DEF Shape, Progress
<1>2. Gapless(q)'
  BY DEF Shape, Gapless, Between
<1> QED  BY <1>1, <1>2

\* check_one does not touch the batch.
LEMMA CheckStepShape ==
  ASSUME Shape, NEW p \in Process, NEW a \in Id, CheckStep(p, a) \/ CheckFails(p, a)
  PROVE  Shape'
<1>1. TypeOK'
  BY CheckStepType DEF Shape
<1>2. UNCHANGED NotWorldOf /\ newest' = newest
  BY DEF CheckStep, Skip, BeginCheck, RecordPending, FinishCheck, CheckFails, worldVars, Settle,
         Owe, FailJob
<1>3. \A q \in Process : Progress(q)' /\ Gapless(q)'
  BY <1>2, ShapeKept DEF NotWorldOf, fetchVars
<1> QED  BY <1>1, <1>3 DEF Shape

\* What a run holds after a page, and what it knows of the page.
LEMMA PageFetched ==
  ASSUME Shape, NEW p \in Process, FetchPage(p)
  PROVE  \E page \in SUBSET (Id \cap 1..newest) :
           /\ \A x \in page : low[p] < x /\ x < high[p]
           /\ \A y \in 1..newest : low[p] < y /\ y < high[p] /\ y \notin page =>
                \A x \in page : IF forward[p] THEN x < y ELSE y < x
           /\ page # {} =>
                /\ Max(page) \in page /\ \A a \in page : a <= Max(page)
                /\ Min(page) \in page /\ \A a \in page : Min(page) <= a
           /\ batch'[p] = batch[p] \cup page
           /\ low'[p] = IF forward[p] /\ page # {} THEN Max(page) ELSE low[p]
           /\ high'[p] = IF forward[p] \/ page = {} THEN high[p] ELSE Min(page)
           /\ kind'[p] = kind[p] /\ forward'[p] = forward[p]
           /\ chunk'[p] = {} /\ last'[p] = 0 /\ phase[p] = "fetch"
           /\ \/ phase'[p] = "fetch" /\ todo'[p] = {}
              \/ phase'[p] = "next" /\ todo'[p] = batch'[p]
           /\ UNCHANGED <<worldVars, cursorVars>>
<1>1. PICK page \in SUBSET (1..newest), full \in BOOLEAN :
        /\ IsPage(p, page, full)
        /\ batch' = [batch EXCEPT ![p] = @ \cup page]
        /\ low' = [low EXCEPT ![p] = IF forward[p] /\ page # {} THEN After(page) ELSE @]
        /\ high' = [high EXCEPT ![p] = IF forward[p] \/ page = {} THEN @ ELSE Before(page)]
        /\ LET more == full /\ Cardinality(batch'[p]) < MaxAccounts IN
             /\ Goto(p, IF more THEN "fetch" ELSE "next")
             /\ todo' = [todo EXCEPT ![p] = IF more THEN {} ELSE batch'[p]]
  BY DEF FetchPage
<1>2. page \in SUBSET (Id \cap 1..newest) /\ page \in SUBSET (0..LastId) /\ page \in SUBSET Nat
  BY Bounds DEF Shape, TypeOK, Id
<1>3. page # {} => /\ Max(page) \in page /\ \A a \in page : a <= Max(page)
                   /\ Min(page) \in page /\ \A a \in page : Min(page) <= a
  BY <1>2, Bounds, MinOfIds, MaxOfIds
<1>4. /\ \A x \in page : low[p] < x /\ x < high[p]
      /\ \A y \in 1..newest : low[p] < y /\ y < high[p] /\ y \notin page =>
           \A x \in page : IF forward[p] THEN x < y ELSE y < x
  BY <1>1 DEF IsPage
<1>5. /\ batch'[p] = batch[p] \cup page
      /\ low'[p] = IF forward[p] /\ page # {} THEN Max(page) ELSE low[p]
      /\ high'[p] = IF forward[p] \/ page = {} THEN high[p] ELSE Min(page)
      /\ kind'[p] = kind[p] /\ forward'[p] = forward[p]
      /\ chunk'[p] = chunk[p] /\ last'[p] = last[p] /\ phase[p] = "fetch"
      /\ (phase'[p] = "fetch" /\ todo'[p] = {}) \/ (phase'[p] = "next" /\ todo'[p] = batch'[p])
      /\ UNCHANGED <<worldVars, cursorVars>>
  BY <1>1 DEF FetchPage, Shape, TypeOK, Goto, At, After, Before
<1>6. chunk[p] = {} /\ last[p] = 0
  BY <1>5 DEF Shape, Progress
<1> QED  BY <1>2, <1>3, <1>4, <1>5, <1>6

\* The page adjoins what was fetched before.
LEMMA FetchShape ==
  ASSUME Shape, NEW p \in Process, FetchPage(p)
  PROVE  Shape'
<1>1. PICK page \in SUBSET (Id \cap 1..newest) :
        /\ \A x \in page : low[p] < x /\ x < high[p]
        /\ \A y \in 1..newest : low[p] < y /\ y < high[p] /\ y \notin page =>
             \A x \in page : IF forward[p] THEN x < y ELSE y < x
        /\ page # {} =>
             /\ Max(page) \in page /\ \A a \in page : a <= Max(page)
             /\ Min(page) \in page /\ \A a \in page : Min(page) <= a
        /\ batch'[p] = batch[p] \cup page
        /\ low'[p] = IF forward[p] /\ page # {} THEN Max(page) ELSE low[p]
        /\ high'[p] = IF forward[p] \/ page = {} THEN high[p] ELSE Min(page)
        /\ forward'[p] = forward[p]
        /\ chunk'[p] = {} /\ last'[p] = 0 /\ phase[p] = "fetch"
        /\ \/ phase'[p] = "fetch" /\ todo'[p] = {}
           \/ phase'[p] = "next" /\ todo'[p] = batch'[p]
        /\ newest' = newest
  BY PageFetched DEF worldVars
<1>2. /\ newest \in Nat /\ low[p] \in Nat /\ high[p] \in Nat
      /\ batch[p] \subseteq Nat /\ batch[p] \subseteq 1..newest /\ Id \subseteq Nat
  BY Bounds DEF Shape, TypeOK, Progress, Id
<1>3. Progress(p)'
  <2>1. batch'[p] \subseteq 1..newest' /\ \A a \in batch'[p] : 0 < a
    BY <1>1, <1>2
  <2> QED  BY <2>1, <1>1 DEF Progress
<1>4. ASSUME NEW a \in batch'[p]
      PROVE  IF forward[p] THEN a <= low'[p] ELSE high'[p] <= a
  <2>1. page \subseteq Nat
    BY <1>2
  <2>2. a \in batch[p] => IF forward[p] THEN a <= low[p] ELSE high[p] <= a
    BY DEF Shape, Gapless
  <2>3. CASE a \in page
    BY <1>1, <2>3
  <2>4. CASE a \in batch[p] /\ page # {} /\ forward[p]
    <3>1. Max(page) \in Nat /\ low[p] < Max(page) /\ a \in Nat /\ a <= low[p]
      BY <1>1, <1>2, <2>1, <2>2, <2>4
    <3> QED  BY <1>1, <1>2, <2>4, <3>1
  <2>5. CASE a \in batch[p] /\ page # {} /\ ~forward[p]
    <3>1. Min(page) \in Nat /\ Min(page) < high[p] /\ a \in Nat /\ high[p] <= a
      BY <1>1, <1>2, <2>1, <2>2, <2>5
    <3> QED  BY <1>1, <1>2, <2>5, <3>1
  <2>6. CASE a \in batch[p] /\ page = {}
    BY <1>1, <2>2, <2>6
  <2> QED  BY <1>1, <2>3, <2>4, <2>5, <2>6
<1>5. ASSUME NEW a \in batch'[p], NEW b \in Id, Between(p, a, b)'
      PROVE  b \in batch'[p]
  <2>0. a \in Nat /\ b \in Nat /\ 1 <= b /\ a <= newest
    <3>1. a \in 1..newest /\ b \in 1..LastId
      BY <1>1, <1>2 DEF Id
    <3> QED  BY <1>2, <3>1, Bounds
  <2>1. CASE page = {}
    BY <1>1, <1>5, <2>1 DEF Shape, Gapless, Between
  <2>2. CASE page # {} /\ forward[p]
    <3>1. a <= b /\ b <= Max(page) /\ Max(page) \in 1..newest /\ Max(page) < high[p]
      BY <1>1, <1>5, <2>2 DEF Between
    <3>2. CASE b <= low[p]
      <4>1. a \notin page
        BY <1>1, <1>2, <2>0, <3>1, <3>2
      <4> QED  BY <1>1, <2>2, <3>1, <3>2, <4>1 DEF Shape, Gapless, Between
    <3>3. CASE low[p] < b
      BY <1>1, <1>2, <2>0, <2>2, <3>1, <3>3
    <3> QED  BY <1>2, <2>0, <3>2, <3>3
  <2>3. CASE page # {} /\ ~forward[p]
    <3>1. Min(page) <= b /\ b <= a /\ Min(page) \in 1..newest /\ low[p] < Min(page)
      BY <1>1, <1>5, <2>3 DEF Between
    <3>2. CASE high[p] <= b
      <4>1. a \notin page
        BY <1>1, <1>2, <2>0, <3>1, <3>2
      <4> QED  BY <1>1, <2>3, <3>1, <3>2, <4>1 DEF Shape, Gapless, Between
    <3>3. CASE b < high[p]
      BY <1>1, <1>2, <2>0, <2>3, <3>1, <3>3
    <3> QED  BY <1>2, <2>0, <3>2, <3>3
  <2> QED  BY <2>1, <2>2, <2>3
<1>6. Gapless(p)'
  BY <1>1, <1>4, <1>5 DEF Gapless
<1>7. \A q \in Process : q # p => Progress(q)' /\ Gapless(q)'
  BY <1>1, ShapeKept DEF FetchPage, Goto, Shape, TypeOK
<1> QED  BY <1>3, <1>6, <1>7, FetchType DEF Shape

\* A run starts with an empty batch.
LEMMA LaunchShape ==
  ASSUME Shape, NEW p \in Process, NEW command \in Kind, NEW from \in 0..LastId,
         NEW to \in Id \cup {LastId + 1}, Launch(p, command, from, to)
  PROVE  Shape'
<1>1. /\ phase[p] = "idle" /\ phase'[p] = "fetch" /\ newest' = newest
      /\ batch'[p] = batch[p] /\ todo'[p] = todo[p] /\ chunk'[p] = chunk[p] /\ last'[p] = last[p]
  BY DEF Launch, Shape, TypeOK, At, Goto, worldVars, workVars
<1>2. batch[p] = {} /\ chunk[p] = {} /\ todo[p] = {} /\ last[p] = 0
  BY <1>1 DEF Shape, Progress
<1>3. Progress(p)' /\ Gapless(p)'
  BY <1>1, <1>2 DEF Progress, Gapless
<1>4. \A q \in Process : q # p => Progress(q)' /\ Gapless(q)'
  BY <1>1, ShapeKept DEF Launch, Goto, Shape, TypeOK, workVars
<1> QED  BY <1>3, <1>4, LaunchType DEF Shape

\* A chunk is what comes first of the rest.
LEMMA NextChunkShape ==
  ASSUME Shape, NEW p \in Process, NextChunk(p)
  PROVE  Shape'
<1>1. PICK part \in SUBSET todo[p] :
        /\ IsFirst(part, todo[p], Concurrency)
        /\ chunk' = [chunk EXCEPT ![p] = part]
        /\ todo' = [todo EXCEPT ![p] = @ \ part]
  BY DEF NextChunk
<1>2. /\ chunk'[p] = part /\ todo'[p] = todo[p] \ part /\ phase[p] = "next" /\ phase'[p] = "work"
      /\ batch' = batch /\ last' = last /\ forward' = forward /\ low' = low /\ high' = high
      /\ newest' = newest
  BY <1>1 DEF NextChunk, Shape, TypeOK, At, Goto, worldVars, fetchVars
<1>3. \A x \in part, y \in todo[p] \ part : x < y
  BY <1>1 DEF IsFirst
<1>4. Progress(p)'
  BY <1>2, <1>3 DEF Shape, Progress
<1>5. Gapless(p)'
  BY <1>2 DEF Shape, Gapless, Between
<1>6. \A q \in Process : q # p => Progress(q)' /\ Gapless(q)'
  BY <1>2, ShapeKept DEF NextChunk, Goto, Shape, TypeOK
<1> QED  BY <1>4, <1>5, <1>6, ChunkType DEF Shape

\* A chunk ends with last at the end of what is contiguous of it; only with the
\* whole chunk contiguous does the run go on.
LEMMA EndChunkShape ==
  ASSUME Shape, NEW p \in Process, EndChunk(p)
  PROVE  Shape'
<1> DEFINE ok == Contiguous(p)
<1>1. /\ phase[p] = "work" /\ chunk'[p] = {} /\ todo'[p] = todo[p] /\ batch' = batch
      /\ forward' = forward /\ low' = low /\ high' = high /\ newest' = newest
      /\ last'[p] = IF ok = {} THEN last[p] ELSE Max(ok)
      /\ (phase'[p] = "next" /\ ok = chunk[p]) \/ phase'[p] = "save"
  BY DEF EndChunk, Shape, TypeOK, At, Goto, worldVars, fetchVars
<1>2. Progress(p) /\ batch[p] \subseteq Nat /\ last[p] \in Nat
  <2>1. batch[p] \subseteq Id /\ last[p] \in 0..LastId
    BY DEF Shape, TypeOK
  <2>2. batch[p] \subseteq Nat
    BY <2>1, Bounds
  <2>3. last[p] \in Nat
    BY <2>1, Bounds
  <2> QED  BY <2>2, <2>3 DEF Shape
<1>3. ok \subseteq chunk[p] /\ chunk[p] \subseteq batch[p]
  BY <1>2 DEF Contiguous, Progress
<1>4. ok # {} => Max(ok) \in ok /\ \A a \in ok : a <= Max(ok)
  BY ContiguousMax DEF Shape
<1>5. Progress(p)'
  <2>1. last'[p] \in batch[p] \cup {0}
    BY <1>1, <1>2, <1>3, <1>4 DEF Progress
  <2>2. ASSUME ok = chunk[p], NEW a \in batch[p] PROVE a <= last'[p] \/ a \in todo[p]
    <3>1. CASE ok = {}
      BY <1>1, <1>2, <2>2, <3>1 DEF Progress
    <3>2. CASE ok # {}
      <4>1. last[p] < Max(ok) /\ Max(ok) \in Nat /\ a \in Nat
        BY <1>1, <1>2, <1>3, <1>4, <3>2 DEF Progress
      <4> QED  BY <1>1, <1>2, <1>4, <2>2, <3>2, <4>1 DEF Progress
    <3> QED  BY <3>1, <3>2
  <2>3. ASSUME NEW a \in todo[p] PROVE last'[p] < a
    BY <1>1, <1>2, <1>3, <1>4 DEF Progress
  <2> QED  BY <1>1, <1>2, <2>1, <2>2, <2>3 DEF Progress
<1>6. Gapless(p)'
  BY <1>1 DEF Shape, Gapless, Between
<1>7. \A q \in Process : q # p => Progress(q)' /\ Gapless(q)'
  BY <1>1, ShapeKept DEF EndChunk, Goto, Shape, TypeOK
<1> QED  BY <1>5, <1>6, <1>7, ChunkType DEF Shape

\* A process that ends leaves nothing of its run.
LEMMA ExitShape ==
  ASSUME Shape, NEW p \in Process, Exit(p), UNCHANGED worldVars,
         cursor' \in 0..LastId, base' \in 0..LastId
  PROVE  Shape'
<1>1. TypeOK'
  BY ExitType DEF Shape, TypeOK, WorldTypeOK, worldVars
<1>2. Progress(p)' /\ Gapless(p)'
  BY DEF Exit, Goto, Shape, TypeOK, Progress, Gapless
<1>3. \A q \in Process : q # p => Progress(q)' /\ Gapless(q)'
  BY ShapeKept DEF Exit, Goto, Shape, TypeOK, worldVars
<1> QED  BY <1>1, <1>2, <1>3 DEF Shape

\* What a save does to the cursor.
LEMMA Saved ==
  ASSUME Shape, NEW p \in Process, Save(p)
  PROVE  /\ cursor' \in 0..LastId /\ base' \in 0..LastId
         /\ cursor <= cursor'
         /\ cursor' # cursor =>
              /\ kind[p] = "check" /\ cursor' = last[p] /\ cursor < last[p] /\ last[p] \in batch[p]
              /\ base' = IF cursor = 0 THEN Min(batch[p]) - 1 ELSE base
         /\ cursor' = cursor => base' = base
         /\ batch[p] # {} => Min(batch[p]) \in batch[p] /\ \A a \in batch[p] : Min(batch[p]) <= a
<1>1. /\ cursor' = IF kind[p] = "check" /\ last[p] # 0 /\ last[p] > cursor THEN last[p] ELSE cursor
      /\ base' = IF cursor = 0 /\ cursor' # 0 THEN Min(batch[p]) - 1 ELSE base
  BY DEF Save, SetCursor
<1>2. batch[p] \subseteq Id /\ Id \subseteq Nat /\ last[p] \in 0..LastId /\ cursor \in 0..LastId
      /\ base \in 0..LastId /\ LastId \in Nat /\ Progress(p)
  BY Bounds DEF Shape, TypeOK
<1>3. cursor' # cursor =>
        /\ kind[p] = "check" /\ cursor' = last[p] /\ cursor < last[p] /\ last[p] \in batch[p]
        /\ base' = IF cursor = 0 THEN Min(batch[p]) - 1 ELSE base
  BY <1>1, <1>2 DEF Progress
<1>4. batch[p] # {} => Min(batch[p]) \in batch[p] /\ \A a \in batch[p] : Min(batch[p]) <= a
  BY <1>2, MinOfIds
<1>5. cursor' \in 0..LastId /\ cursor <= cursor'
  BY <1>1, <1>2
<1>6. base' \in 0..LastId
  <2>1. CASE cursor = 0 /\ cursor' # 0
    <3>1. Min(batch[p]) \in Id
      BY <1>2, <1>3, <1>4, <2>1
    <3> QED  BY <1>1, <1>2, <2>1, <3>1 DEF Id
  <2>2. CASE ~(cursor = 0 /\ cursor' # 0)
    BY <1>1, <1>2, <2>2
  <2> QED  BY <2>1, <2>2
<1> QED  BY <1>1, <1>3, <1>4, <1>5, <1>6

\* Arrivals, retry-failed and the moderators do not touch a run.
LEMMA ElsewhereShape ==
  ASSUME Shape, Arrive \/ \E a \in Id : Elsewhere(a)
  PROVE  Shape'
<1>1. WorldTypeOK' /\ 1..newest \subseteq 1..newest'
  <2>1. CASE Arrive
    BY <2>1, Bounds DEF Arrive, Shape, TypeOK, WorldTypeOK
  <2>2. ASSUME NEW a \in Id, Elsewhere(a) PROVE WorldTypeOK' /\ newest' = newest
    BY <2>2, AccountMoves DEF Elsewhere, Shape
  <2> QED  BY <2>1, <2>2
<1>2. UNCHANGED <<cursorVars, phase, fetchVars, workVars>>
  BY DEF Arrive, Elsewhere
<1>3. TypeOK'
  BY <1>1, <1>2 DEF Shape, TypeOK, WorldTypeOK, cursorVars, fetchVars, workVars
<1>4. \A q \in Process : Progress(q)' /\ Gapless(q)'
  BY <1>1, <1>2, ShapeKept DEF fetchVars, workVars
<1> QED  BY <1>3, <1>4 DEF Shape

\* Shape is inductive, however many processes run.
LEMMA ShapeStep == Shape /\ [Next]_vars => Shape'
<1> SUFFICES ASSUME Shape, [Next]_vars PROVE Shape'
  OBVIOUS
<1>0. cursor \in 0..LastId /\ base \in 0..LastId /\ LastId + 1 \in Id \cup {LastId + 1}
  BY DEF Shape, TypeOK
<1>1. CASE UNCHANGED vars
  BY <1>1 DEF vars, worldVars, cursorVars, fetchVars, workVars, Shape, TypeOK, Progress, Gapless,
     Between
<1>2. ASSUME NEW p \in Process, RunStep(p) \/ Fault(p) PROVE Shape'
  <2>1. CASE Save(p)
    BY <2>1, Saved, ExitShape DEF Save
  <2>2. CASE EmptyBatch(p) \/ Stop(p)
    BY <1>0, <2>2, ExitShape DEF EmptyBatch, Stop, cursorVars
  <2> QED
    BY <1>2, <2>1, <2>2, FetchShape, NextChunkShape, EndChunkShape, CheckStepShape
    DEF RunStep, Fault
<1>3. ASSUME NEW p \in Process, Check(p, "check") \/ Check(p, "dry") PROVE Shape'
  BY <1>0, <1>3, LaunchShape DEF Check, Kind
<1>4. ASSUME NEW p \in Process, Backfill(p) PROVE Shape'
  <2>1. PICK from \in Id, to \in Id \cup {LastId + 1} : Launch(p, "backfill", from, to)
    BY <1>4 DEF Backfill
  <2>2. from \in 0..LastId
    BY Bounds DEF Id
  <2> QED  BY <2>1, <2>2, LaunchShape DEF Kind
<1> QED  BY <1>1, <1>2, <1>3, <1>4, ElsewhereShape DEF Next

\* However many runs overlap, every variable keeps its type: no ID a run saves or
\* pages from is out of range.
THEOREM TypeCorrect == Spec => []TypeOK
<1>1. Shape => TypeOK
  BY DEF Shape
<1> QED  BY <1>1, ShapeInit, ShapeStep, PTL DEF Spec

\* However many runs overlap and however many accounts arrive in between: for every
\* page size, the pages of a batch leave no account out between them, in either
\* direction (fetch_remote_accounts).
THEOREM NoGapInBatchCorrect == Spec => []NoGapInBatch
<1>1. Shape => NoGapInBatch
  <2> SUFFICES ASSUME Shape, NEW p \in Process, NEW a \in batch[p], NEW b \in 1..newest, b < a,
                      NEW c \in batch[p], ~(b < c)
               PROVE  b \in batch[p]
    BY DEF NoGapInBatch
  <2>1. b \in Id /\ low[p] \in Nat /\ high[p] \in Nat /\ {a, b, c} \subseteq Nat
    <3>1. batch[p] \subseteq Id /\ Id \subseteq Nat
      BY Bounds DEF Shape, TypeOK
    <3>2. b \in Id /\ low[p] \in Nat /\ high[p] \in Nat
      BY Bounds DEF Shape, TypeOK, Id
    <3> QED  BY <3>1, <3>2
  <2>2. CASE forward[p]
    <3>1. a <= low[p]
      BY <2>2 DEF Shape, Gapless
    <3>2. c <= b /\ b <= low[p]
      BY <2>1, <3>1
    <3>3. Between(p, c, b)
      BY <2>2, <3>2 DEF Between
    <3> QED  BY <2>1, <3>3 DEF Shape, Gapless
  <2>3. CASE ~forward[p]
    <3>1. high[p] <= c
      BY <2>3 DEF Shape, Gapless
    <3>2. high[p] <= b /\ b <= a
      BY <2>1, <3>1
    <3>3. Between(p, a, b)
      BY <2>3, <3>2 DEF Between
    <3> QED  BY <2>1, <3>3 DEF Shape, Gapless
  <2> QED  BY <2>2, <2>3
<1> QED  BY <1>1, ShapeInit, ShapeStep, PTL DEF Spec

\* However many runs overlap, none moves the cursor back: set_cursor's comparison
\* is enough for that without the run lease.
THEOREM CursorNeverRegressesCorrect == Spec => CursorNeverRegresses
<1>1. Shape /\ [Next]_vars => [cursor' >= cursor]_vars
  <2> SUFFICES ASSUME Shape, Next PROVE cursor' >= cursor
    OBVIOUS
  <2>1. cursor \in Nat
    BY Bounds DEF Shape, TypeOK
  <2>2. ASSUME NEW p \in Process, Save(p) PROVE cursor' >= cursor
    BY <2>1, <2>2, Saved, Bounds
  <2>3. CASE cursor' = cursor
    BY <2>1, <2>3
  <2> QED
    BY <2>2, <2>3
    DEF Next, Arrive, Elsewhere, RunStep, FetchPage, NextChunk, EndChunk, EmptyBatch, CheckStep,
        Skip, BeginCheck, RecordPending, FinishCheck, NotWorldOf, Fault, Stop, CheckFails, Check,
        Backfill, Launch, cursorVars
<1> QED  BY <1>1, ShapeInit, ShapeStep, PTL DEF Spec, CursorNeverRegresses
-----------------------------------------------------------------------------
(* The cursor, for one check at a time *)

\* What a check has done is on record.
Done(p) ==
  kind[p] = "check" =>
    /\ \A a \in chunk[p] : result[p][a] = "ok" => Accounted(a)
    /\ \A a \in batch[p] : a <= last[p] => Accounted(a)

\* Where a check's batch begins: right above the cursor, or, without a cursor,
\* wherever the pages going down have come to.
Window(p) ==
  phase[p] # "idle" /\ kind[p] = "check" =>
    \/ /\ forward[p]
       /\ cursor # 0 /\ cursor <= low[p]
       /\ \A a \in Id : cursor < a /\ a <= low[p] => a \in batch[p]
       /\ \A a \in batch[p] : cursor < a
    \/ ~forward[p] /\ cursor = 0 /\ low[p] = 0

CursorParts ==
  /\ NothingSkipped
  /\ pending \subseteq queued
  /\ \A p \in Process : Done(p) /\ Window(p)

Inv == Shape /\ CursorParts

\* One check at a time, beside any number of dry runs: what the run lease is for
\* (backfills hold it too, but keep away from the cursor).
Checks(p) == phase[p] # "idle" /\ kind[p] = "check"
OneCheck == \A p, q \in Process : Checks(p) /\ Checks(q) => p = q

\* At the start nothing has been passed.
LEMMA CursorInit == Init => CursorParts
  BY Bounds DEF Init, CursorParts, NothingSkipped, Done, Window, Id

\* A step that keeps the world, or only adds to it, keeps what it does not touch.
LEMMA WorldKeeps ==
  ASSUME Inv, NEW a \in Id,
         Settle(a) \/ Owe(a) \/ FailJob(a) \/ UNCHANGED worldVars,
         UNCHANGED <<cursorVars, phase, fetchVars, todo, chunk, last>>
  PROVE  /\ NothingSkipped' /\ (pending \subseteq queued)'
         /\ \A p \in Process : Window(p)'
         /\ \A p \in Process : kind[p] = "check" =>
              \A b \in batch[p] : b <= last[p] => Accounted(b)'
<1>1. \A b \in Id : Accounted(b) => Accounted(b)'
  BY AccountMoves DEF Inv, Shape
<1>2. NothingSkipped'
  BY <1>1 DEF Inv, CursorParts, NothingSkipped, cursorVars
<1>3. \A p \in Process : Window(p)'
  BY DEF Inv, CursorParts, Window, cursorVars, fetchVars
<1>4. \A p \in Process : batch[p] \subseteq Id
  BY DEF Inv, Shape, TypeOK
<1>5. (pending \subseteq queued)'
  BY DEF Inv, CursorParts, Settle, Owe, FailJob, worldVars
<1> QED  BY <1>1, <1>2, <1>3, <1>4, <1>5 DEF Inv, CursorParts, Done

\* A step of check_one preserves the invariant: ok is only returned for an
\* account that is accounted for.
LEMMA CheckStepCursor ==
  ASSUME Inv, NEW p \in Process, NEW a \in Id, CheckStep(p, a) \/ CheckFails(p, a)
  PROVE  CursorParts'
<1>1. UNCHANGED NotWorldOf
  BY DEF CheckStep, Skip, BeginCheck, RecordPending, FinishCheck, CheckFails
<1>2. Settle(a) \/ Owe(a) \/ FailJob(a) \/ UNCHANGED worldVars
  BY DEF CheckStep, Skip, BeginCheck, RecordPending, FinishCheck, CheckFails
<1>3. /\ NothingSkipped' /\ (pending \subseteq queued)'
      /\ \A q \in Process : Window(q)'
      /\ \A q \in Process : kind[q] = "check" =>
           \A b \in batch[q] : b <= last[q] => Accounted(b)'
  BY <1>1, <1>2, WorldKeeps DEF NotWorldOf
<1>4. ASSUME NEW q \in Process, kind[q] = "check", NEW b \in chunk[q], result'[q][b] = "ok"
      PROVE  Accounted(b)'
  <2>1. b \in Id /\ (Accounted(b) => Accounted(b)')
    BY <1>2, <1>4, AccountMoves DEF Inv, Shape, TypeOK
  <2>2. CASE result[q][b] = "ok"
    BY <1>4, <2>1, <2>2 DEF Inv, CursorParts, Done
  <2>3. CASE result[q][b] # "ok"
    <3>1. q = p /\ b = a /\ (Skip(p, a) \/ FinishCheck(p, a))
      BY <1>4, <2>1, <2>3 DEF CheckStep, Skip, BeginCheck, RecordPending, FinishCheck, CheckFails,
         Returns, Inv, Shape, TypeOK
    <3>2. CASE Skip(p, a)
      <4>1. a \in System \cup settled \cup queued
        BY <1>4, <3>1, <3>2 DEF Skip, NothingToDo, Persists, Inv, CursorParts
      <4> QED  BY <3>1, <3>2, <4>1 DEF Skip, worldVars, Accounted
    <3>3. CASE FinishCheck(p, a)
      BY <1>4, <3>1, <3>3 DEF FinishCheck, Persists, Settle, Accounted
    <3> QED  BY <3>1, <3>2, <3>3
  <2> QED  BY <2>2, <2>3
<1>5. \A q \in Process : Done(q)'
  BY <1>1, <1>3, <1>4 DEF Done, NotWorldOf, fetchVars
<1> QED  BY <1>3, <1>5 DEF CursorParts

\* What a step of one process leaves to the others.
LEMMA OthersKeep ==
  ASSUME Inv, NEW p \in Process, NEW q \in Process, q # p,
         UNCHANGED <<worldVars, cursorVars>>,
         phase'[q] = phase[q], kind'[q] = kind[q], forward'[q] = forward[q],
         low'[q] = low[q], high'[q] = high[q], batch'[q] = batch[q],
         chunk'[q] = chunk[q], result'[q] = result[q], last'[q] = last[q]
  PROVE  Done(q)' /\ Window(q)'
  BY DEF Inv, CursorParts, Done, Window, Accounted, worldVars, cursorVars

\* A step that leaves the world and the cursor alone leaves what has been passed.
LEMMA StoreKept ==
  ASSUME Inv, UNCHANGED <<worldVars, cursorVars>>
  PROVE  NothingSkipped' /\ (pending \subseteq queued)'
  BY DEF Inv, CursorParts, NothingSkipped, Accounted, worldVars, cursorVars

\* A page reaches on from where the last one ended.
LEMMA FetchCursor ==
  ASSUME Inv, NEW p \in Process, FetchPage(p)
  PROVE  CursorParts'
<1>1. PICK page \in SUBSET (Id \cap 1..newest) :
        /\ \A x \in page : low[p] < x /\ x < high[p]
        /\ \A y \in 1..newest : low[p] < y /\ y < high[p] /\ y \notin page =>
             \A x \in page : IF forward[p] THEN x < y ELSE y < x
        /\ page # {} => Max(page) \in page /\ \A a \in page : a <= Max(page)
        /\ batch'[p] = batch[p] \cup page
        /\ low'[p] = IF forward[p] /\ page # {} THEN Max(page) ELSE low[p]
        /\ kind'[p] = kind[p] /\ forward'[p] = forward[p]
        /\ chunk'[p] = {} /\ last'[p] = 0 /\ phase[p] = "fetch"
        /\ UNCHANGED <<worldVars, cursorVars>>
  BY PageFetched DEF Inv
<1>2. /\ newest \in Nat /\ cursor \in Nat /\ low[p] \in Nat /\ high[p] \in Nat
      /\ batch[p] \subseteq Nat /\ page \subseteq Nat /\ Id \subseteq Nat
  BY Bounds DEF Inv, Shape, TypeOK, Id
<1>3. Done(p)'
  <2>1. \A a \in batch'[p] : 0 < a
    <3>1. batch'[p] \subseteq Id
      BY <1>1 DEF Inv, Shape, TypeOK
    <3> QED  BY <3>1, Bounds DEF Id
  <2> QED  BY <1>1, <1>2, <2>1 DEF Done
<1>4. Window(p)'
  <2> SUFFICES ASSUME kind[p] = "check" PROVE Window(p)'
    BY <1>1 DEF Window
  <2>1. CASE ~(page # {} /\ forward[p])
    BY <1>1, <2>1 DEF Inv, CursorParts, Window, cursorVars
  <2>2. CASE page # {} /\ forward[p]
    <3>1. /\ cursor # 0 /\ cursor <= low[p]
          /\ \A a \in Id : cursor < a /\ a <= low[p] => a \in batch[p]
          /\ \A a \in batch[p] : cursor < a
      BY <1>1, <2>2 DEF Inv, CursorParts, Window
    <3>2. low'[p] = Max(page) /\ Max(page) \in page /\ low[p] < Max(page)
          /\ Max(page) <= newest /\ Max(page) < high[p] /\ Max(page) \in Nat
      <4>1. Max(page) \in page
        BY <1>1, <2>2
      <4>2. Max(page) \in 1..newest /\ Max(page) \in Nat
        BY <1>2, <4>1
      <4> QED  BY <1>1, <1>2, <2>2, <4>1, <4>2
    <3>3. ASSUME NEW a \in Id, cursor < a, a <= Max(page) PROVE a \in batch'[p]
      <4>1. CASE a <= low[p]
        BY <1>1, <3>1, <3>3, <4>1
      <4>2. CASE low[p] < a
        <5>1. a \in 1..newest /\ a < high[p]
          BY <1>2, <3>2, <3>3 DEF Id
        <5>2. a \in page
          BY <1>1, <1>2, <2>2, <3>2, <3>3, <4>2, <5>1
        <5> QED  BY <1>1, <5>2
      <4> QED  BY <1>2, <4>1, <4>2
    <3>4. ASSUME NEW a \in batch'[p] PROVE cursor < a
      BY <1>1, <1>2, <3>1, <3>4
    <3>5. cursor' # 0 /\ cursor' <= low'[p] /\ cursor' = cursor
      BY <1>1, <1>2, <3>1, <3>2 DEF cursorVars
    <3> QED  BY <1>1, <2>2, <3>2, <3>3, <3>4, <3>5 DEF Window
  <2> QED  BY <2>1, <2>2
<1>5. \A q \in Process : q # p => Done(q)' /\ Window(q)'
  BY OthersKeep DEF FetchPage, Goto, Inv, Shape, TypeOK
<1> QED  BY <1>1, <1>3, <1>4, <1>5, StoreKept DEF CursorParts

\* A check starts right above the cursor.
LEMMA LaunchCursor ==
  ASSUME Inv, NEW p \in Process, NEW command \in Kind, NEW from \in 0..LastId,
         NEW to \in Id \cup {LastId + 1}, Launch(p, command, from, to),
         command = "check" => from = cursor
  PROVE  CursorParts'
<1>1. cursor \in Nat
  BY Bounds DEF Inv, Shape, TypeOK
<1>2. /\ phase[p] = "idle" /\ phase'[p] = "fetch" /\ kind'[p] = command
      /\ forward'[p] = (from # 0) /\ low'[p] = from
      /\ batch'[p] = batch[p] /\ chunk'[p] = chunk[p] /\ last'[p] = last[p]
      /\ UNCHANGED <<worldVars, cursorVars>>
  BY DEF Launch, Inv, Shape, TypeOK, At, Goto, workVars
<1>3. batch[p] = {} /\ chunk[p] = {}
  BY <1>2 DEF Inv, Shape, Progress
<1>4. Done(p)'
  BY <1>2, <1>3 DEF Done
<1>5. Window(p)'
  <2>1. CASE cursor = 0
    BY <1>2, <1>3, <2>1 DEF Window, cursorVars
  <2>2. CASE cursor # 0
    <3>1. \A a \in Id : ~(cursor < a /\ a <= cursor)
      BY <1>1, Bounds
    <3>2. command = "check" => forward'[p] /\ low'[p] = cursor
      BY <1>2, <2>2
    <3> QED  BY <1>1, <1>2, <1>3, <2>2, <3>1, <3>2 DEF Window, cursorVars
  <2> QED  BY <2>1, <2>2
<1>6. \A q \in Process : q # p => Done(q)' /\ Window(q)'
  BY OthersKeep DEF Launch, Goto, Inv, Shape, TypeOK, workVars
<1> QED  BY <1>2, <1>4, <1>5, <1>6, StoreKept DEF CursorParts

\* A chunk starts with no results.
LEMMA NextChunkCursor ==
  ASSUME Inv, NEW p \in Process, NextChunk(p)
  PROVE  CursorParts'
<1>1. /\ chunk'[p] \subseteq Id /\ result'[p] = NoResults
      /\ UNCHANGED <<worldVars, cursorVars, fetchVars, last>> /\ phase[p] = "next"
  BY DEF NextChunk, Inv, Shape, TypeOK, At
<1>2. Done(p)'
  <2>1. \A a \in chunk'[p] : result'[p][a] # "ok"
    BY <1>1 DEF NoResults
  <2> QED
    BY <1>1, <2>1 DEF Inv, CursorParts, Done, Accounted, worldVars, cursorVars, fetchVars
<1>3. Window(p)'
  BY <1>1 DEF Inv, CursorParts, Window, cursorVars, fetchVars
<1>4. \A q \in Process : q # p => Done(q)' /\ Window(q)'
  BY OthersKeep DEF NextChunk, Goto, Inv, Shape, TypeOK, fetchVars
<1> QED  BY <1>1, <1>2, <1>3, <1>4, StoreKept DEF CursorParts

\* What last moves over at the end of a chunk is done.
LEMMA EndChunkCursor ==
  ASSUME Inv, NEW p \in Process, EndChunk(p)
  PROVE  CursorParts'
<1> DEFINE ok == Contiguous(p)
<1>1. /\ phase[p] = "work" /\ chunk'[p] = {}
      /\ last'[p] = IF ok = {} THEN last[p] ELSE Max(ok)
      /\ (phase'[p] = "next" /\ ok = chunk[p]) \/ phase'[p] = "save"
      /\ UNCHANGED <<worldVars, cursorVars, fetchVars, todo>>
  BY DEF EndChunk, Inv, Shape, TypeOK, At, Goto
<1>2. Progress(p) /\ batch[p] \subseteq Nat
  <2>1. batch[p] \subseteq Id
    BY DEF Inv, Shape, TypeOK
  <2> QED  BY <2>1, Bounds DEF Inv, Shape
<1>3. last[p] \in Nat
  BY Bounds DEF Inv, Shape, TypeOK
<1>4. ok \subseteq chunk[p] /\ chunk[p] \subseteq batch[p]
  BY <1>2 DEF Contiguous, Progress
<1>5. ok # {} => Max(ok) \in ok
  BY ContiguousMax DEF Inv, Shape
<1>6. Done(p)'
  <2> SUFFICES ASSUME kind[p] = "check", NEW a \in batch[p], a <= last'[p] PROVE Accounted(a)
    BY <1>1 DEF Done, Accounted, worldVars, fetchVars
  <2>1. CASE a <= last[p]
    BY <2>1 DEF Inv, CursorParts, Done
  <2>2. CASE ~(a <= last[p])
    <3>1. ok # {} /\ a <= Max(ok) /\ Max(ok) \in chunk[p] /\ Max(ok) \in ok
      BY <1>1, <1>4, <1>5, <2>2
    <3>2. a \in chunk[p]
      BY <1>1, <1>2, <1>3, <1>4, <2>2, <3>1 DEF Progress
    <3>3. result[p][a] = "ok"
      BY <3>1, <3>2 DEF Contiguous
    <3> QED  BY <3>2, <3>3 DEF Inv, CursorParts, Done
  <2> QED  BY <2>1, <2>2
<1>7. Window(p)'
  BY <1>1 DEF Inv, CursorParts, Window, cursorVars, fetchVars
<1>8. \A q \in Process : q # p => Done(q)' /\ Window(q)'
  BY OthersKeep DEF EndChunk, Goto, Inv, Shape, TypeOK, fetchVars
<1> QED  BY <1>1, <1>6, <1>7, <1>8, StoreKept DEF CursorParts

\* What a run that ends leaves of itself.
LEMMA ExitKeeps ==
  ASSUME Inv, NEW p \in Process, Exit(p)
  PROVE  Done(p)' /\ Window(p)'
<1>1. phase'[p] = "idle" /\ batch'[p] = {} /\ chunk'[p] = {}
  BY DEF Exit, Goto, Inv, Shape, TypeOK
<1> QED  BY <1>1 DEF Done, Window

\* A run that ends without saving.
LEMMA ExitCursor ==
  ASSUME Inv, NEW p \in Process, Exit(p), UNCHANGED <<worldVars, cursorVars>>
  PROVE  CursorParts'
<1>1. \A q \in Process : q # p => Done(q)' /\ Window(q)'
  BY OthersKeep DEF Exit, Goto, Inv, Shape, TypeOK
<1> QED  BY <1>1, ExitKeeps, StoreKept DEF CursorParts

\* The cursor moves over accounts that are done, and there is no other check
\* whose batch would now begin elsewhere.
LEMMA SaveCursor ==
  ASSUME Inv, OneCheck, NEW p \in Process, Save(p)
  PROVE  CursorParts'
<1>1. phase[p] = "save" /\ Exit(p) /\ UNCHANGED worldVars
  BY DEF Save, At
<1>2. /\ cursor' # cursor =>
           /\ kind[p] = "check" /\ cursor' = last[p] /\ cursor < last[p] /\ last[p] \in batch[p]
           /\ base' = IF cursor = 0 THEN Min(batch[p]) - 1 ELSE base
      /\ cursor' = cursor => base' = base
      /\ batch[p] # {} => Min(batch[p]) \in batch[p] /\ \A a \in batch[p] : Min(batch[p]) <= a
  BY Saved DEF Inv
<1>3. batch[p] \subseteq Id /\ Id \subseteq Nat /\ last[p] \in Nat /\ cursor \in Nat
      /\ low[p] \in Nat /\ high[p] \in Nat
  BY Bounds DEF Inv, Shape, TypeOK, Id
<1>4. Done(p) /\ Window(p) /\ Gapless(p)
  BY DEF Inv, Shape, CursorParts
<1>5. ASSUME NEW q \in Process, q # p PROVE Done(q)' /\ Window(q)'
  <2>1. /\ phase'[q] = phase[q] /\ kind'[q] = kind[q] /\ forward'[q] = forward[q]
        /\ low'[q] = low[q] /\ high'[q] = high[q] /\ batch'[q] = batch[q]
        /\ chunk'[q] = chunk[q] /\ result'[q] = result[q] /\ last'[q] = last[q]
    BY <1>1, <1>5 DEF Exit, Goto, Inv, Shape, TypeOK
  <2>2. CASE cursor' = cursor
    BY <1>1, <1>2, <1>5, <2>1, <2>2, OthersKeep DEF cursorVars
  <2>3. CASE cursor' # cursor
    <3>1. Checks(p) /\ ~Checks(q)
      BY <1>1, <1>2, <1>5, <2>3 DEF Checks, OneCheck
    <3> QED  BY <1>1, <2>1, <3>1 DEF Inv, CursorParts, Done, Window, Checks, Accounted, worldVars
  <2> QED  BY <2>2, <2>3
<1>6. ASSUME NEW a \in Id, base' < a, a <= cursor' PROVE Accounted(a)
  <2>1. CASE cursor' = cursor
    BY <1>2, <1>6, <2>1 DEF Inv, CursorParts, NothingSkipped
  <2>2. CASE cursor' # cursor
    <3>1. \A b \in batch[p] : b <= last[p] => Accounted(b)
      BY <1>2, <1>4, <2>2 DEF Done
    <3>2. CASE cursor # 0
      <4>1. /\ \A b \in Id : cursor < b /\ b <= low[p] => b \in batch[p]
            /\ last[p] <= low[p]
        BY <1>1, <1>2, <1>4, <2>2, <3>2 DEF Window, Gapless
      <4>2. CASE a <= cursor
        BY <1>2, <1>6, <2>2, <3>2, <4>2 DEF Inv, CursorParts, NothingSkipped
      <4>3. CASE cursor < a
        <5>1. a <= low[p]
          BY <1>2, <1>3, <1>6, <2>2, <4>1
        <5> QED  BY <1>2, <1>6, <2>2, <3>1, <4>1, <4>3, <5>1
      <4> QED  BY <1>3, <4>2, <4>3
    <3>3. CASE cursor = 0
      <4>1. ~forward[p]
        BY <1>1, <1>2, <1>4, <2>2, <3>3 DEF Window
      <4>2. Min(batch[p]) \in batch[p] /\ base' = Min(batch[p]) - 1 /\ Min(batch[p]) \in Nat
        BY <1>2, <1>3, <2>2, <3>3
      <4>3. Min(batch[p]) <= a /\ a \in Nat
        <5>1. a \in Nat
          BY <1>3
        <5> QED  BY <1>6, <4>2, <5>1
      <4>4. high[p] <= Min(batch[p])
        BY <4>1, <4>2, <1>4 DEF Gapless
      <4>5. Between(p, last[p], a)
        BY <1>2, <1>3, <1>6, <2>2, <4>1, <4>2, <4>3, <4>4 DEF Between
      <4>6. a \in batch[p]
        BY <1>2, <1>4, <2>2, <4>5 DEF Gapless
      <4> QED  BY <1>2, <1>6, <2>2, <3>1, <4>6
    <3> QED  BY <3>2, <3>3
  <2> QED  BY <2>1, <2>2
<1>7. NothingSkipped' /\ (pending \subseteq queued)'
  BY <1>1, <1>6 DEF Inv, CursorParts, NothingSkipped, Accounted, worldVars
<1> QED  BY <1>1, <1>5, <1>7, ExitKeeps DEF CursorParts

\* Arrivals, retry-failed and the moderators take no account out of account.
LEMMA ElsewhereCursor ==
  ASSUME Inv, Arrive \/ \E a \in Id : Elsewhere(a)
  PROVE  CursorParts'
<1>1. CASE Arrive
  BY <1>1 DEF Arrive, Inv, CursorParts, NothingSkipped, Done, Window, Accounted, cursorVars,
              fetchVars, workVars
<1>2. ASSUME NEW a \in Id, Elsewhere(a) PROVE CursorParts'
  <2>1. Settle(a) \/ Owe(a) \/ FailJob(a)
    BY <1>2 DEF Elsewhere
  <2>2. UNCHANGED <<cursorVars, phase, fetchVars, todo, chunk, last>> /\ result' = result
    BY <1>2 DEF Elsewhere, workVars
  <2>3. \A b \in Id : Accounted(b) => Accounted(b)'
    BY <2>1, AccountMoves DEF Inv, Shape
  <2>4. /\ NothingSkipped' /\ (pending \subseteq queued)'
        /\ \A q \in Process : Window(q)'
        /\ \A q \in Process : kind[q] = "check" =>
             \A b \in batch[q] : b <= last[q] => Accounted(b)'
    BY <2>1, <2>2, WorldKeeps
  <2>5. \A q \in Process : chunk[q] \subseteq Id
    BY DEF Inv, Shape, TypeOK
  <2>6. \A q \in Process : Done(q)'
    BY <2>2, <2>3, <2>4, <2>5 DEF Inv, CursorParts, Done, fetchVars
  <2> QED  BY <2>4, <2>6 DEF CursorParts
<1> QED  BY <1>1, <1>2

\* The invariant is inductive as long as there is one check at a time.
LEMMA InvStep == Inv /\ OneCheck /\ [Next]_vars => Inv'
<1> SUFFICES ASSUME Inv, OneCheck, [Next]_vars PROVE CursorParts'
  BY ShapeStep DEF Inv
<1>0. cursor \in 0..LastId /\ LastId + 1 \in Id \cup {LastId + 1}
  BY DEF Inv, Shape, TypeOK
<1>1. CASE UNCHANGED vars
  BY <1>1 DEF vars, worldVars, cursorVars, fetchVars, workVars, Inv, CursorParts, NothingSkipped,
     Accounted, Done, Window
<1>2. ASSUME NEW p \in Process, RunStep(p) \/ Fault(p) PROVE CursorParts'
  <2>1. CASE EmptyBatch(p) \/ Stop(p)
    BY <2>1, ExitCursor DEF EmptyBatch, Stop
  <2> QED
    BY <1>2, <2>1, FetchCursor, NextChunkCursor, EndChunkCursor, SaveCursor, CheckStepCursor
    DEF RunStep, Fault
<1>3. ASSUME NEW p \in Process, Check(p, "check") \/ Check(p, "dry") PROVE CursorParts'
  BY <1>0, <1>3, LaunchCursor DEF Check, Kind
<1>4. ASSUME NEW p \in Process, Backfill(p) PROVE CursorParts'
  <2>1. PICK from \in Id, to \in Id \cup {LastId + 1} : Launch(p, "backfill", from, to)
    BY <1>4 DEF Backfill
  <2>2. from \in 0..LastId
    BY Bounds DEF Id
  <2> QED  BY <2>1, <2>2, LaunchCursor DEF Kind
<1> QED  BY <1>1, <1>2, <1>3, <1>4, ElsewhereCursor DEF Next

\* With one check at a time (RunLease), the cursor never moves past an account that
\* is not accounted for: for every page size, chunk size and number of accounts, and
\* whatever fails (cli.rs check, fetch_remote_accounts, process_accounts).
THEOREM NothingSkippedCorrect == Spec /\ []OneCheck => []NothingSkipped
<1>1. Init => Inv
  BY ShapeInit, CursorInit DEF Inv
<1>2. Inv => NothingSkipped
  BY DEF Inv, CursorParts
<1> QED  BY <1>1, <1>2, InvStep, PTL DEF Spec
=============================================================================
