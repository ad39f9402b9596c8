----------------------------- MODULE ResumedRun -----------------------------
(***************************************************************************)
(* CheckRun with a history of where the last check run stopped at a        *)
(* failure, to ask what the README says of the run after it.               *)
(***************************************************************************)
EXTENDS CheckRun

VARIABLE stopped        \* the account a check run stopped at; 0 for none

Failures(p) == chunk[p] \ Contiguous(p)
StopsAtFailure(p) == EndChunk(p) /\ kind[p] = "check" /\ Failures(p) # {}

HInit == Init /\ stopped = 0

HNext ==
  /\ Next
  /\ stopped' =
       IF \E p \in Process : StopsAtFailure(p)
       THEN Min(UNION {Failures(p) : p \in {q \in Process : StopsAtFailure(q)}})
       ELSE IF stopped <= cursor' THEN 0 ELSE stopped

HSpec == HInit /\ [][HNext]_<<vars, stopped>>

-----------------------------------------------------------------------------
\* After a failure that stopped a run, "the next run resumes from the same
\* account" (README.md, failures): a check run does not begin beyond it.
ResumesAtFailure ==
  \A p \in Process :
    kind[p] = "check" /\ phase[p] \in {"next", "work"} /\ batch[p] # {} /\ stopped # 0
      => \E a \in batch[p] : a <= stopped
=============================================================================
