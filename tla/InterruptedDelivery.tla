------------------------- MODULE InterruptedDelivery ------------------------
(***************************************************************************)
(* AccountJobs with a history of the deliveries a crash interrupted, to ask *)
(* what the README promises of them: the account stays pending, only       *)
(* retry-failed takes it up, and from the stored verdict, without asking   *)
(* the classifier again.                                                   *)
(***************************************************************************)
EXTENDS AccountJobs

VARIABLE interrupted    \* accounts whose delivery was cut off and not re-sent

Interrupts(t) == Crash(t) /\ pc[t] \in {"send", "release"} /\ IsPending(t)

\* The promise is kept, moot, or a further failure of its own explains the rest.
Resent(t) == At(t, "claim") /\ pc'[t] = "send"
Released(a) ==
  \/ Resolved(a)'
  \/ \E t \in Task : Acct[t] = a /\ (Resent(t) \/ (Outage(t) /\ ~Interrupts(t)))

HInit == Init /\ interrupted = {}

HNext ==
  /\ Next
  /\ interrupted' =
       {Acct[t] : t \in {u \in Task : Interrupts(u)}}
         \cup {a \in interrupted : ~Released(a)}

HSpec == HInit /\ [][HNext]_<<vars, interrupted>>

-----------------------------------------------------------------------------
\* A delivery interrupted after it starts is re-sent from the persisted verdict:
\* the classifier is not asked about the account in between (README.md, the
\* retry queue and the operator commands).
InterruptedNotRejudged ==
  \A t \in Task : At(t, "judge") => Acct[t] \notin interrupted
=============================================================================
