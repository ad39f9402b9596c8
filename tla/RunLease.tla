------------------------------ MODULE RunLease ------------------------------
(***************************************************************************)
(* exclusive_run (src/src/cli.rs) and the run lease in Redis               *)
(* (src/src/redis.rs): checks, retries and backfills, each a process of    *)
(* its own, that take the lease, renew it while they work and give it      *)
(* back.  Time is counted in ticks.  A call is sent, takes effect in Redis *)
(* and is answered in separate steps.                                      *)
(***************************************************************************)
EXTENDS Naturals

CONSTANTS
  Process,
  Nobody,       \* no lease key
  Orphan,       \* the token of a process that is gone, or never learned it
  LeaseTicks,   \* RUN_LEASE_SECS
  RenewEvery,   \* the sleep between renewals
  RenewTimeout, \* the timeout of one renewal
  ReplyTicks    \* the Redis client's own response timeout

ASSUME HolderAssumption ==
  Nobody \notin Process /\ Orphan \notin Process /\ Nobody # Orphan
ASSUME TickAssumption ==
  /\ LeaseTicks \in Nat /\ RenewEvery \in Nat /\ RenewTimeout \in Nat /\ ReplyTicks \in Nat
  /\ ReplyTicks <= RenewTimeout
  /\ RenewEvery + 2 * RenewTimeout < LeaseTicks

VARIABLES
  holder,       \* run_lease: the token it holds
  ttl,          \* ticks until Redis drops it; 0 without a key
  phase,        \* where each process is
  timer,        \* ticks since the process entered that phase
  stalled       \* history: a process was suspended, or its host was, past a timer

leaseVars == <<holder, ttl>>
procVars == <<phase, timer>>
vars == <<leaseVars, procVars, stalled>>

\* "granted": SET NX took effect, the answer is under way.
\* "running": the operation runs, renewal sleeps.
\* "renewing", "renewed", "refused": renewal sent, done, found the lease lost.
\* "aborting", "aborted": renewal ended the select; the release is sent, done.
\* "finishing", "finished": the same after the operation returned.
Renewal == {"renewing", "renewed", "refused"}
Phase == {"off", "granted", "running", "aborting", "aborted", "finishing", "finished"} \cup Renewal

LeaseTypeOK ==
  /\ holder \in Process \cup {Nobody, Orphan}
  /\ ttl \in 0..LeaseTicks
  /\ phase \in [Process -> Phase]
  /\ timer \in [Process -> 0..RenewEvery + RenewTimeout + 1]
  /\ holder = Nobody <=> ttl = 0

TypeOK == LeaseTypeOK /\ stalled \in BOOLEAN

Init ==
  /\ holder = Nobody
  /\ ttl = 0
  /\ phase = [p \in Process |-> "off"]
  /\ timer = [p \in Process |-> 0]
  /\ stalled = FALSE

-----------------------------------------------------------------------------
At(p, place) == phase[p] = place

Enter(p, place) ==
  /\ phase' = [phase EXCEPT ![p] = place]
  /\ timer' = [timer EXCEPT ![p] = 0]

\* The timeout of a renewal runs through all of its phases.
Move(p, place) == phase' = [phase EXCEPT ![p] = place] /\ UNCHANGED timer

\* Redis: SET NX EX, compare-and-EXPIRE, compare-and-DEL.
\* Mutant of SetLease: NX without EX.
SetLeaseForever(token) ==
  /\ holder = Nobody
  /\ holder' = token
  /\ UNCHANGED ttl

SetLease(token) ==
  /\ holder = Nobody
  /\ holder' = token
  /\ ttl' = LeaseTicks

\* Mutant of Extend: the owner is checked, the EXPIRE forgotten.
ExtendNothing(p) == UNCHANGED leaseVars

Extend(p) ==
  /\ ttl' = IF holder = p THEN LeaseTicks ELSE ttl
  /\ UNCHANGED holder

\* Mutant of Delete: a plain DEL.
DeleteAnyones(p) == holder' = Nobody /\ ttl' = 0

Delete(p) ==
  /\ holder' = IF holder = p THEN Nobody ELSE holder
  /\ ttl' = IF holder = p THEN 0 ELSE ttl

\* p no longer answers to its token.
Disown(p) ==
  /\ holder' = IF holder = p THEN Orphan ELSE holder
  /\ UNCHANGED ttl

-----------------------------------------------------------------------------
Acquire(p) == At(p, "off") /\ SetLease(p) /\ Enter(p, "granted")

\* The answer never comes: the command ends in an error, the key stays.
AcquireLost(p) == At(p, "off") /\ SetLease(Orphan) /\ UNCHANGED procVars

Begin(p) == At(p, "granted") /\ Enter(p, "running") /\ UNCHANGED leaseVars

Renew(p) ==
  /\ At(p, "running")
  /\ timer[p] >= RenewEvery
  /\ Enter(p, "renewing")
  /\ UNCHANGED leaseVars

RenewReachesRedis(p) ==
  /\ At(p, "renewing")
  /\ Extend(p)
  /\ Move(p, IF holder = p THEN "renewed" ELSE "refused")

Renewed(p) == At(p, "renewed") /\ Enter(p, "running") /\ UNCHANGED leaseVars

\* Lost, an error, or the timeout: the select ends and the operation is no
\* longer polled.  The account tasks it spawned still are.
Abort(p) == phase[p] \in Renewal /\ Enter(p, "aborting") /\ UNCHANGED leaseVars

\* The select ends with the operation, whatever the renewal is doing.
OperationEnds(p) ==
  /\ phase[p] \in Renewal \cup {"running"}
  /\ Enter(p, "finishing")
  /\ UNCHANGED leaseVars

ReleaseReachesRedis(p) ==
  /\ phase[p] \in {"aborting", "finishing"}
  /\ Delete(p)
  /\ Enter(p, IF At(p, "aborting") THEN "aborted" ELSE "finished")

\* With the answer, or an error in its place, exclusive_run returns: the
\* operation is dropped and its tasks with it.  A crash has the same effect.
Return(p) ==
  /\ phase[p] # "off"
  /\ Enter(p, "off")
  /\ Disown(p)

Due(p) ==
  \/ At(p, "granted") /\ timer[p] >= ReplyTicks
  \/ At(p, "running") /\ timer[p] >= RenewEvery
  \/ phase[p] \in Renewal /\ timer[p] >= RenewTimeout

TimerCap == RenewEvery + RenewTimeout + 1
Tick ==
  /\ stalled' = (stalled \/ \E p \in Process : Due(p))
  /\ ttl' = IF ttl = 0 THEN 0 ELSE ttl - 1
  /\ holder' = IF ttl <= 1 THEN Nobody ELSE holder
  /\ timer' = [p \in Process |-> IF timer[p] < TimerCap THEN timer[p] + 1 ELSE timer[p]]
  /\ UNCHANGED phase

ProcessStep(p) ==
  \/ Acquire(p) \/ AcquireLost(p) \/ Begin(p) \/ Renew(p) \/ RenewReachesRedis(p)
  \/ Renewed(p) \/ Abort(p) \/ OperationEnds(p) \/ ReleaseReachesRedis(p) \/ Return(p)

Next == Tick \/ (UNCHANGED stalled /\ \E p \in Process : ProcessStep(p))
Spec == Init /\ [][Next]_vars

-----------------------------------------------------------------------------
(* Properties *)

\* The operation is running and may still write.
InControl(p) == phase[p] \in Renewal \cup {"running"}

\* Until a process is suspended, whoever runs an operation holds a live lease all the time,
\* through slow answers and renewals up to their timeout: so no second run starts
\* (RUN_LEASE_SECS against the 60-second sleep and the 30-second timeout).
LeaseCoversRun ==
  stalled \/ \A p \in Process : InControl(p) => holder = p /\ ttl > 0

\* Whatever the stalls, a lease is lost to its own holder or to its age: no late
\* renewal or release of another process takes it or gives it new time.
OnlyOwnerTouchesLease ==
  [][\A p \in Process : holder = p =>
       /\ holder' # p => (ttl = 1 /\ UNCHANGED phase) \/ phase'[p] # phase[p]
       /\ ttl' > ttl => phase'[p] # phase[p]]_vars

\* "Runs `operation` as the only checker touching shared state": the tasks of an
\* aborted operation count until exclusive_run returns.
Touching(p) == InControl(p) \/ phase[p] \in {"aborting", "aborted"}
OnlyOneTouching ==
  \A p, q \in Process : Touching(p) /\ Touching(q) => p = q
=============================================================================
