--------------------------- MODULE RunLeaseProofs ---------------------------
(***************************************************************************)
(* The lease covers the run for any number of processes and any periods    *)
(* that satisfy TickAssumption.                                            *)
(***************************************************************************)
EXTENDS RunLease, TLAPS

\* There is no lease at first.
LEMMA LeaseTypeInit == Init => LeaseTypeOK
  BY HolderAssumption, TickAssumption DEF Init, LeaseTypeOK, Phase

\* Every step keeps the types, and a lease with time left.
LEMMA LeaseTypeStep == LeaseTypeOK /\ [Next]_vars => LeaseTypeOK'
<1> SUFFICES ASSUME LeaseTypeOK, [Next]_vars PROVE LeaseTypeOK'
  OBVIOUS
<1> USE HolderAssumption, TickAssumption
    DEF LeaseTypeOK, Phase, Renewal, Enter, Move, leaseVars, procVars
<1>1. CASE Tick
  <2>1. ttl' \in 0..LeaseTicks /\ holder' \in Process \cup {Nobody, Orphan}
    BY <1>1 DEF Tick
  <2>2. timer' \in [Process -> 0..RenewEvery + RenewTimeout + 1]
    BY <1>1 DEF Tick, TimerCap
  <2>3. holder' = Nobody <=> ttl' = 0
    BY <1>1 DEF Tick
  <2> QED  BY <1>1, <2>1, <2>2, <2>3 DEF Tick
<1>2. ASSUME NEW p \in Process, ProcessStep(p) PROVE LeaseTypeOK'
  <2>1. CASE Acquire(p) \/ AcquireLost(p)
    BY <2>1 DEF Acquire, AcquireLost, SetLease
  <2>2. CASE Begin(p) \/ Renew(p) \/ Renewed(p) \/ Abort(p) \/ OperationEnds(p)
    BY <2>2 DEF Begin, Renew, Renewed, Abort, OperationEnds
  <2>3. CASE RenewReachesRedis(p)
    BY <2>3 DEF RenewReachesRedis, Extend
  <2>4. CASE ReleaseReachesRedis(p)
    BY <2>4 DEF ReleaseReachesRedis, Delete
  <2>5. CASE Return(p)
    BY <2>5 DEF Return, Disown
  <2> QED  BY <1>2, <2>1, <2>2, <2>3, <2>4, <2>5 DEF ProcessStep
<1>3. CASE UNCHANGED vars
  BY <1>3 DEF vars
<1> QED  BY <1>1, <1>2, <1>3 DEF Next

\* Type correctness.
THEOREM TypeCorrect == Spec => []TypeOK
<1>1. Init => stalled \in BOOLEAN
  BY DEF Init
<1>2. stalled \in BOOLEAN /\ [Next]_vars => stalled' \in BOOLEAN
  BY DEF Next, Tick, vars
<1>3. Init => TypeOK
  BY <1>1, LeaseTypeInit DEF TypeOK
<1>4. TypeOK /\ [Next]_vars => TypeOK'
  BY <1>2, LeaseTypeStep DEF TypeOK
<1> QED  BY <1>3, <1>4, PTL DEF Spec

\* The age of the lease is bounded by where its holder is: one renewal sleep and
\* at most two answers lie between two extensions.
Covered(p) ==
  /\ phase[p] # "refused"
  /\ InControl(p) \/ phase[p] = "granted" => holder = p
  /\ phase[p] = "granted" => timer[p] <= ReplyTicks /\ ttl + timer[p] >= LeaseTicks
  /\ phase[p] = "running" =>
       timer[p] <= RenewEvery /\ ttl + timer[p] + RenewTimeout >= LeaseTicks
  /\ phase[p] = "renewing" =>
       timer[p] <= RenewTimeout /\ ttl + timer[p] + RenewEvery + RenewTimeout >= LeaseTicks
  /\ phase[p] = "renewed" => timer[p] <= RenewTimeout /\ ttl + timer[p] >= LeaseTicks

LeaseInv == LeaseTypeOK /\ (stalled \/ \A p \in Process : Covered(p))

\* Nobody needs a lease at first.
LEMMA LeaseInit == Init => LeaseInv
  BY LeaseTypeInit DEF Init, LeaseInv, Covered, InControl, Renewal

\* How old the lease of a process may be before a tick that is not held up by
\* its timers; and that this leaves at least two ticks.
YoungLease(p) ==
  \/ phase[p] = "granted" /\ timer[p] < ReplyTicks /\ ttl + timer[p] >= LeaseTicks
  \/ phase[p] = "running" /\ timer[p] < RenewEvery
       /\ ttl + timer[p] + RenewTimeout >= LeaseTicks
  \/ phase[p] = "renewing" /\ timer[p] < RenewTimeout
       /\ ttl + timer[p] + RenewEvery + RenewTimeout >= LeaseTicks
  \/ phase[p] = "renewed" /\ timer[p] < RenewTimeout /\ ttl + timer[p] >= LeaseTicks

\* A lease that young has more than one tick left.
LEMMA YoungLeaseLives ==
  ASSUME NEW p \in Process, ttl \in Nat, timer[p] \in Nat, YoungLease(p)
  PROVE  ttl > 1 /\ timer[p] < TimerCap
<1>0. LeaseTicks \in Nat /\ RenewEvery \in Nat /\ RenewTimeout \in Nat /\ ReplyTicks \in Nat
  BY TickAssumption
<1>1. LeaseTicks > RenewEvery + RenewTimeout + RenewTimeout /\ ReplyTicks <= RenewTimeout
  BY <1>0, TickAssumption
<1>2. CASE timer[p] < ReplyTicks /\ ttl + timer[p] >= LeaseTicks
  BY <1>0, <1>1, <1>2 DEF TimerCap
<1>3. CASE timer[p] < RenewEvery /\ ttl + timer[p] + RenewTimeout >= LeaseTicks
  BY <1>0, <1>1, <1>3 DEF TimerCap
<1>4. CASE timer[p] < RenewTimeout /\ ttl + timer[p] + RenewEvery + RenewTimeout >= LeaseTicks
  BY <1>0, <1>1, <1>4 DEF TimerCap
<1>5. CASE timer[p] < RenewTimeout /\ ttl + timer[p] >= LeaseTicks
  BY <1>0, <1>1, <1>5 DEF TimerCap
<1> QED  BY <1>2, <1>3, <1>4, <1>5 DEF YoungLease

\* Time passing keeps the bound on age, unless a timer is overrun.
LEMMA TickCovers ==
  ASSUME LeaseTypeOK, \A q \in Process : Covered(q), Tick, ~stalled', NEW p \in Process
  PROVE  Covered(p)'
<1>0. LeaseTicks \in Nat /\ RenewEvery \in Nat /\ RenewTimeout \in Nat /\ ReplyTicks \in Nat
      /\ ttl \in Nat /\ timer[p] \in Nat
  BY TickAssumption DEF LeaseTypeOK
<1>1. CASE InControl(p) \/ phase[p] = "granted"
  <2>1. ~Due(p) /\ phase'[p] = phase[p] /\ holder = p
    BY <1>1 DEF Tick, Covered
  <2>2. YoungLease(p)
    BY <1>0, <1>1, <2>1 DEF Covered, Due, At, YoungLease, InControl, Renewal
  <2>3. ttl > 1 /\ timer[p] < TimerCap
    BY <1>0, <2>2, YoungLeaseLives
  <2>4. holder' = p /\ ttl' = ttl - 1 /\ timer'[p] = timer[p] + 1
    BY <1>0, <2>1, <2>3 DEF Tick
  <2> QED  BY <1>0, <2>1, <2>2, <2>4 DEF YoungLease, Covered, InControl, Renewal
<1>2. CASE ~(InControl(p) \/ phase[p] = "granted")
  BY <1>2 DEF Tick, Covered, InControl, Renewal
<1> QED  BY <1>1, <1>2

\* A step of one process keeps it for all: only the holder's steps touch the lease.
LEMMA StepCovers ==
  ASSUME LeaseTypeOK, \A r \in Process : Covered(r), NEW q \in Process, ProcessStep(q), NEW p \in Process
  PROVE  Covered(p)'
<1> USE HolderAssumption, TickAssumption
    DEF LeaseTypeOK, Covered, InControl, Renewal, Enter, Move, leaseVars, procVars, At
<1>1. CASE Acquire(q) \/ AcquireLost(q)
  BY <1>1 DEF Acquire, AcquireLost, SetLease
<1>2. CASE Begin(q) \/ Renew(q) \/ Renewed(q) \/ Abort(q) \/ OperationEnds(q)
  BY <1>2 DEF Begin, Renew, Renewed, Abort, OperationEnds
<1>3. CASE RenewReachesRedis(q)
  BY <1>3 DEF RenewReachesRedis, Extend
<1>4. CASE ReleaseReachesRedis(q)
  BY <1>4 DEF ReleaseReachesRedis, Delete
<1>5. CASE Return(q)
  BY <1>5 DEF Return, Disown
<1> QED  BY <1>1, <1>2, <1>3, <1>4, <1>5 DEF ProcessStep

\* As long as no process is suspended, an operation runs only under a live lease
\* of its own.
THEOREM LeaseCoversRunCorrect == Spec => []LeaseCoversRun
<1>1. LeaseInv /\ [Next]_vars => LeaseInv'
  <2> SUFFICES ASSUME LeaseInv, [Next]_vars, ~stalled'
               PROVE  \A p \in Process : Covered(p)'
    BY LeaseTypeStep DEF LeaseInv
  <2>0. ~stalled
    BY DEF Next, Tick, vars
  <2>1. LeaseTypeOK /\ \A p \in Process : Covered(p)
    BY <2>0 DEF LeaseInv
  <2>2. CASE UNCHANGED vars
    BY <2>1, <2>2 DEF vars, leaseVars, procVars, Covered, InControl
  <2> QED  BY <2>1, <2>2, TickCovers, StepCovers DEF Next
<1>2. LeaseInv => LeaseCoversRun
  BY TickAssumption DEF LeaseInv, LeaseTypeOK, Covered, InControl, Renewal, LeaseCoversRun
<1> QED  BY <1>1, <1>2, LeaseInit, PTL DEF Spec

\* So no two operations run at a time.
COROLLARY OneOperation ==
  Spec => [](stalled \/ \A p, q \in Process : InControl(p) /\ InControl(q) => p = q)
<1>1. LeaseCoversRun =>
        stalled \/ \A p, q \in Process : InControl(p) /\ InControl(q) => p = q
  BY DEF LeaseCoversRun
<1> QED  BY <1>1, LeaseCoversRunCorrect, PTL

\* Redis's compare-and-delete and compare-and-expire: whatever is suspended and
\* however late a renewal or a release arrives, the lease is its holder's.
THEOREM OnlyOwnerTouchesLeaseCorrect == Spec => OnlyOwnerTouchesLease
<1> DEFINE Kept(p) == holder = p =>
             /\ holder' # p => (ttl = 1 /\ UNCHANGED phase) \/ phase'[p] # phase[p]
             /\ ttl' > ttl => phase'[p] # phase[p]
<1>1. Init => LeaseTypeOK
  BY LeaseTypeInit
<1>2. LeaseTypeOK /\ [Next]_vars => LeaseTypeOK'
  BY LeaseTypeStep
<1>3. LeaseTypeOK /\ [Next]_vars => [\A p \in Process : Kept(p)]_vars
  <2> SUFFICES ASSUME LeaseTypeOK, Next, NEW p \in Process, holder = p PROVE Kept(p)
    OBVIOUS
  <2>0. ttl \in Nat /\ ttl # 0 /\ LeaseTicks \in Nat
    BY HolderAssumption, TickAssumption DEF LeaseTypeOK
  <2>1. CASE Tick
    BY <2>0, <2>1 DEF Tick
  <2>2. ASSUME NEW q \in Process, ProcessStep(q) PROVE Kept(p)
    <3> USE HolderAssumption DEF LeaseTypeOK, Phase, Renewal, At, Enter, Move, leaseVars, procVars
    <3>1. CASE Acquire(q) \/ AcquireLost(q)
      BY <3>1 DEF Acquire, AcquireLost, SetLease
    <3>2. CASE Begin(q) \/ Renew(q) \/ Renewed(q) \/ Abort(q) \/ OperationEnds(q)
      BY <2>0, <3>2 DEF Begin, Renew, Renewed, Abort, OperationEnds
    <3>3. CASE RenewReachesRedis(q)
      BY <2>0, <3>3 DEF RenewReachesRedis, Extend
    <3>4. CASE ReleaseReachesRedis(q)
      BY <2>0, <3>4 DEF ReleaseReachesRedis, Delete
    <3>5. CASE Return(q)
      BY <2>0, <3>5 DEF Return, Disown
    <3> QED  BY <2>2, <3>1, <3>2, <3>3, <3>4, <3>5 DEF ProcessStep
  <2> QED  BY <2>1, <2>2 DEF Next
<1> QED  BY <1>1, <1>2, <1>3, PTL DEF Spec, OnlyOwnerTouchesLease
=============================================================================
