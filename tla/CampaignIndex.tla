---------------------------- MODULE CampaignIndex ---------------------------
(***************************************************************************)
(* campaign_context (src/src/redis.rs): one sorted set per campaign signal *)
(* (a bio fingerprint, a link domain), of the accounts that showed it and  *)
(* when.  The pipeline of one check runs on the process's one connection,  *)
(* so nothing comes between its commands.                                  *)
(***************************************************************************)
EXTENDS Naturals, FiniteSets

CONSTANTS
  LastId,       \* bound on account IDs
  Signal,
  SignalsOf,    \* the signals of each account
  Window,       \* CAMPAIGN_WINDOW_SECS, in ticks
  MemberCap,    \* CAMPAIGN_MEMBERS_PER_SIGNAL
  Reported,     \* CAMPAIGN_MATCHES_REPORTED
  MaxNow        \* bound on the clock

Id == 1..LastId
Time == 0..MaxNow

ASSUME CampaignAssumption ==
  /\ SignalsOf \in [Id -> SUBSET Signal]
  /\ {LastId, Window, MemberCap, Reported, MaxNow} \subseteq Nat \ {0}
  /\ Reported <= MemberCap

VARIABLES
  now,
  index,        \* the score of each member of a signal's set; 0 when it is none
  expires,      \* when Redis drops the set
  seen          \* history: when each account was last recorded

vars == <<now, index, expires, seen>>

\* A sorted set as the scores of its members.
Scores == [Id -> Time]
Members(set) == {a \in Id : set[a] # 0}
Empty == [a \in Id |-> 0]

TypeOK ==
  /\ now \in Time \ {0}
  /\ index \in [Signal -> Scores]
  /\ expires \in [Signal -> 0..MaxNow + Window]
  /\ seen \in Scores
  /\ \A s \in Signal : Cardinality(Members(index[s])) <= MemberCap

Init ==
  /\ now = 1
  /\ index = [s \in Signal |-> Empty]
  /\ expires = [s \in Signal |-> 0]
  /\ seen = Empty

-----------------------------------------------------------------------------
Cutoff == IF now > Window THEN now - Window ELSE 0

\* Redis breaks ties by the text of the member, here by the ID.
Newer(set, a, b) == set[a] > set[b] \/ (set[a] = set[b] /\ a > b)
Newest(set, among, n) ==
  {a \in among : Cardinality({b \in among : Newer(set, b, a)}) < n}

Only(set, kept) == [a \in Id |-> IF a \in kept THEN set[a] ELSE 0]

\* ZREMRANGEBYSCORE, ZADD, ZREMRANGEBYRANK.
DropOld(set) == Only(set, {a \in Id : set[a] > Cutoff})
Add(set, a) == [set EXCEPT ![a] = now]

\* Mutant of Cap: no cap.
CapNothing(set) == set

Cap(set) == Only(set, Newest(set, Members(set), MemberCap))

\* ZREVRANGEBYSCORE with its LIMIT.
Read(set) == Newest(set, {a \in Id : set[a] > Cutoff}, Reported)

Recorded(set, a) == Cap(Add(DropOld(set), a))

\* What campaign_context returns: each set read, a itself left out, and the
\* highest IDs of the rest.
Context(sets, a) ==
  LET matches == UNION {Read(sets[s]) : s \in SignalsOf[a]} \ {a}
  IN {b \in matches : Cardinality({c \in matches : c > b}) < Reported}

RecordedAll(a) ==
  [s \in Signal |-> IF s \in SignalsOf[a] THEN Recorded(index[s], a) ELSE index[s]]

\* EXPIRE on every record.  Its mutant leaves a TTL that is already there.
FirstExpiry(s) == IF expires[s] = 0 THEN now + Window ELSE expires[s]
Expiry(s) == now + Window

Check(a) ==
  /\ index' = RecordedAll(a)
  /\ expires' = [s \in Signal |-> IF s \in SignalsOf[a] THEN Expiry(s) ELSE expires[s]]
  /\ seen' = Add(seen, a)
  /\ UNCHANGED now

Dropped(s) == expires[s] # 0 /\ expires[s] <= now'
Tick ==
  /\ now < MaxNow
  /\ now' = now + 1
  /\ index' = [s \in Signal |-> IF Dropped(s) THEN Empty ELSE index[s]]
  /\ expires' = [s \in Signal |-> IF Dropped(s) THEN 0 ELSE expires[s]]
  /\ UNCHANGED seen

Next == Tick \/ \E a \in Id : Check(a)
Spec == Init /\ [][Next]_vars

-----------------------------------------------------------------------------
(* Properties *)

\* The sets are trimmed by age, capped by rank and dropped by TTL, and a reader
\* cannot tell: it gets what it would from the full history of every account
\* with the signal.
Holders(s) == {a \in Id : s \in SignalsOf[a]}
IndexIsLossless == \A s \in Signal : Read(index[s]) = Read(Only(seen, Holders(s)))

\* "With `record` unset nothing is written, so a dry run reports the same matches
\* without leaving a trace" (the comment of campaign_context).
DryRunReportsTheSame ==
  \A a \in Id : Context(index, a) = Context(RecordedAll(a), a)
=============================================================================
