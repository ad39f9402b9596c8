------------------------- MODULE CampaignIndexProofs -------------------------
(***************************************************************************)
(* A reader of the campaign index gets what the full history would give,   *)
(* for any accounts and signals, any window, cap and report within it, and *)
(* however long the accounts keep coming.                                  *)
(***************************************************************************)
EXTENDS CampaignIndex, FiniteSetTheorems, TLAPS

\* What is known of the constants.
LEMMA Bounds ==
  /\ LastId \in Nat /\ Window \in Nat /\ MemberCap \in Nat /\ Reported \in Nat /\ MaxNow \in Nat
  /\ Reported <= MemberCap
  BY CampaignAssumption

-----------------------------------------------------------------------------
(* The order of a sorted set *)

\* Newest first is a strict and total order of the members.
LEMMA NewerOrder ==
  ASSUME NEW set \in [Id -> Nat]
  PROVE  /\ \A a \in Id : ~Newer(set, a, a)
         /\ \A a, b, c \in Id : Newer(set, a, b) /\ Newer(set, b, c) => Newer(set, a, c)
         /\ \A a, b \in Id : a # b => Newer(set, a, b) \/ Newer(set, b, a)
  BY Bounds DEF Newer, Id

\* Every set of IDs is finite.
LEMMA IdsAreFinite ==
  ASSUME NEW among \in SUBSET Id
  PROVE  IsFiniteSet(among) /\ Cardinality(among) \in Nat
<1>1. IsFiniteSet(Id)
  BY Bounds, FS_Interval DEF Id
<1>2. IsFiniteSet(among)
  BY <1>1, FS_Subset
<1> QED  BY <1>2, FS_CardinalityType

\* Those that come before a member, and how many.
Above(set, among, a) == {b \in among : Newer(set, b, a)}
Rank(set, among, a) == Cardinality(Above(set, among, a))

\* A member's rank is below the size of the set, and grows with its age.
LEMMA RankIs ==
  ASSUME NEW set \in [Id -> Nat], NEW among \in SUBSET Id, NEW a \in among
  PROVE  Rank(set, among, a) \in Nat /\ Rank(set, among, a) < Cardinality(among)
<1>1. Above(set, among, a) \in SUBSET among /\ a \notin Above(set, among, a)
  BY NewerOrder DEF Above
<1>2. IsFiniteSet(among) /\ Cardinality(among) \in Nat
      /\ Cardinality(Above(set, among, a)) \in Nat
  BY <1>1, IdsAreFinite
<1>3. /\ Cardinality(Above(set, among, a)) <= Cardinality(among)
      /\ Cardinality(Above(set, among, a)) # Cardinality(among)
  BY <1>1, <1>2, FS_Subset
<1> QED  BY <1>2, <1>3 DEF Rank

\* So no two members have the same.
LEMMA RankGrows ==
  ASSUME NEW set \in [Id -> Nat], NEW among \in SUBSET Id,
         NEW a \in among, NEW b \in among, Newer(set, a, b)
  PROVE  Rank(set, among, a) < Rank(set, among, b)
<1>1. Above(set, among, a) \in SUBSET Above(set, among, b)
  BY NewerOrder DEF Above
<1>2. a \in Above(set, among, b) /\ a \notin Above(set, among, a)
  BY NewerOrder DEF Above
<1>3. Above(set, among, b) \in SUBSET Id
  BY DEF Above
<1>4. IsFiniteSet(Above(set, among, b))
      /\ Cardinality(Above(set, among, a)) \in Nat /\ Cardinality(Above(set, among, b)) \in Nat
  BY <1>1, <1>3, IdsAreFinite
<1>5. /\ Cardinality(Above(set, among, a)) <= Cardinality(Above(set, among, b))
      /\ Cardinality(Above(set, among, a)) # Cardinality(Above(set, among, b))
  BY <1>1, <1>2, <1>4, FS_Subset
<1> QED  BY <1>4, <1>5 DEF Rank

\* A rank tells its member.
LEMMA RankIsOnes ==
  ASSUME NEW set \in [Id -> Nat], NEW among \in SUBSET Id, NEW a \in among, NEW b \in among,
         Rank(set, among, a) = Rank(set, among, b)
  PROVE  a = b
<1>1. Rank(set, among, a) \in Nat /\ Rank(set, among, b) \in Nat
  BY RankIs
<1>2. ~Newer(set, a, b) /\ ~Newer(set, b, a)
  BY <1>1, RankGrows
<1> QED  BY <1>2, NewerOrder

\* Newest in terms of ranks.
LEMMA NewestIs ==
  ASSUME NEW set, NEW among, NEW n
  PROVE  Newest(set, among, n) = {a \in among : Rank(set, among, a) < n}
  BY DEF Newest, Rank, Above

\* The newest n are no more than n.
LEMMA NewestAtMost ==
  ASSUME NEW set \in [Id -> Nat], NEW among \in SUBSET Id, NEW n \in Nat
  PROVE  Cardinality(Newest(set, among, n)) <= n
<1> DEFINE N == Newest(set, among, n)
           f == [a \in N |-> Rank(set, among, a)]
<1>1. N \in SUBSET among /\ N \in SUBSET Id
  BY DEF Newest
<1>2. IsFiniteSet(N) /\ Cardinality(N) \in Nat
  BY <1>1, IdsAreFinite
<1>3. IsFiniteSet(0..(n - 1)) /\ Cardinality(0..(n - 1)) = n
  BY FS_Interval
<1>4. f \in [N -> 0..(n - 1)]
  <2>1. ASSUME NEW a \in N PROVE Rank(set, among, a) \in 0..(n - 1)
    <3>1. a \in among /\ Rank(set, among, a) < n
      BY NewestIs
    <3>2. Rank(set, among, a) \in Nat
      BY <3>1, RankIs
    <3> QED  BY <3>1, <3>2
  <2> QED  BY <2>1
<1>5. ASSUME n < Cardinality(N) PROVE FALSE
  <2>1. \E x, y \in N : x # y /\ f[x] = f[y]
    <3> HIDE DEF N, f
    <3> QED  BY <1>2, <1>3, <1>4, <1>5, FS_PigeonHole
  <2> QED  BY <1>1, <2>1, RankIsOnes
<1> QED  BY <1>2, <1>5

\* A set that is not empty has a newest member.
LEMMA HasNewest ==
  ASSUME NEW set \in [Id -> Nat], NEW among \in SUBSET Id, among # {}
  PROVE  \E a \in among : \A b \in among : ~Newer(set, b, a)
<1> DEFINE size == Cardinality(among)
           f == [a \in among |-> Rank(set, among, a)]
<1>1. IsFiniteSet(among) /\ size \in Nat
  BY IdsAreFinite
<1>2. size > 0
  BY <1>1, FS_EmptySet
<1>3. IsFiniteSet(0..(size - 1)) /\ Cardinality(0..(size - 1)) = size
  <2> HIDE DEF size
  <2>1. size - 1 \in Int /\ ~(0 > size - 1) /\ size - 1 - 0 + 1 = size
    BY <1>1, <1>2
  <2> QED  BY <2>1, FS_Interval
<1>4. f \in [among -> 0..(size - 1)]
  BY <1>1, RankIs
<1>5. f \in Injection(among, 0..(size - 1))
  BY <1>4, RankIsOnes DEF Injection, IsInjective
<1>6. f \in Surjection(among, 0..(size - 1))
  <2> HIDE DEF f
  <2> QED  BY <1>3, <1>5, FS_Injection
<1>7. PICK a \in among : Rank(set, among, a) = 0
  <2>1. 0 \in 0..(size - 1)
    BY <1>1, <1>2
  <2>2. PICK a \in among : f[a] = 0
    BY <1>6, <2>1 DEF Surjection
  <2> QED  BY <2>2
<1>8. ASSUME NEW b \in among, Newer(set, b, a) PROVE FALSE
  <2>1. Rank(set, among, b) < Rank(set, among, a)
    BY <1>8, RankGrows
  <2>2. Rank(set, among, b) \in Nat
    BY RankIs
  <2> QED  BY <1>7, <2>1, <2>2
<1> QED  BY <1>8

\* What is newest of a larger set with the same scores, and is in this one, is
\* newest here.
LEMMA NewestOfFewer ==
  ASSUME NEW set \in [Id -> Nat], NEW among \in SUBSET Id, NEW n \in Nat,
         NEW larger \in [Id -> Nat], NEW all \in SUBSET Id,
         among \subseteq all, \A a \in among : set[a] = larger[a],
         NEW a \in among, a \in Newest(larger, all, n)
  PROVE  a \in Newest(set, among, n)
<1>1. Above(set, among, a) \in SUBSET Above(larger, all, a)
  BY DEF Above, Newer
<1>2. Above(larger, all, a) \in SUBSET Id
  BY DEF Above
<1>3. /\ IsFiniteSet(Above(larger, all, a))
      /\ Cardinality(Above(larger, all, a)) \in Nat
      /\ Cardinality(Above(set, among, a)) \in Nat
  BY <1>1, <1>2, IdsAreFinite
<1>4. Cardinality(Above(set, among, a)) <= Cardinality(Above(larger, all, a))
  BY <1>1, <1>3, FS_Subset
<1>5. Cardinality(Above(larger, all, a)) < n
  BY NewestIs DEF Rank
<1>6. Cardinality(Above(set, among, a)) < n
  BY <1>3, <1>4, <1>5
<1> QED  BY <1>6, NewestIs DEF Rank

\* A part that keeps the newest of a set, as many as any reader asks for, is read
\* like the set: the newest member that is missing has more than that before it.
LEMMA NewestOfPart ==
  ASSUME NEW set \in [Id -> Nat], NEW among \in SUBSET Id,
         NEW larger \in [Id -> Nat], NEW all \in SUBSET Id,
         among \subseteq all, \A a \in among : set[a] = larger[a],
         NEW cap \in Nat, NEW n \in Nat, n <= cap,
         Newest(larger, all, cap) \subseteq among
  PROVE  Newest(set, among, n) = Newest(larger, all, n)
<1>1. ASSUME NEW a \in Newest(larger, all, n) PROVE a \in Newest(set, among, n)
  <2>1. a \in all /\ Rank(larger, all, a) < n
    BY <1>1, NewestIs
  <2>2. Rank(larger, all, a) \in Nat
    BY <2>1, RankIs
  <2>3. Rank(larger, all, a) < cap
    BY <2>1, <2>2
  <2>4. a \in among
    BY <2>1, <2>3, NewestIs
  <2> QED  BY <1>1, <2>4, NewestOfFewer
<1>2. ASSUME NEW a \in Newest(set, among, n), a \notin Newest(larger, all, n) PROVE FALSE
  <2>1. a \in among /\ a \in all /\ Rank(set, among, a) < n /\ ~(Rank(larger, all, a) < n)
    BY <1>2, NewestIs
  <2> DEFINE missing == Above(larger, all, a) \ among
  <2>2. missing \in SUBSET Id /\ missing \subseteq all
    BY DEF Above
  <2>3. missing # {}
    <3>1. ASSUME missing = {} PROVE FALSE
      <4>1. Above(set, among, a) = Above(larger, all, a)
        BY <2>1, <3>1 DEF Above, Newer
      <4> QED  BY <2>1, <4>1 DEF Rank
    <3> QED  BY <3>1
  <2>4. PICK b \in missing : \A c \in missing : ~Newer(larger, c, b)
    <3> HIDE DEF missing
    <3> QED  BY <2>2, <2>3, HasNewest
  <2>5. b \in all /\ b \in Id /\ a \in Id /\ b \notin among /\ Newer(larger, b, a)
    BY <2>1, <2>4 DEF Above
  <2>6. Above(larger, all, b) \in SUBSET Above(set, among, a)
    <3>1. ASSUME NEW c \in all, Newer(larger, c, b) PROVE c \in among /\ Newer(set, c, a)
      <4>1. Newer(larger, c, a)
        BY <2>5, <3>1, NewerOrder
      <4>2. c \in among
        BY <2>4, <3>1, <4>1 DEF Above
      <4> QED  BY <2>1, <4>1, <4>2 DEF Newer
    <3> QED  BY <3>1 DEF Above
  <2>7. Above(set, among, a) \in SUBSET Id
    BY DEF Above
  <2>8. /\ IsFiniteSet(Above(set, among, a))
        /\ Cardinality(Above(set, among, a)) \in Nat
        /\ Cardinality(Above(larger, all, b)) \in Nat
    BY <2>6, <2>7, IdsAreFinite
  <2>9. Cardinality(Above(larger, all, b)) <= Cardinality(Above(set, among, a))
    BY <2>6, <2>8, FS_Subset
  <2>10. Rank(larger, all, b) < cap
    BY <2>1, <2>8, <2>9 DEF Rank
  <2>11. b \in among
    BY <2>5, <2>10, NewestIs
  <2> QED  BY <2>5, <2>11
<1> QED  BY <1>1, <1>2

-----------------------------------------------------------------------------
(* The invariant *)

\* All that was ever recorded of a signal, and what of it is in the window.
History(s) == Only(seen, Holders(s))
Recent(set) == {a \in Id : set[a] > Cutoff}

\* A set holds what was recorded, and no more.
Truthful(s) ==
  \A a \in Members(index[s]) : a \in Holders(s) /\ index[s][a] = seen[a]

\* It outlives the window of its members.
Unexpired(s) ==
  expires[s] # 0 => \A a \in Holders(s) : seen[a] + Window <= expires[s]

\* It holds the newest of them, up to the cap.
Complete(s) == Newest(History(s), Recent(History(s)), MemberCap) \subseteq Members(index[s])

IndexInv ==
  /\ TypeOK
  /\ \A a \in Id : seen[a] <= now
  /\ \A s \in Signal : Truthful(s) /\ Unexpired(s) /\ Complete(s)

\* The scores are numbers.
LEMMA ScoresAre ==
  ASSUME TypeOK, NEW s \in Signal
  PROVE  /\ index[s] \in Scores /\ index[s] \in [Id -> Nat]
         /\ seen \in Scores /\ seen \in [Id -> Nat] /\ History(s) \in [Id -> Nat]
         /\ now \in Nat /\ now # 0 /\ now \in Time /\ Cutoff \in Nat /\ Cutoff < now
<1>1. Time \subseteq Nat
  BY Bounds DEF Time
<1>2. index[s] \in Scores /\ seen \in Scores
  BY DEF TypeOK
<1>3. index[s] \in [Id -> Nat] /\ seen \in [Id -> Nat]
  BY <1>1, <1>2 DEF Scores
<1>4. History(s) \in [Id -> Nat]
  BY <1>3 DEF History, Only
<1>5. now \in Time /\ now # 0 /\ now \in Nat
  BY <1>1 DEF TypeOK
<1>6. Cutoff \in Nat /\ Cutoff < now
  BY <1>5, Bounds, CampaignAssumption DEF Cutoff
<1> QED  BY <1>2, <1>3, <1>4, <1>5, <1>6

\* The invariant is enough for a reader.
LEMMA IndexInvLossless ==
  ASSUME IndexInv
  PROVE  IndexIsLossless
<1> SUFFICES ASSUME NEW s \in Signal PROVE Read(index[s]) = Read(Only(seen, Holders(s)))
  BY DEF IndexIsLossless
<1> DEFINE set == index[s]
           all == History(s)
<1>1. set \in [Id -> Nat] /\ all \in [Id -> Nat] /\ Cutoff \in Nat
  BY ScoresAre DEF IndexInv
<1>2. \A a \in Recent(set) : a \in Id /\ set[a] # 0 /\ a \in Holders(s) /\ set[a] = seen[a]
  BY <1>1 DEF IndexInv, Truthful, Members, Recent
<1>3. \A a \in Recent(set) : set[a] = all[a]
  BY <1>2 DEF History, Only
<1>4. Recent(set) \in SUBSET Id /\ Recent(all) \in SUBSET Id /\ Recent(set) \subseteq Recent(all)
  BY <1>3 DEF Recent
<1>5. Newest(all, Recent(all), MemberCap) \subseteq Recent(set)
  <2>1. ASSUME NEW a \in Newest(all, Recent(all), MemberCap) PROVE a \in Recent(set)
    <3>1. a \in Id /\ all[a] > Cutoff
      BY <2>1 DEF Newest, Recent
    <3>2. a \in Members(set)
      BY <2>1 DEF IndexInv, Complete
    <3>3. set[a] = all[a]
      BY <3>1, <3>2 DEF IndexInv, Truthful, History, Only
    <3> QED  BY <3>1, <3>3 DEF Recent
  <2> QED  BY <2>1
<1>6. Newest(set, Recent(set), Reported) = Newest(all, Recent(all), Reported)
  <2> HIDE DEF set, all
  <2> QED  BY <1>1, <1>3, <1>4, <1>5, NewestOfPart, Bounds
<1> QED  BY <1>6 DEF Read, Recent, History

\* Nothing has been recorded at first.
LEMMA InitInv == Init => IndexInv
<1> SUFFICES ASSUME Init PROVE IndexInv
  OBVIOUS
<1>1. MaxNow \in Nat /\ MaxNow # 0 /\ Window \in Nat /\ MemberCap \in Nat
  BY CampaignAssumption
<1>2. Empty \in Scores /\ Members(Empty) = {}
  BY <1>1 DEF Empty, Scores, Time, Members
<1>3. TypeOK
  <2>1. Cardinality(Members(Empty)) <= MemberCap
    BY <1>1, <1>2, FS_EmptySet
  <2>2. now \in Time \ {0} /\ \A s \in Signal : expires[s] \in 0..MaxNow + Window
    BY <1>1 DEF Init, Time
  <2> QED  BY <1>2, <2>1, <2>2 DEF Init, TypeOK
<1>4. ASSUME NEW s \in Signal PROVE Complete(s)
  <2>1. Recent(History(s)) = {}
    BY <1>3, ScoresAre DEF Init, Empty, Recent, History, Only
  <2> QED  BY <2>1 DEF Complete, Newest
<1> QED  BY <1>2, <1>3, <1>4 DEF Init, IndexInv, Truthful, Unexpired, Empty

-----------------------------------------------------------------------------
(* A check *)

\* A record that has been trimmed, added to and capped.
LEMMA RecordedIs ==
  ASSUME TypeOK, NEW s \in Signal, NEW a \in Id
  PROVE  LET old == index[s]
             full == Add(DropOld(old), a)
         IN /\ DropOld(old) \in Scores
            /\ full \in Scores /\ full \in [Id -> Nat]
            /\ full[a] = now
            /\ \A b \in Id : b # a => full[b] = IF old[b] > Cutoff THEN old[b] ELSE 0
            /\ Recorded(old, a) = Only(full, Newest(full, Members(full), MemberCap))
<1> DEFINE old == index[s]
           full == Add(DropOld(old), a)
<1>1. old \in Scores /\ now \in Time
  BY ScoresAre
<1>2. 0 \in Time /\ Time \subseteq Nat
  BY Bounds DEF Time
<1>3. DropOld(old) \in Scores
  BY <1>1, <1>2 DEF DropOld, Only, Scores
<1>4. full \in Scores /\ full[a] = now
  BY <1>1, <1>3 DEF Add, Scores
<1>5. full \in [Id -> Nat]
  BY <1>2, <1>4 DEF Scores
<1>6. \A b \in Id : b # a => full[b] = IF old[b] > Cutoff THEN old[b] ELSE 0
  BY <1>3 DEF Add, DropOld, Only, Scores
<1>7. Recorded(old, a) = Only(full, Newest(full, Members(full), MemberCap))
  BY DEF Recorded, Cap
<1> QED  BY <1>3, <1>4, <1>5, <1>6, <1>7

\* The cap holds, and what is kept keeps its score.
LEMMA CapHolds ==
  ASSUME NEW set \in Scores
  PROVE  /\ Cap(set) \in Scores
         /\ Members(Cap(set)) = Newest(set, Members(set), MemberCap)
         /\ \A a \in Members(Cap(set)) : Cap(set)[a] = set[a]
         /\ Cardinality(Members(Cap(set))) <= MemberCap
<1>1. 0 \in Time /\ Time \subseteq Nat
  BY Bounds DEF Time
<1>2. Cap(set) \in Scores
  BY <1>1 DEF Cap, Only, Scores
<1>3. set \in [Id -> Nat] /\ Members(set) \in SUBSET Id
  BY <1>1 DEF Scores, Members
<1>4. Members(Cap(set)) = Newest(set, Members(set), MemberCap)
  BY DEF Cap, Only, Members, Newest
<1>5. \A a \in Members(Cap(set)) : Cap(set)[a] = set[a]
  BY DEF Cap, Only, Members
<1> QED  BY <1>2, <1>3, <1>4, <1>5, NewestAtMost, Bounds

\* The types, and the cap.
LEMMA CheckType ==
  ASSUME TypeOK, NEW a \in Id, Check(a)
  PROVE  TypeOK'
<1>1. ASSUME NEW s \in Signal
      PROVE  /\ index'[s] \in Scores /\ Cardinality(Members(index'[s])) <= MemberCap
             /\ expires'[s] \in 0..MaxNow + Window
  <2>1. CASE s \in SignalsOf[a]
    <3>1. index'[s] = Cap(Add(DropOld(index[s]), a)) /\ expires'[s] = now + Window
      BY <2>1 DEF Check, RecordedAll, Recorded, Expiry
    <3>2. Add(DropOld(index[s]), a) \in Scores
      BY RecordedIs
    <3>3. now + Window \in 0..MaxNow + Window
      BY ScoresAre, Bounds DEF Time
    <3> QED  BY <3>1, <3>2, <3>3, CapHolds
  <2>2. CASE s \notin SignalsOf[a]
    BY <2>2 DEF Check, RecordedAll, TypeOK
  <2> QED  BY <2>1, <2>2
<1>2. index' \in [Signal -> Scores] /\ expires' \in [Signal -> 0..MaxNow + Window]
  BY <1>1 DEF Check, RecordedAll
<1>3. seen' \in Scores /\ now' \in Time \ {0}
  BY DEF Check, Add, TypeOK, Scores
<1> QED  BY <1>1, <1>2, <1>3 DEF TypeOK

\* The account that is checked becomes the newest of its signals' sets, and what
\* is trimmed is out of the window or behind the cap.
LEMMA CheckInv ==
  ASSUME IndexInv, NEW d \in Id, Check(d)
  PROVE  IndexInv'
<1>1. TypeOK /\ TypeOK'
  BY CheckType DEF IndexInv
<1>2. /\ seen' = [seen EXCEPT ![d] = now] /\ now' = now /\ Cutoff' = Cutoff
      /\ seen \in [Id -> Nat] /\ now \in Nat /\ now # 0 /\ Cutoff \in Nat /\ Cutoff < now
  <2>1. Signal = {} => seen \in [Id -> Nat] /\ now \in Nat /\ now # 0 /\ Cutoff \in Nat /\ Cutoff < now
    BY Bounds, CampaignAssumption, <1>1 DEF TypeOK, Scores, Time, Cutoff
  <2>2. seen \in [Id -> Nat] /\ now \in Nat /\ now # 0 /\ Cutoff \in Nat /\ Cutoff < now
    BY <1>1, <2>1, ScoresAre
  <2> QED  BY <2>2 DEF Check, Add, Cutoff
<1>3. \A a \in Id : seen'[a] <= now'
  BY <1>2 DEF IndexInv
<1>4. ASSUME NEW s \in Signal, s \notin SignalsOf[d]
      PROVE  Truthful(s)' /\ Unexpired(s)' /\ Complete(s)'
  <2>1. index'[s] = index[s] /\ expires'[s] = expires[s]
    BY <1>4 DEF Check, RecordedAll
  <2>2. d \notin Holders(s) /\ Holders(s) \in SUBSET Id
    BY <1>4 DEF Holders
  <2>3. \A a \in Holders(s) : seen'[a] = seen[a]
    BY <1>2, <2>2
  <2>4. History(s)' = History(s)
    BY <2>3 DEF History, Only, Holders
  <2>5. Recent(History(s))' = Recent(History(s))
    BY <1>2, <2>4 DEF Recent
  <2>6. Truthful(s)' /\ Unexpired(s)'
    BY <2>1, <2>3 DEF IndexInv, Truthful, Unexpired, Holders
  <2>7. Complete(s)'
    BY <2>1, <2>4, <2>5 DEF IndexInv, Complete
  <2> QED  BY <2>6, <2>7
<1>5. ASSUME NEW s \in Signal, s \in SignalsOf[d]
      PROVE  Truthful(s)' /\ Unexpired(s)' /\ Complete(s)'
  <2> DEFINE old == index[s]
             full == Add(DropOld(old), d)
             all == History(s)
             later == History(s)'
  <2>1. index'[s] = Cap(full) /\ expires'[s] = now + Window
    BY <1>5 DEF Check, RecordedAll, Recorded, Expiry
  <2>2. /\ full \in Scores /\ full \in [Id -> Nat] /\ full[d] = now
        /\ \A b \in Id : b # d => full[b] = IF old[b] > Cutoff THEN old[b] ELSE 0
    BY <1>1, RecordedIs
  <2>3. d \in Holders(s)
    BY <1>5 DEF Holders
  <2>4. /\ old \in [Id -> Nat] /\ all \in [Id -> Nat]
        /\ later = [all EXCEPT ![d] = now] /\ later \in [Id -> Nat]
    <3>1. old \in [Id -> Nat] /\ all \in [Id -> Nat]
      BY <1>1, ScoresAre
    <3>2. later = [all EXCEPT ![d] = now]
      BY <1>2, <2>3 DEF History, Only, Holders
    <3> QED  BY <1>2, <3>1, <3>2
  <2>5. \A a \in Members(full) : /\ a \in Id /\ a \in Holders(s)
                                 /\ full[a] = seen'[a] /\ full[a] = later[a]
                                 /\ later[a] > Cutoff
    <3>1. ASSUME NEW a \in Members(full), a # d
          PROVE  a \in Id /\ a \in Holders(s) /\ full[a] = seen[a] /\ full[a] > Cutoff
      <4>1. a \in Id /\ full[a] = old[a] /\ old[a] > Cutoff /\ old[a] # 0
        BY <1>2, <2>2, <3>1 DEF Members
      <4> QED  BY <4>1 DEF IndexInv, Truthful, Members
    <3>2. ASSUME NEW a \in Members(full), a # d PROVE later[a] = seen[a] /\ seen'[a] = seen[a]
      BY <1>2, <2>4, <3>1, <3>2 DEF History, Only
    <3>3. seen'[d] = now /\ later[d] = now
      BY <1>2, <2>4
    <3> QED  BY <1>2, <2>2, <2>3, <3>1, <3>2, <3>3 DEF Members
  <2>6. Truthful(s)'
    <3>1. ASSUME NEW a \in Members(Cap(full)) PROVE a \in Holders(s) /\ Cap(full)[a] = seen'[a]
      <4>1. a \in Members(full) /\ Cap(full)[a] = full[a]
        BY <2>2, <3>1, CapHolds DEF Newest
      <4> QED  BY <2>5, <4>1
    <3> QED  BY <2>1, <3>1 DEF Truthful, Holders
  <2>7. Unexpired(s)'
    <3>1. \A a \in Holders(s) : seen'[a] + Window <= now + Window
      BY <1>2, <1>3, Bounds DEF Holders
    <3> QED  BY <2>1, <3>1 DEF Unexpired, Holders
  <2>8. Complete(s)'
    <3> DEFINE wide == {a \in Id : later[a] > Cutoff}
               before == Recent(all)
    <3>1. ASSUME NEW a \in Newest(later, wide, MemberCap) PROVE a \in Members(Cap(full))
      <4>1. a \in wide /\ a \in Id /\ later[a] > Cutoff
        BY <3>1 DEF Newest
      <4>2. a \in Members(full)
        <5>1. CASE a = d
          BY <1>2, <2>2, <5>1 DEF Members
        <5>2. CASE a # d
          <6>1. a \in before /\ all[a] = later[a]
            BY <2>4, <4>1, <5>2 DEF Recent
          <6>2. Above(all, before, a) \in SUBSET Above(later, wide, a)
            <7>1. all[d] <= now
              BY <1>2 DEF IndexInv, History, Only
            <7>2. ASSUME NEW b \in before, Newer(all, b, a)
                  PROVE  b \in wide /\ Newer(later, b, a)
              <8>1. b \in Id /\ all[b] > Cutoff /\ all[b] \in Nat /\ all[a] \in Nat /\ a \in Nat
                BY <2>4, <4>1, <7>2, Bounds DEF Recent, Id
              <8>2. CASE b = d
                BY <1>2, <2>4, <6>1, <7>1, <7>2, <8>1, <8>2 DEF Newer
              <8>3. CASE b # d
                BY <2>4, <6>1, <7>2, <8>1, <8>3 DEF Newer
              <8> QED  BY <8>2, <8>3
            <7> QED  BY <7>2 DEF Above
          <6>3. Above(later, wide, a) \in SUBSET Id
            BY DEF Above
          <6>4. /\ IsFiniteSet(Above(later, wide, a))
                /\ Cardinality(Above(later, wide, a)) \in Nat
                /\ Cardinality(Above(all, before, a)) \in Nat
            BY <6>2, <6>3, IdsAreFinite
          <6>5. Cardinality(Above(all, before, a)) <= Cardinality(Above(later, wide, a))
            BY <6>2, <6>4, FS_Subset
          <6>6. Cardinality(Above(later, wide, a)) < MemberCap
            BY <3>1, NewestIs DEF Rank
          <6>7. Cardinality(Above(all, before, a)) < MemberCap
            BY <6>4, <6>5, <6>6, Bounds
          <6>8. a \in Newest(all, before, MemberCap)
            BY <6>1, <6>7, NewestIs DEF Rank
          <6>9. a \in Members(old)
            BY <6>8 DEF IndexInv, Complete
          <6>10. old[a] = later[a]
            BY <6>1, <6>9, <4>1 DEF IndexInv, Truthful, History, Only
          <6> QED  BY <1>2, <2>2, <4>1, <5>2, <6>10 DEF Members
        <5> QED  BY <5>1, <5>2
      <4>3. /\ Members(full) \in SUBSET Id /\ wide \in SUBSET Id /\ Members(full) \subseteq wide
            /\ \A b \in Members(full) : full[b] = later[b]
        BY <2>5 DEF Members
      <4>4. a \in Newest(full, Members(full), MemberCap)
        <5> HIDE DEF full, later, wide
        <5> QED  BY <2>2, <2>4, <3>1, <4>2, <4>3, NewestOfFewer, Bounds
      <4> QED  BY <2>2, <4>4, CapHolds
    <3> QED  BY <1>2, <2>1, <3>1 DEF Complete, Recent
  <2> QED  BY <2>6, <2>7, <2>8
<1> QED  BY <1>1, <1>3, <1>4, <1>5 DEF IndexInv

-----------------------------------------------------------------------------
(* The clock *)

\* A set that Redis drops is out of the window, and the window only moves on.
LEMMA TickInv ==
  ASSUME IndexInv, Tick
  PROVE  IndexInv'
<1>1. /\ now \in Nat /\ now < MaxNow /\ now' = now + 1 /\ seen' = seen
      /\ MaxNow \in Nat /\ Window \in Nat /\ Window # 0 /\ MemberCap \in Nat
      /\ seen \in [Id -> Nat]
  BY CampaignAssumption DEF IndexInv, TypeOK, Time, Scores, Tick
<1>2. Cutoff \in Nat /\ Cutoff' \in Nat /\ Cutoff <= Cutoff'
  BY <1>1 DEF Cutoff
<1>3. Empty \in Scores /\ Members(Empty) = {} /\ Cardinality(Members(Empty)) <= MemberCap
  <2>1. Empty \in Scores /\ Members(Empty) = {}
    BY <1>1 DEF Empty, Scores, Time, Members
  <2> QED  BY <1>1, <2>1, FS_EmptySet
<1>4. TypeOK'
  <2>1. now' \in Time \ {0}
    BY <1>1 DEF Time
  <2>2. index' \in [Signal -> Scores] /\ expires' \in [Signal -> 0..MaxNow + Window]
    BY <1>1, <1>3 DEF Tick, IndexInv, TypeOK
  <2>3. \A s \in Signal : Cardinality(Members(index'[s])) <= MemberCap
    BY <1>3 DEF Tick, IndexInv, TypeOK
  <2>4. seen' \in Scores
    BY <1>1 DEF IndexInv, TypeOK
  <2> QED  BY <2>1, <2>2, <2>3, <2>4 DEF TypeOK
<1>5. \A a \in Id : seen'[a] <= now'
  BY <1>1 DEF IndexInv
<1>6. ASSUME NEW s \in Signal PROVE Truthful(s)' /\ Unexpired(s)' /\ Complete(s)'
  <2> DEFINE all == History(s)
             before == Recent(all)
             after == {a \in Id : all[a] > Cutoff'}
  <2>1. all \in [Id -> Nat] /\ History(s)' = all
    BY <1>1 DEF History, Only
  <2>2. after \in SUBSET before /\ before \in SUBSET Id
    BY <1>2, <2>1 DEF Recent
  <2>3. CASE Dropped(s)
    <3>1. index'[s] = Empty /\ expires'[s] = 0
      BY <2>3 DEF Tick
    <3>2. ASSUME NEW a \in after PROVE FALSE
      <4>1. a \in Id /\ all[a] > Cutoff' /\ all[a] \in Nat
        BY <2>1, <3>2
      <4>2. a \in Holders(s) /\ all[a] = seen[a]
        BY <1>2, <4>1 DEF History, Only
      <4>3. expires[s] # 0 /\ expires[s] <= now' /\ seen[a] + Window <= expires[s]
        BY <2>3, <4>2 DEF Dropped, IndexInv, Unexpired
      <4>4. expires[s] \in Nat
        BY <1>1 DEF IndexInv, TypeOK
      <4>5. seen[a] + Window <= now'
        BY <1>1, <4>1, <4>2, <4>3, <4>4
      <4> QED  BY <1>1, <4>1, <4>2, <4>5 DEF Cutoff
    <3>3. Complete(s)'
      BY <2>1, <3>2 DEF Complete, Recent, Newest
    <3> QED  BY <1>3, <3>1, <3>3 DEF Truthful, Unexpired
  <2>4. CASE ~Dropped(s)
    <3>1. index'[s] = index[s] /\ expires'[s] = expires[s]
      BY <2>4 DEF Tick
    <3>2. Truthful(s)' /\ Unexpired(s)'
      BY <1>1, <3>1 DEF IndexInv, Truthful, Unexpired, Holders
    <3>3. ASSUME NEW a \in Newest(all, after, MemberCap) PROVE a \in Members(index[s])
      <4>1. a \in after /\ a \in before /\ a \in Id /\ all[a] > Cutoff'
        BY <2>2, <3>3 DEF Newest
      <4>2. Above(all, before, a) \subseteq Above(all, after, a)
        BY <1>2, <2>1, <4>1 DEF Above, Newer, Recent
      <4>3. Above(all, before, a) = Above(all, after, a)
        BY <2>2, <4>2 DEF Above
      <4>4. a \in Newest(all, before, MemberCap)
        BY <3>3, <4>1, <4>3, NewestIs DEF Rank
      <4> QED  BY <4>4 DEF IndexInv, Complete
    <3>4. Complete(s)'
      BY <2>1, <3>1, <3>3 DEF Complete, Recent
    <3> QED  BY <3>2, <3>4
  <2> QED  BY <2>3, <2>4
<1> QED  BY <1>4, <1>5, <1>6 DEF IndexInv

-----------------------------------------------------------------------------
\* Every step keeps the invariant.
LEMMA StepInv == IndexInv /\ [Next]_vars => IndexInv'
<1> SUFFICES ASSUME IndexInv, [Next]_vars PROVE IndexInv'
  OBVIOUS
<1>1. CASE UNCHANGED vars
  <2>1. TypeOK' /\ \A a \in Id : seen'[a] <= now'
    BY <1>1 DEF vars, IndexInv, TypeOK
  <2>2. ASSUME NEW s \in Signal PROVE Truthful(s)' /\ Unexpired(s)'
    BY <1>1 DEF vars, IndexInv, Truthful, Unexpired
  <2>3. ASSUME NEW s \in Signal PROVE Complete(s)'
    <3>1. History(s)' = History(s) /\ Cutoff' = Cutoff
      BY <1>1 DEF vars, History, Cutoff
    <3>2. Recent(History(s))' = Recent(History(s))
      BY <3>1 DEF Recent
    <3> QED  BY <1>1, <3>1, <3>2 DEF vars, IndexInv, Complete
  <2> QED  BY <2>1, <2>2, <2>3 DEF IndexInv
<1>2. CASE Next
  BY <1>2, TickInv, CheckInv DEF Next
<1> QED  BY <1>1, <1>2

\* The index is well formed, and no set of it outgrows its cap
\* (ZREMRANGEBYRANK, src/src/redis.rs, campaign_context).
THEOREM TypeCorrect == Spec => []TypeOK
<1>1. IndexInv => TypeOK
  BY DEF IndexInv
<1> QED  BY <1>1, InitInv, StepInv, PTL DEF Spec

\* Trimming by age, capping by rank and expiry lose no match: each read returns
\* what the full history of the accounts with the signal would (campaign_context).
THEOREM IndexIsLosslessCorrect == Spec => []IndexIsLossless
<1>1. IndexInv => IndexIsLossless
  BY IndexInvLossless
<1> QED  BY <1>1, InitInv, StepInv, PTL DEF Spec
=============================================================================
