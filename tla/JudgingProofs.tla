---------------------------- MODULE JudgingProofs ----------------------------
(***************************************************************************)
(* What a verdict may rest on, for every configuration, every account and  *)
(* whatever numbers the models report.                                     *)
(***************************************************************************)
EXTENDS Judging, TLAPS

Before == {"statuses", "campaign", "classify"} \cup Documents

\* A check has failed when a service of ours has, and only then.
FaultInv == (judging = "failed" => faults # {}) /\ (faults # {} => judging = "failed")

\* There is no flag before the classification and none that is forgotten after it;
\* only a flag is reviewed, only if a review is configured, and only once.
FlagInv ==
  /\ judging \in Before => flag = NoVerdict /\ review = "none" /\ verdict = NoVerdict
  /\ judging = "review" =>
       flag.spam /\ config.review /\ review = "none" /\ verdict = NoVerdict
  /\ FlagIsNotBuried

\* A decision model's verdict stands on the right side of the threshold.
FlagMeetsThreshold ==
  flag # NoVerdict =>
    /\ Scale - SpamProbability(flag) < config.threshold => flag.spam
    /\ flag.spam => Scale - SpamProbability(flag) < config.threshold

\* The number of requests so far, by where the check is.
MayHaveVisited ==
  CASE judging = "statuses" -> 0
    [] judging = "actor" -> 1
    [] judging = "outbox" -> 2
    [] OTHER -> 3

RequestInv ==
  /\ Len(visited) <= MayHaveVisited
  /\ judging \in Documents => config.remote /\ subject.remote
  /\ judging \in Documents \cup {"statuses"} => posts = "nobody"
  /\ \A i \in 1..Len(visited) : visited[i] = "home"
  /\ visited # <<>> => config.remote /\ subject.remote /\ posts # "mastodon"

-----------------------------------------------------------------------------
(* Numbers *)

\* Whatever a model reports, what is kept lies between 0.0 and 1.0.
THEOREM NormalizedInRange ==
  ASSUME NEW c \in Reported
  PROVE  Normalized(c) \in 0..Scale
<1>0. Scale \in Nat /\ Scale # 0 /\ NaN \notin Int  BY JudgingAssumption
<1>1. CASE c = NaN  BY <1>0, <1>1 DEF Normalized
<1>2. CASE c # NaN
  <2>1. c \in Int  BY <1>2, JudgingAssumption
  <2>2. Scale < c /\ c <= 100 * Scale => c \div 100 \in 0..Scale  BY <1>0, <2>1
  <2> QED  BY <1>0, <1>2, <2>1, <2>2 DEF Normalized
<1> QED  BY <1>1, <1>2

\* A probability in percent is the probability.
THEOREM ScalesAgreeHolds == ScalesAgree
<1>0. Scale \in Nat /\ Scale # 0 /\ NaN \notin Int  BY JudgingAssumption
<1>1. SUFFICES ASSUME NEW p \in Reported \cap 0..Scale, Scale < 100 * p
               PROVE  Normalized(100 * p) = Normalized(p)
  BY DEF ScalesAgree
<1>2. p \in Int /\ 0 <= p /\ p <= Scale  BY <1>0
<1>3. Normalized(p) = p  BY <1>0, <1>2 DEF Normalized
<1>4. (100 * p) \div 100 = p /\ 100 * p <= 100 * Scale /\ 100 * p \in Int  BY <1>0, <1>2
<1>5. Normalized(100 * p) = p
  <2>1. 100 * p # NaN /\ ~(100 * p < 0)  BY <1>0, <1>2, <1>4
  <2> QED  BY <1>1, <1>4, <2>1 DEF Normalized
<1> QED  BY <1>3, <1>5

\* What a decision model reports becomes a verdict in range.
LEMMA DecisionInRange ==
  ASSUME NEW p \in Reported, NEW threshold \in Threshold
  PROVE  DecisionVerdict(p, threshold) \in [spam : BOOLEAN, confidence : 0..Scale]
<1> DEFINE n == Normalized(p)
<1>0. Scale \in Nat /\ threshold \in Nat  BY JudgingAssumption
<1>1. n \in 0..Scale  BY NormalizedInRange
<1> HIDE DEF n
<1>2. (IF Scale - n < threshold THEN n ELSE Scale - n) \in 0..Scale  BY <1>0, <1>1
<1>3. (Scale - n < threshold) \in BOOLEAN  OBVIOUS
<1>4. DecisionVerdict(p, threshold) =
        [spam |-> Scale - n < threshold,
         confidence |-> IF Scale - n < threshold THEN n ELSE Scale - n]
  BY DEF DecisionVerdict, n
<1> QED  BY <1>2, <1>3, <1>4

\* The probability that a decision model gave is the one its verdict says, and it
\* is spam exactly on one side of the threshold.
LEMMA DecisionMeetsThreshold ==
  ASSUME NEW p \in Reported, NEW threshold \in Threshold
  PROVE  LET v == DecisionVerdict(p, threshold) IN
           /\ Scale - SpamProbability(v) < threshold => v.spam
           /\ v.spam => Scale - SpamProbability(v) < threshold
<1> DEFINE n == Normalized(p)
           v == DecisionVerdict(p, threshold)
<1>0. Scale \in Nat /\ threshold \in Nat  BY JudgingAssumption
<1>1. n \in 0..Scale  BY NormalizedInRange
<1>2. /\ v.spam <=> Scale - n < threshold
      /\ v.confidence = IF Scale - n < threshold THEN n ELSE Scale - n
  BY DEF DecisionVerdict
<1> HIDE DEF n, v
<1>3. SpamProbability(v) = n
  <2>1. CASE Scale - n < threshold
    <3>1. v.spam  BY <1>2, <2>1
    <3>2. v.confidence = n  BY <1>2, <2>1
    <3> QED  BY <3>1, <3>2 DEF SpamProbability
  <2>2. CASE ~(Scale - n < threshold)
    <3>1. ~v.spam  BY <1>2, <2>2
    <3>2. v.confidence = Scale - n  BY <1>2, <2>2
    <3>3. SpamProbability(v) = Scale - v.confidence  BY <3>1 DEF SpamProbability
    <3> QED  BY <1>0, <1>1, <3>2, <3>3
  <2> QED  BY <2>1, <2>2
<1>4. /\ Scale - SpamProbability(v) < threshold => v.spam
      /\ v.spam => Scale - SpamProbability(v) < threshold
  BY <1>2, <1>3
<1> QED  BY <1>4 DEF v

\* So does what a chat model reports.
LEMMA ParsedInRange ==
  ASSUME NEW reply \in Completion
  PROVE  ParsedVerdict(reply) \in [spam : BOOLEAN, confidence : 0..Scale]
<1>1. reply.spam \in BOOLEAN /\ reply.confidence \in Reported  BY DEF Completion
<1>2. Normalized(reply.confidence) \in 0..Scale  BY <1>1, NormalizedInRange
<1> QED  BY <1>1, <1>2 DEF ParsedVerdict

\* A verdict in range is one, and says a probability.
LEMMA RealVerdict ==
  ASSUME NEW v \in [spam : BOOLEAN, confidence : 0..Scale]
  PROVE  v \in Verdicts /\ v # NoVerdict /\ SpamProbability(v) \in 0..Scale
<1>0. Scale \in Nat  BY JudgingAssumption
<1>1. v.confidence \in 0..Scale  OBVIOUS
<1>2. v.confidence # -1  BY <1>0, <1>1
<1>3. v # NoVerdict  BY <1>2 DEF NoVerdict
<1>4. Scale - v.confidence \in 0..Scale  BY <1>0, <1>1
<1>5. SpamProbability(v) \in {v.confidence, Scale - v.confidence}  BY DEF SpamProbability
<1>6. v \in Verdicts  BY DEF Verdicts
<1> QED  BY <1>1, <1>3, <1>4, <1>5, <1>6

-----------------------------------------------------------------------------
(* Types *)

\* The first state is typed.
LEMMA JudgeInitType == JudgeInit => JudgeTypeOK
<1> SUFFICES ASSUME JudgeInit PROVE JudgeTypeOK  OBVIOUS
<1>1. visited \in Seq(Url) /\ Len(visited) <= 3  BY DEF JudgeInit
<1>2. flag \in Verdicts /\ verdict \in Verdicts  BY DEF JudgeInit, Verdicts
<1> QED  BY <1>1, <1>2 DEF JudgeInit, JudgeTypeOK

\* Where a request may be made from, and to, there is room for it.
LEMMA VisitType ==
  ASSUME JudgeTypeOK, RequestInv, NEW document \in Documents, NEW url \in Url,
         Visit(document, url), judging \in {"statuses", "actor", "outbox"}
  PROVE  JudgeTypeOK'
<1>1. visited \in Seq(Url)  BY DEF JudgeTypeOK
<1>2. Len(visited) <= 2  BY DEF RequestInv, MayHaveVisited
<1>3. visited' = Append(visited, url)  BY DEF Visit
<1>4. visited' \in Seq(Url)  BY <1>1, <1>3
<1>5. Len(visited') = Len(visited) + 1  BY <1>1, <1>3
<1>6. Len(visited) \in Nat  BY <1>1
<1>7. Len(visited') <= 3  BY <1>2, <1>5, <1>6
<1>8. judging' \in Documents  BY DEF Visit, Goto
<1> QED  BY <1>4, <1>7, <1>8 DEF JudgeTypeOK, Visit, Fixed

\* So is the state once the posts are there,
LEMMA HaveType ==
  ASSUME JudgeTypeOK, NEW whose \in {"nobody", "mastodon", "remote"}, Have(whose),
         UNCHANGED visited
  PROVE  JudgeTypeOK'
BY DEF JudgeTypeOK, Have, Goto, Fixed

\* after a failure,
LEMMA FailsType ==
  ASSUME JudgeTypeOK, NEW service \in {"mastodon", "redis", "classifier"}, FailsBy(service)
  PROVE  JudgeTypeOK'
BY DEF JudgeTypeOK, FailsBy, Goto, Fixed, Outcome

\* after an unusable reply,
LEMMA UndeterminedType == ASSUME JudgeTypeOK, Undetermined PROVE JudgeTypeOK'
BY DEF JudgeTypeOK, Undetermined, Goto, Fixed, Outcome

\* and after a verdict.
LEMMA ConcludesType ==
  ASSUME JudgeTypeOK, NEW v \in Verdicts, Concludes(v), flag' \in Verdicts,
         review' \in {"none", "unusable"} \cup Opinion
  PROVE  JudgeTypeOK'
BY DEF JudgeTypeOK, Concludes, Said, Goto, Fixed, Outcome

\* A link that is followed leads to the actor's origin.
LEMMA FollowedIsHome ==
  ASSUME NEW url \in Url, Follows(url) PROVE url = "home"
BY DEF Follows

\* Every step keeps the types, given that requests stay within bounds.
LEMMA JudgeStepType == JudgeTypeOK /\ RequestInv /\ [JudgeNext]_judgeVars => JudgeTypeOK'
<1> SUFFICES ASSUME JudgeTypeOK, RequestInv, [JudgeNext]_judgeVars PROVE JudgeTypeOK'
  OBVIOUS
<1>0. config.threshold \in Threshold  BY DEF JudgeTypeOK, Config
<1>1. CASE FetchStatuses
  <2>1. PICK found \in BOOLEAN :
          IF AsksRemote(found) /\ subject.uri = "home"
          THEN Visit("actor", subject.uri)
          ELSE Have(IF found THEN "mastodon" ELSE "nobody") /\ UNCHANGED visited
    BY <1>1 DEF FetchStatuses
  <2>2. CASE AsksRemote(found) /\ subject.uri = "home"
    <3>1. Visit("actor", "home")  BY <2>1, <2>2
    <3>2. judging = "statuses"  BY <1>1 DEF FetchStatuses
    <3> QED  BY <3>1, <3>2, VisitType DEF Documents, Url
  <2>3. CASE ~(AsksRemote(found) /\ subject.uri = "home")
    <3>1. Have(IF found THEN "mastodon" ELSE "nobody") /\ UNCHANGED visited  BY <2>1, <2>3
    <3> QED  BY <3>1, HaveType
  <2> QED  BY <2>2, <2>3
<1>2. CASE FetchStatusesFails  BY <1>2, FailsType DEF FetchStatusesFails
<1>3. CASE RemoteFails  BY <1>3, HaveType DEF RemoteFails
<1>4. CASE FollowLink
  <2>1. PICK url \in Url :
          \/ judging = "actor" /\ Visit("outbox", url)
          \/ judging = "outbox" /\ Visit("page", url)
    BY <1>4 DEF FollowLink
  <2> QED  BY <2>1, VisitType DEF Documents
<1>5. CASE ReadItems
  <2>1. PICK items \in SUBSET Item : Have(PostsIn(items))  BY <1>5 DEF ReadItems
  <2>2. UNCHANGED visited  BY <1>5 DEF ReadItems
  <2>3. PostsIn(items) \in {"remote", "nobody"}  BY DEF PostsIn
  <2> QED  BY <2>1, <2>2, <2>3, HaveType
<1>6. CASE CampaignContext
  BY <1>6 DEF CampaignContext, JudgeTypeOK, Goto, Fixed
<1>7. CASE CampaignContextFails  BY <1>7, FailsType DEF CampaignContextFails
<1>8. CASE Decide
  <2>1. PICK p \in Reported :
          LET v == DecisionVerdict(p, config.threshold) IN
            /\ flag' = v
            /\ IF v.spam /\ config.review
               THEN Goto("review") /\ UNCHANGED <<Fixed, posts, visited, faults, verdict>>
               ELSE Concludes(v)
    BY <1>8 DEF Decide
  <2> DEFINE v == DecisionVerdict(p, config.threshold)
  <2>2. v \in Verdicts  BY <1>0, DecisionInRange, RealVerdict
  <2> HIDE DEF v
  <2>3. flag' = v  BY <2>1 DEF v
  <2>4. review' = review  BY <1>8 DEF Decide
  <2>5. CASE Concludes(v)  BY <2>2, <2>3, <2>4, <2>5, ConcludesType DEF JudgeTypeOK
  <2>6. CASE Goto("review") /\ UNCHANGED <<Fixed, posts, visited, faults, verdict>>
    BY <2>2, <2>3, <2>4, <2>6 DEF JudgeTypeOK, Goto, Fixed
  <2> QED  BY <2>1, <2>5, <2>6 DEF v
<1>9. CASE DecideUnusable  BY <1>9, UndeterminedType DEF DecideUnusable
<1>10. CASE Chat
  <2>1. PICK reply \in Completion :
          IF Usable(reply) THEN Concludes(ParsedVerdict(reply)) /\ UNCHANGED <<flag, review>>
                           ELSE Undetermined
    BY <1>10 DEF Chat
  <2>2. ParsedVerdict(reply) \in Verdicts  BY ParsedInRange, RealVerdict
  <2>3. UNCHANGED <<flag, review>> =>
          flag' \in Verdicts /\ review' \in {"none", "unusable"} \cup Opinion
    BY DEF JudgeTypeOK
  <2> QED  BY <2>1, <2>2, <2>3, ConcludesType, UndeterminedType
<1>11. CASE Review
  <2>1. PICK reply \in Completion :
          /\ review' = SecondOpinion(reply)
          /\ Concludes(IF Usable(reply) THEN ParsedVerdict(reply) ELSE flag)
    BY <1>11 DEF Review
  <2>2. ParsedVerdict(reply) \in Verdicts  BY ParsedInRange, RealVerdict
  <2>3. flag \in Verdicts /\ flag' \in Verdicts  BY <1>11 DEF Review, JudgeTypeOK
  <2>4. SecondOpinion(reply) \in {"unusable"} \cup Opinion
    BY DEF SecondOpinion, Said, Opinion
  <2> QED  BY <2>1, <2>2, <2>3, <2>4, ConcludesType
<1>12. CASE ClassifierFails  BY <1>12, FailsType DEF ClassifierFails
<1>13. CASE NextSubject
  <2>1. visited' \in Seq(Url) /\ Len(visited') <= 3  BY <1>13 DEF NextSubject
  <2>2. flag' \in Verdicts /\ verdict' \in Verdicts  BY <1>13 DEF NextSubject, Verdicts
  <2> QED  BY <1>13, <2>1, <2>2 DEF NextSubject, JudgeTypeOK, Goto
<1>14. CASE UNCHANGED judgeVars  BY <1>14 DEF judgeVars, JudgeTypeOK
<1> QED
  BY <1>1, <1>2, <1>3, <1>4, <1>5, <1>6, <1>7, <1>8, <1>9, <1>10, <1>11, <1>12, <1>13,
     <1>14
  DEF JudgeNext

-----------------------------------------------------------------------------
(* Failures *)

\* Failed checks and failures of our services come together.
LEMMA FaultStepInv == JudgeTypeOK /\ FaultInv /\ [JudgeNext]_judgeVars => FaultInv'
<1> SUFFICES ASSUME JudgeTypeOK, FaultInv, [JudgeNext]_judgeVars PROVE FaultInv'
  OBVIOUS
<1> USE DEF Goto, Fixed, FaultInv
<1>1. ASSUME NEW service, FailsBy(service) PROVE FaultInv'
  <2>1. judging' = "failed" /\ faults' = faults \cup {service}  BY <1>1 DEF FailsBy
  <2>2. faults' # {}  BY <2>1
  <2> QED  BY <2>1, <2>2
<1>2. ASSUME judging # "failed", judging' # "failed", UNCHANGED faults PROVE FaultInv'
  BY <1>2
<1>3. ASSUME NEW whose, Have(whose), judging # "failed" PROVE FaultInv'
  BY <1>2, <1>3 DEF Have
<1>4. ASSUME NEW document \in Documents, NEW url, Visit(document, url), judging # "failed"
      PROVE  FaultInv'
  BY <1>2, <1>4 DEF Visit, Documents
<1>5. ASSUME NEW v, Concludes(v), judging # "failed" PROVE FaultInv'
  BY <1>2, <1>5 DEF Concludes, Said
<1>6. ASSUME Undetermined, judging # "failed" PROVE FaultInv'
  BY <1>2, <1>6 DEF Undetermined
<1>7. CASE FetchStatuses  BY <1>3, <1>4, <1>7 DEF FetchStatuses, Documents
<1>8. CASE FetchStatusesFails \/ CampaignContextFails \/ ClassifierFails
  BY <1>1, <1>8 DEF FetchStatusesFails, CampaignContextFails, ClassifierFails
<1>9. CASE RemoteFails  BY <1>3, <1>9 DEF RemoteFails, Documents
<1>10. CASE FollowLink  BY <1>4, <1>10 DEF FollowLink, Documents
<1>11. CASE ReadItems  BY <1>3, <1>11 DEF ReadItems
<1>12. CASE CampaignContext  BY <1>2, <1>12 DEF CampaignContext
<1>13. CASE Decide
  <2>1. judging = "classify"  BY <1>13 DEF Decide
  <2>2. PICK v : Concludes(v) \/ (Goto("review") /\ UNCHANGED <<Fixed, posts, visited, faults, verdict>>)
    BY <1>13 DEF Decide
  <2> QED  BY <1>2, <1>5, <2>1, <2>2
<1>14. CASE DecideUnusable  BY <1>6, <1>14 DEF DecideUnusable
<1>15. CASE Chat  BY <1>5, <1>6, <1>15 DEF Chat
<1>16. CASE Review  BY <1>5, <1>16 DEF Review
<1>17. CASE NextSubject  BY <1>17 DEF NextSubject
<1>18. CASE UNCHANGED judgeVars  BY <1>18 DEF judgeVars
<1> QED
  BY <1>7, <1>8, <1>9, <1>10, <1>11, <1>12, <1>13, <1>14, <1>15, <1>16, <1>17, <1>18
  DEF JudgeNext

-----------------------------------------------------------------------------
(* Requests *)

\* A request to the actor's origin for the next document is within bounds.
LEMMA VisitInv ==
  ASSUME JudgeTypeOK, RequestInv, NEW document \in Documents, Visit(document, "home"),
         config.remote, subject.remote, posts = "nobody",
         \/ judging = "statuses" /\ document = "actor"
         \/ judging = "actor" /\ document = "outbox"
         \/ judging = "outbox" /\ document = "page"
  PROVE  RequestInv'
<1>1. visited \in Seq(Url)  BY DEF JudgeTypeOK
<1>2. /\ visited' = Append(visited, "home") /\ judging' = document
      /\ config' = config /\ subject' = subject /\ posts' = posts
  BY DEF Visit, Goto, Fixed
<1>3. Len(visited) \in Nat /\ Len(visited') = Len(visited) + 1  BY <1>1, <1>2
<1>4. Len(visited) <= MayHaveVisited  BY DEF RequestInv
<1>5. Len(visited') <= MayHaveVisited'
  <2>1. CASE judging = "statuses" /\ document = "actor"
    BY <1>2, <1>3, <1>4, <2>1 DEF MayHaveVisited
  <2>2. CASE judging = "actor" /\ document = "outbox"
    BY <1>2, <1>3, <1>4, <2>2 DEF MayHaveVisited
  <2>3. CASE judging = "outbox" /\ document = "page"
    BY <1>2, <1>3, <1>4, <2>3 DEF MayHaveVisited
  <2> QED  BY <2>1, <2>2, <2>3
<1>6. \A i \in 1..Len(visited') : visited'[i] = "home"
  <2> TAKE i \in 1..Len(visited')
  <2>1. CASE i = Len(visited) + 1  BY <1>1, <1>2, <2>1
  <2>2. CASE i # Len(visited) + 1
    <3>1. i \in 1..Len(visited)  BY <1>3, <2>2
    <3>2. visited'[i] = visited[i]  BY <1>1, <1>2, <3>1
    <3> QED  BY <3>1, <3>2 DEF RequestInv
  <2> QED  BY <2>1, <2>2
<1>7. config'.remote /\ subject'.remote /\ posts' = "nobody"  BY <1>2
<1> QED  BY <1>5, <1>6, <1>7 DEF RequestInv

\* Without a request, nothing changes but where the check is, as long as the new
\* place allows for as many requests and asks for none.
LEMMA NoVisitInv ==
  ASSUME JudgeTypeOK, RequestInv, UNCHANGED <<config, subject, visited, posts>>,
         judging' \notin Documents \cup {"statuses"}
  PROVE  RequestInv'
<1>1. Len(visited) <= 3  BY DEF JudgeTypeOK
<1>2. MayHaveVisited' = 3  BY DEF MayHaveVisited, Documents
<1> QED  BY <1>1, <1>2 DEF RequestInv

\* Once the posts are there no more requests are made.
LEMMA HaveInv ==
  ASSUME JudgeTypeOK, RequestInv, NEW whose, Have(whose), UNCHANGED visited,
         visited # <<>> => whose # "mastodon"
  PROVE  RequestInv'
<1>1. Len(visited) <= 3  BY DEF JudgeTypeOK
<1>2. /\ judging' = "campaign" /\ posts' = whose /\ visited' = visited
      /\ config' = config /\ subject' = subject
  BY DEF Have, Goto, Fixed
<1>3. MayHaveVisited' = 3 /\ judging' \notin Documents
  BY <1>2 DEF MayHaveVisited, Documents
<1> QED  BY <1>1, <1>2, <1>3 DEF RequestInv

\* Every step keeps requests within bounds.
LEMMA RequestStepInv == JudgeTypeOK /\ RequestInv /\ [JudgeNext]_judgeVars => RequestInv'
<1> SUFFICES ASSUME JudgeTypeOK, RequestInv, [JudgeNext]_judgeVars PROVE RequestInv'
  OBVIOUS
<1>0. visited \in Seq(Url)  BY DEF JudgeTypeOK
<1>1. CASE FetchStatuses
  <2>1. judging = "statuses"  BY <1>1 DEF FetchStatuses
  <2>2. Len(visited) <= 0  BY <2>1 DEF RequestInv, MayHaveVisited
  <2>3. visited = <<>>  BY <1>0, <2>2
  <2>4. PICK found \in BOOLEAN :
          IF AsksRemote(found) /\ subject.uri = "home"
          THEN Visit("actor", subject.uri)
          ELSE Have(IF found THEN "mastodon" ELSE "nobody") /\ UNCHANGED visited
    BY <1>1 DEF FetchStatuses
  <2>5. CASE AsksRemote(found) /\ subject.uri = "home"
    <3>1. Visit("actor", "home")  BY <2>4, <2>5
    <3>2. config.remote /\ subject.remote  BY <2>5 DEF AsksRemote
    <3>3. posts = "nobody"  BY <2>1 DEF RequestInv
    <3> QED  BY <2>1, <3>1, <3>2, <3>3, VisitInv DEF Documents
  <2>6. CASE ~(AsksRemote(found) /\ subject.uri = "home")
    <3>1. Have(IF found THEN "mastodon" ELSE "nobody") /\ UNCHANGED visited  BY <2>4, <2>6
    <3> QED  BY <2>3, <3>1, HaveInv
  <2> QED  BY <2>5, <2>6
<1>2. CASE FetchStatusesFails \/ CampaignContextFails \/ ClassifierFails
  <2>1. PICK service : FailsBy(service)
    BY <1>2 DEF FetchStatusesFails, CampaignContextFails, ClassifierFails
  <2> QED  BY <2>1, NoVisitInv DEF FailsBy, Goto, Fixed, Documents
<1>3. CASE RemoteFails  BY <1>3, HaveInv DEF RemoteFails
<1>4. CASE FollowLink
  <2>1. PICK url \in Url :
          /\ Follows(url)
          /\ \/ judging = "actor" /\ Visit("outbox", url)
             \/ judging = "outbox" /\ Visit("page", url)
    BY <1>4 DEF FollowLink
  <2>2. url = "home"  BY <2>1, FollowedIsHome
  <2>3. judging \in Documents  BY <2>1 DEF Documents
  <2>4. config.remote /\ subject.remote /\ posts = "nobody"  BY <2>3 DEF RequestInv
  <2> QED  BY <2>1, <2>2, <2>4, VisitInv DEF Documents
<1>5. CASE ReadItems
  <2>1. PICK items \in SUBSET Item : Have(PostsIn(items))  BY <1>5 DEF ReadItems
  <2>2. UNCHANGED visited  BY <1>5 DEF ReadItems
  <2>3. PostsIn(items) # "mastodon"  BY DEF PostsIn
  <2> QED  BY <2>1, <2>2, <2>3, HaveInv
<1>6. CASE CampaignContext
  BY <1>6, NoVisitInv DEF CampaignContext, Goto, Fixed, Documents
<1>7. ASSUME NEW v, Concludes(v) PROVE RequestInv'
  BY <1>7, NoVisitInv DEF Concludes, Said, Goto, Fixed, Documents
<1>8. ASSUME Undetermined PROVE RequestInv'
  BY <1>8, NoVisitInv DEF Undetermined, Goto, Fixed, Documents
<1>9. CASE Decide
  <2>1. PICK v : \/ Concludes(v)
                 \/ Goto("review") /\ UNCHANGED <<Fixed, posts, visited, faults, verdict>>
    BY <1>9 DEF Decide
  <2>2. CASE Goto("review") /\ UNCHANGED <<Fixed, posts, visited, faults, verdict>>
    BY <2>2, NoVisitInv DEF Goto, Fixed, Documents
  <2> QED  BY <1>7, <2>1, <2>2
<1>10. CASE DecideUnusable  BY <1>8, <1>10 DEF DecideUnusable
<1>11. CASE Chat  BY <1>7, <1>8, <1>11 DEF Chat
<1>12. CASE Review  BY <1>7, <1>12 DEF Review
<1>13. CASE NextSubject
  <2>1. judging' = "statuses" /\ visited' = <<>> /\ posts' = "nobody"
    BY <1>13 DEF NextSubject, Goto
  <2>2. Len(visited') = 0 /\ MayHaveVisited' = 0  BY <2>1 DEF MayHaveVisited
  <2> QED  BY <2>1, <2>2 DEF RequestInv, Documents
<1>14. CASE UNCHANGED judgeVars  BY <1>14 DEF judgeVars, RequestInv, MayHaveVisited
<1> QED
  BY <1>1, <1>2, <1>3, <1>4, <1>5, <1>6, <1>9, <1>10, <1>11, <1>12, <1>13, <1>14
  DEF JudgeNext

-----------------------------------------------------------------------------
(* The flag and the verdicts *)

\* An account is not flagged before it is judged.
LEMMA NoVerdictIsNoFlag == ~NoVerdict.spam
BY DEF NoVerdict

\* Every step keeps what is known of a flagged account.
LEMMA FlagStepInv == FlagInv /\ [JudgeNext]_judgeVars => FlagInv'
<1> SUFFICES ASSUME FlagInv, [JudgeNext]_judgeVars PROVE FlagInv'  OBVIOUS
<1>1. ASSUME judging \in Before, judging' \in Before, UNCHANGED <<flag, review, verdict>>
      PROVE  FlagInv'
  BY <1>1, NoVerdictIsNoFlag DEF FlagInv, FlagIsNotBuried, Before, Documents, Outcome
<1>2. ASSUME NEW service, FailsBy(service) PROVE FlagInv'
  BY <1>2 DEF FailsBy, Goto, FlagInv, FlagIsNotBuried, Before, Documents, Outcome
<1>3. ASSUME judging = "classify", Undetermined PROVE FlagInv'
  <2>1. flag' = NoVerdict /\ judging' = "undetermined"
    BY <1>3 DEF Undetermined, Goto, FlagInv, Before
  <2> QED  BY <2>1, NoVerdictIsNoFlag DEF FlagInv, FlagIsNotBuried, Before, Documents
<1>4. ASSUME NEW v, Concludes(v),
             flag'.spam => \/ review' \in Opinion /\ Said(v) = review'
                           \/ review' \notin Opinion /\ v = flag'
      PROVE  FlagInv'
  <2>1. judging' = Said(v) /\ verdict' = v
    BY <1>4 DEF Concludes, Goto
  <2>2. judging' \notin Before /\ judging' # "review"
    BY <2>1 DEF Said, Before, Documents
  <2>3. v.spam => Said(v) = "spam"  BY DEF Said
  <2>4. FlagIsNotBuried'
    <3>1. CASE ~flag'.spam  BY <3>1 DEF FlagIsNotBuried
    <3>2. CASE flag'.spam  BY <1>4, <2>1, <2>3, <3>2 DEF FlagIsNotBuried
    <3> QED  BY <3>1, <3>2
  <2> QED  BY <2>2, <2>4 DEF FlagInv
<1>5. CASE FetchStatuses
  BY <1>1, <1>5 DEF FetchStatuses, Visit, Have, Goto, Before, Documents
<1>6. CASE FetchStatusesFails \/ CampaignContextFails \/ ClassifierFails
  BY <1>2, <1>6 DEF FetchStatusesFails, CampaignContextFails, ClassifierFails
<1>7. CASE RemoteFails
  BY <1>1, <1>7 DEF RemoteFails, Have, Goto, Before, Documents
<1>8. CASE FollowLink
  BY <1>1, <1>8 DEF FollowLink, Visit, Goto, Before, Documents
<1>9. CASE ReadItems
  BY <1>1, <1>9 DEF ReadItems, Have, Goto, Before, Documents
<1>10. CASE CampaignContext
  BY <1>1, <1>10 DEF CampaignContext, Goto, Before
<1>11. CASE Decide
  <2>1. PICK p \in Reported :
          LET v == DecisionVerdict(p, config.threshold) IN
            /\ flag' = v
            /\ IF v.spam /\ config.review
               THEN Goto("review") /\ UNCHANGED <<Fixed, posts, visited, faults, verdict>>
               ELSE Concludes(v)
    BY <1>11 DEF Decide
  <2> DEFINE v == DecisionVerdict(p, config.threshold)
  <2>2. /\ flag' = v
        /\ IF v.spam /\ config.review
           THEN Goto("review") /\ UNCHANGED <<Fixed, posts, visited, faults, verdict>>
           ELSE Concludes(v)
    BY <2>1
  <2> HIDE DEF v
  <2>3. review' = "none"  BY <1>11 DEF Decide, FlagInv, Before
  <2>4. CASE v.spam /\ config.review
    <3>1. verdict = NoVerdict  BY <1>11 DEF Decide, FlagInv, Before
    <3>2. judging' = "review" /\ config' = config /\ verdict' = verdict /\ review' = "none"
      BY <2>2, <2>3, <2>4 DEF Goto, Fixed
    <3>3. flag'.spam /\ config'.review  BY <2>2, <2>4, <3>2
    <3> QED
      BY <3>1, <3>2, <3>3 DEF FlagInv, FlagIsNotBuried, Before, Documents, Outcome
  <2>5. CASE ~(v.spam /\ config.review)
    <3>1. Concludes(v)  BY <2>2, <2>5
    <3>2. v = flag' /\ review' \notin Opinion  BY <2>2, <2>3 DEF Opinion
    <3> QED  BY <1>4, <3>1, <3>2
  <2> QED  BY <2>4, <2>5
<1>12. CASE DecideUnusable  BY <1>3, <1>12 DEF DecideUnusable
<1>13. CASE Chat
  <2>1. judging = "classify"  BY <1>13 DEF Chat
  <2>2. ~flag.spam  BY <2>1, NoVerdictIsNoFlag DEF FlagInv, Before
  <2>3. PICK v : (Concludes(v) /\ UNCHANGED flag) \/ Undetermined  BY <1>13 DEF Chat
  <2>4. CASE Concludes(v) /\ UNCHANGED flag
    <3>1. ~flag'.spam  BY <2>2, <2>4
    <3> QED  BY <1>4, <2>4, <3>1
  <2> QED  BY <1>3, <2>1, <2>3, <2>4
<1>14. CASE Review
  <2>1. PICK reply \in Completion :
          /\ review' = SecondOpinion(reply)
          /\ Concludes(IF Usable(reply) THEN ParsedVerdict(reply) ELSE flag)
    BY <1>14 DEF Review
  <2>2. flag' = flag  BY <1>14 DEF Review
  <2>3. CASE Usable(reply)
    <3>1. Concludes(ParsedVerdict(reply)) /\ review' = Said(ParsedVerdict(reply))
      BY <2>1, <2>3 DEF SecondOpinion
    <3>2. Said(ParsedVerdict(reply)) \in Opinion  BY DEF Said, Opinion
    <3> QED  BY <1>4, <3>1, <3>2
  <2>4. CASE ~Usable(reply)
    <3>1. Concludes(flag) /\ review' \notin Opinion
      BY <2>1, <2>4 DEF SecondOpinion, Opinion
    <3> QED  BY <1>4, <2>2, <3>1
  <2> QED  BY <2>3, <2>4
<1>15. CASE NextSubject
  <2>1. /\ flag' = NoVerdict /\ review' = "none" /\ verdict' = NoVerdict
        /\ judging' = "statuses"
    BY <1>15 DEF NextSubject, Goto
  <2> QED  BY <2>1, NoVerdictIsNoFlag DEF FlagInv, FlagIsNotBuried
<1>16. CASE UNCHANGED judgeVars
  BY <1>16 DEF judgeVars, FlagInv, FlagIsNotBuried
<1> QED
  BY <1>5, <1>6, <1>7, <1>8, <1>9, <1>10, <1>11, <1>12, <1>13, <1>14, <1>15, <1>16
  DEF JudgeNext

\* Every step keeps the flag on its side of the threshold.
LEMMA ThresholdStepInv ==
  JudgeTypeOK /\ FlagMeetsThreshold /\ [JudgeNext]_judgeVars => FlagMeetsThreshold'
<1> SUFFICES ASSUME JudgeTypeOK, FlagMeetsThreshold, [JudgeNext]_judgeVars
             PROVE  FlagMeetsThreshold'
  OBVIOUS
<1>1. config' = config
  BY DEF JudgeNext, judgeVars, FetchStatuses, FetchStatusesFails, RemoteFails, FollowLink,
         ReadItems, CampaignContext, CampaignContextFails, Decide, DecideUnusable, Chat,
         Review, ClassifierFails, NextSubject, Visit, Have, FailsBy, Undetermined,
         Concludes, Fixed
<1>2. CASE Decide
  <2>1. PICK p \in Reported : flag' = DecisionVerdict(p, config.threshold)
    BY <1>2 DEF Decide
  <2>2. config.threshold \in Threshold  BY DEF JudgeTypeOK, Config
  <2> DEFINE v == DecisionVerdict(p, config.threshold)
  <2>3. /\ Scale - SpamProbability(v) < config.threshold => v.spam
        /\ v.spam => Scale - SpamProbability(v) < config.threshold
    BY <2>2, DecisionMeetsThreshold
  <2> HIDE DEF v
  <2>4. flag' = v  BY <2>1 DEF v
  <2> QED  BY <1>1, <2>3, <2>4 DEF FlagMeetsThreshold, SpamProbability
<1>3. CASE ~Decide
  <2>1. flag' \in {flag, NoVerdict}
    BY <1>3
    DEF JudgeNext, judgeVars, FetchStatuses, FetchStatusesFails, RemoteFails, FollowLink,
        ReadItems, CampaignContext, CampaignContextFails, DecideUnusable, Chat, Review,
        ClassifierFails, NextSubject, Visit, Have, FailsBy, Undetermined
  <2>2. CASE flag' = NoVerdict  BY <2>2 DEF FlagMeetsThreshold, NoVerdict
  <2>3. CASE flag' = flag  BY <1>1, <2>3 DEF FlagMeetsThreshold, SpamProbability
  <2> QED  BY <2>1, <2>2, <2>3
<1> QED  BY <1>2, <1>3

\* Whatever verdict counts lies in range; if it is the flag, it meets the threshold.
LEMMA ThresholdFollows == JudgeTypeOK /\ FlagMeetsThreshold => ThresholdIsMet
<1> SUFFICES ASSUME JudgeTypeOK, FlagMeetsThreshold, verdict # NoVerdict
             PROVE  /\ SpamProbability(verdict) \in 0..Scale
                    /\ verdict = flag =>
                         (~verdict.spam <=> Scale - SpamProbability(verdict) >= config.threshold)
  BY ScalesAgreeHolds DEF ThresholdIsMet
<1>1. SpamProbability(verdict) \in 0..Scale  BY RealVerdict DEF JudgeTypeOK, Verdicts
<1>2. ASSUME verdict = flag
      PROVE  ~verdict.spam <=> Scale - SpamProbability(verdict) >= config.threshold
  <2> DEFINE t == config.threshold
  <2>1. t \in Threshold  BY DEF JudgeTypeOK, Config
  <2> HIDE DEF t
  <2>2. t \in Nat /\ Scale \in Nat  BY <2>1, JudgingAssumption
  <2>3. config.threshold \in Nat /\ Scale \in Nat  BY <2>2 DEF t
  <2>4. /\ Scale - SpamProbability(verdict) < config.threshold => verdict.spam
        /\ verdict.spam => Scale - SpamProbability(verdict) < config.threshold
    BY <1>2 DEF FlagMeetsThreshold
  <2>5. Scale - SpamProbability(verdict) < config.threshold
          <=> ~(Scale - SpamProbability(verdict) >= config.threshold)
    BY <1>1, <2>3
  <2> QED  BY <2>4, <2>5
<1> QED  BY <1>1, <1>2

-----------------------------------------------------------------------------
(* The theorems *)

JudgeInv == JudgeTypeOK /\ RequestInv /\ FaultInv /\ FlagInv /\ FlagMeetsThreshold

\* At first the invariant holds.
LEMMA JudgeInitInv == JudgeInit => JudgeInv
<1> SUFFICES ASSUME JudgeInit PROVE JudgeInv  OBVIOUS
<1>1. RequestInv
  <2>1. Len(visited) = 0 /\ MayHaveVisited = 0  BY DEF JudgeInit, MayHaveVisited
  <2> QED  BY <2>1 DEF JudgeInit, RequestInv, Documents
<1>2. FaultInv  BY DEF JudgeInit, FaultInv
<1>3. FlagInv
  BY NoVerdictIsNoFlag DEF JudgeInit, FlagInv, FlagIsNotBuried
<1>4. FlagMeetsThreshold  BY DEF JudgeInit, FlagMeetsThreshold
<1> QED  BY <1>1, <1>2, <1>3, <1>4, JudgeInitType DEF JudgeInv

\* Every step keeps it.
LEMMA JudgeStepInv == JudgeInv /\ [JudgeNext]_judgeVars => JudgeInv'
BY JudgeStepType, RequestStepInv, FaultStepInv, FlagStepInv, ThresholdStepInv DEF JudgeInv

\* It always holds.
LEMMA JudgeAlways == JudgeSpec => []JudgeInv
<1>1. JudgeInv /\ [JudgeNext]_judgeVars => JudgeInv'  BY JudgeStepInv
<1> QED  BY <1>1, JudgeInitInv, PTL DEF JudgeSpec

\* A check fails for no other reason than a service of ours: what an account's own
\* server does or a model says parks no cursor (src/src/check.rs:105).
THEOREM OnlyOwnServicesFailHolds == JudgeSpec => []OnlyOwnServicesFail
<1>1. JudgeInv => OnlyOwnServicesFail
  BY DEF JudgeInv, FaultInv, OnlyOwnServicesFail
<1> QED  BY <1>1, JudgeAlways, PTL

\* What becomes of a spam flag is what a usable second opinion says; without one the
\* flag itself is the verdict, whatever else the review answers: it neither clears
\* the account nor leaves it undetermined (src/src/llm.rs:293).
THEOREM FlagIsNotBuriedHolds == JudgeSpec => []FlagIsNotBuried
<1>1. JudgeInv => FlagIsNotBuried  BY DEF JudgeInv, FlagInv
<1> QED  BY <1>1, JudgeAlways, PTL

\* A decision stands on the right side of the configured threshold after it has
\* been normalized, on whatever scale it came, and stored, for every number a model
\* may report (src/src/llm.rs:218).
THEOREM ThresholdIsMetHolds == JudgeSpec => []ThresholdIsMet
<1>1. JudgeInv => ThresholdIsMet  BY ThresholdFollows DEF JudgeInv
<1> QED  BY <1>1, JudgeAlways, PTL

\* No link of a remote document leads a request away from the actor's origin or
\* beyond the third (src/src/activitypub.rs:4).
THEOREM RequestsStayHomeHolds == JudgeSpec => []RequestsStayHome
<1>1. JudgeInv => RequestsStayHome
  <2> SUFFICES ASSUME JudgeInv PROVE RequestsStayHome  OBVIOUS
  <2>1. Len(visited) <= 3  BY DEF JudgeInv, JudgeTypeOK
  <2> QED  BY <2>1 DEF JudgeInv, RequestInv, RequestsStayHome
<1> QED  BY <1>1, JudgeAlways, PTL
=============================================================================
