------------------------------- MODULE Judging -------------------------------
(***************************************************************************)
(* check_one_inner (src/src/check.rs) up to the verdict: an account's      *)
(* posts from Mastodon or from its own server's outbox                     *)
(* (src/src/activitypub.rs), its campaign from Redis, and the answer of    *)
(* the classifier (src/src/llm.rs).  What happens to the verdict is        *)
(* AccountJobs.                                                            *)
(*                                                                         *)
(* A request stands for all its attempts.  Posts matter only as there are  *)
(* any or none.  Numbers between 0.0 and 1.0 are integers between 0 and    *)
(* Scale.                                                                  *)
(***************************************************************************)
EXTENDS Integers, Sequences

CONSTANTS
  Scale,       \* 1.0
  Reported,    \* what models report for a probability or confidence; NaN
  NaN,
  Threshold    \* values of SPAM_CONFIDENCE_THRESHOLD

ASSUME JudgingAssumption ==
  /\ Scale \in Nat \ {0} /\ NaN \notin Int
  /\ Reported \subseteq Int \cup {NaN}
  /\ Threshold \subseteq 0..Scale

VARIABLES
  config,      \* what is configured
  subject,     \* what Mastodon says of the account
  judging,     \* where the check is
  posts,       \* whose posts it has: nobody's, "mastodon" or "remote"
  visited,     \* the origins it has asked for ActivityPub documents, in order
  faults,      \* services of ours that have failed it
  flag,        \* the decision model's verdict
  review,      \* what its review said
  verdict      \* the one that counts

judgeVars == <<config, subject, judging, posts, visited, faults, flag, review, verdict>>

Documents == {"actor", "outbox", "page"}
Outcome == {"failed", "undetermined", "spam", "not_spam"}
NoVerdict == [spam |-> FALSE, confidence |-> -1]
Opinion == {"spam", "not_spam"}
Verdicts == [spam : BOOLEAN, confidence : 0..Scale] \cup {NoVerdict}

\* validate_review_model, and parse_confidence_threshold by Threshold.
Config ==
  {c \in [remote : BOOLEAN, decision : BOOLEAN, review : BOOLEAN, threshold : Threshold] :
     c.review => c.decision}

\* Of a URL the code asks whether it is acceptable at all, and its origin.
Url == {"refused", "home", "elsewhere"}
Subject == [remote : BOOLEAN, posted : BOOLEAN, uri : {"none", "refused", "home"}]

JudgeTypeOK ==
  /\ config \in Config
  /\ subject \in Subject
  /\ judging \in {"statuses", "campaign", "classify", "review"} \cup Documents \cup Outcome
  /\ posts \in {"nobody", "mastodon", "remote"}
  /\ visited \in Seq(Url) /\ Len(visited) <= 3
  /\ faults \subseteq {"mastodon", "redis", "classifier"}
  /\ flag \in Verdicts /\ verdict \in Verdicts
  /\ review \in {"none", "unusable"} \cup Opinion

JudgeInit ==
  /\ config \in Config
  /\ subject \in Subject
  /\ judging = "statuses"
  /\ posts = "nobody"
  /\ visited = <<>>
  /\ faults = {}
  /\ flag = NoVerdict /\ review = "none" /\ verdict = NoVerdict

Fixed == <<config, subject>>

-----------------------------------------------------------------------------
(* Verdicts *)

\* normalize_confidence.
\* Mutant of Normalized: what is beyond 100 is not clamped.
NormalizedUnclamped(c) ==
  IF c = NaN \/ c < 0 THEN 0 ELSE IF Scale < c /\ c <= 100 * Scale THEN c \div 100 ELSE c
Normalized(c) ==
  IF c = NaN \/ c < 0 THEN 0
  ELSE IF Scale < c /\ c <= 100 * Scale THEN c \div 100
  ELSE IF c > Scale THEN Scale ELSE c

\* Mutant of DecisionVerdict: the probability is kept as the confidence.
DecisionVerdictPlain(p, threshold) ==
  [spam |-> Scale - Normalized(p) < threshold, confidence |-> Normalized(p)]
DecisionVerdict(p, threshold) ==
  LET probability == Normalized(p)
      spam == Scale - probability < threshold
  IN [spam |-> spam, confidence |-> IF spam THEN probability ELSE Scale - probability]

SpamProbability(v) == IF v.spam THEN v.confidence ELSE Scale - v.confidence

\* A chat completion: no choices, a refusal without text, text that is no verdict,
\* or a verdict, bare or in a code fence.
Completion == [text : {"none", "refusal", "prose", "json", "fenced"},
               spam : BOOLEAN, confidence : Reported]
Usable(reply) == reply.text \in {"json", "fenced"}
ParsedVerdict(reply) ==
  [spam |-> reply.spam, confidence |-> Normalized(reply.confidence)]
Said(v) == IF v.spam THEN "spam" ELSE "not_spam"

-----------------------------------------------------------------------------
(* The posts *)

Goto(place) == judging' = place

\* A failure of one of our services ends the check with an error.
FailsBy(service) ==
  /\ Goto("failed")
  /\ faults' = faults \cup {service}
  /\ UNCHANGED <<Fixed, posts, visited, flag, review, verdict>>

Have(whose) ==
  /\ Goto("campaign")
  /\ posts' = whose
  /\ UNCHANGED <<Fixed, faults, flag, review, verdict>>

\* Whether PostSource::fetch turns to the account's own server.
AsksRemote(found) ==
  /\ config.remote /\ ~found
  /\ subject.posted /\ subject.remote
  /\ subject.uri # "none"

\* A request for an ActivityPub document.
Visit(document, url) ==
  /\ Goto(document)
  /\ visited' = Append(visited, url)
  /\ UNCHANGED <<Fixed, posts, faults, flag, review, verdict>>

\* Mastodon's answer, 404 and 410 being an empty one.  A refused actor URI is an
\* error of the remote fetch, and as good as no posts.
FetchStatuses ==
  /\ judging = "statuses"
  /\ \E found \in BOOLEAN :
       IF AsksRemote(found) /\ subject.uri = "home"
       THEN Visit("actor", subject.uri)
       ELSE Have(IF found THEN "mastodon" ELSE "nobody") /\ UNCHANGED visited

FetchStatusesFails == judging = "statuses" /\ FailsBy("mastodon")

\* Mutant of RemoteFails: its error is the check's.
RemoteFailsCheck ==
  /\ judging \in Documents
  /\ Goto("failed")
  /\ UNCHANGED <<Fixed, posts, visited, faults, flag, review, verdict>>

\* The document cannot be had, is too large or no JSON, or leads to a URL that is
\* refused.
RemoteFails ==
  /\ judging \in Documents
  /\ Have("nobody")
  /\ UNCHANGED visited

\* same_origin_url.
\* Mutant of Follows: any acceptable URL will do.
FollowsAnywhere(url) == url # "refused"
Follows(url) == url = "home"

\* The actor names its outbox; the outbox has no items and names its first page.
FollowLink ==
  \E url \in Url :
    /\ Follows(url)
    /\ \/ judging = "actor" /\ Visit("outbox", url)
       \/ judging = "outbox" /\ Visit("page", url)

\* Posts are the Creates with an object that says something; there may well be
\* items and no posts.
Item == {"post", "boost", "reference", "blank"}
PostsIn(items) == IF "post" \in items THEN "remote" ELSE "nobody"

\* The items of the outbox, of a first page inside it, or of the page it named;
\* none if there are no more links.
ReadItems ==
  /\ judging \in {"outbox", "page"}
  /\ \E items \in SUBSET Item : Have(PostsIn(items))
  /\ UNCHANGED visited

-----------------------------------------------------------------------------
(* The classification *)

CampaignContext ==
  /\ judging = "campaign"
  /\ Goto("classify")
  /\ UNCHANGED <<Fixed, posts, visited, faults, flag, review, verdict>>

CampaignContextFails == judging = "campaign" /\ FailsBy("redis")

Concludes(v) ==
  /\ Goto(Said(v))
  /\ verdict' = v
  /\ UNCHANGED <<Fixed, posts, visited, faults>>

Undetermined ==
  /\ Goto("undetermined")
  /\ UNCHANGED <<Fixed, posts, visited, faults, flag, review, verdict>>

\* A decision model answers with a probability, or with none.
Decide ==
  /\ judging = "classify" /\ config.decision
  /\ \E p \in Reported :
       LET v == DecisionVerdict(p, config.threshold) IN
         /\ flag' = v
         /\ IF v.spam /\ config.review
            THEN Goto("review") /\ UNCHANGED <<Fixed, posts, visited, faults, verdict>>
            ELSE Concludes(v)
  /\ UNCHANGED review

DecideUnusable == judging = "classify" /\ config.decision /\ Undetermined

Chat ==
  /\ judging = "classify" /\ ~config.decision
  /\ \E reply \in Completion :
       IF Usable(reply) THEN Concludes(ParsedVerdict(reply)) /\ UNCHANGED <<flag, review>>
                        ELSE Undetermined

\* What the second call comes back with: a verdict, or the error of an unusable one.
SecondOpinion(reply) == IF Usable(reply) THEN Said(ParsedVerdict(reply)) ELSE "unusable"

\* Mutant of Review: what cannot be used is read as a verdict.
ReviewClears ==
  /\ judging = "review"
  /\ \E reply \in Completion :
       /\ review' = SecondOpinion(reply)
       /\ Concludes(ParsedVerdict(reply))
  /\ UNCHANGED flag

\* The chat model's second opinion; without a usable one the flag stands.
Review ==
  /\ judging = "review"
  /\ \E reply \in Completion :
       /\ review' = SecondOpinion(reply)
       /\ Concludes(IF Usable(reply) THEN ParsedVerdict(reply) ELSE flag)
  /\ UNCHANGED flag

\* No answer, an error status, or a body that is no completion at all.
ClassifierFails == judging \in {"classify", "review"} /\ FailsBy("classifier")

\* On to another account.
NextSubject ==
  /\ judging \in Outcome
  /\ subject' \in Subject
  /\ Goto("statuses")
  /\ posts' = "nobody" /\ visited' = <<>> /\ faults' = {}
  /\ flag' = NoVerdict /\ review' = "none" /\ verdict' = NoVerdict
  /\ UNCHANGED config

JudgeNext ==
  \/ FetchStatuses \/ FetchStatusesFails
  \/ RemoteFails \/ FollowLink \/ ReadItems
  \/ CampaignContext \/ CampaignContextFails
  \/ Decide \/ DecideUnusable \/ Chat \/ Review \/ ClassifierFails
  \/ NextSubject

JudgeSpec == JudgeInit /\ [][JudgeNext]_judgeVars

-----------------------------------------------------------------------------
\* A check fails only because Mastodon, Redis or the classifier's endpoint did: an
\* account whose own server misbehaves, or that makes the model answer nonsense,
\* must not park the cursor in front of itself (src/src/llm.rs:71,
\* src/src/check.rs:105).  And none of their failures passes for an answer.
OnlyOwnServicesFail == judging \in Outcome => (judging = "failed" <=> faults # {})

\* Once the decision model has flagged an account, a usable second opinion decides,
\* whichever way it goes, and nothing else does: without one the flag itself is
\* the verdict, unless the check has failed.  In particular an unusable review
\* neither clears the account nor leaves it undetermined (src/src/llm.rs:293).
FlagIsNotBuried ==
  flag.spam /\ judging \in Outcome \ {"failed"} =>
    \/ review \in Opinion /\ judging = review /\ Said(verdict) = review
    \/ review \notin Opinion /\ judging = "spam" /\ verdict = flag

\* The decision model alone clears an account exactly when its verdict, as stored,
\* is as sure of it as was asked for; and a verdict of any model says a
\* probability, the same whether it was reported as such or in percent
\* (src/src/llm.rs:218, 386).
ScalesAgree ==
  \A p \in Reported \cap 0..Scale : Scale < 100 * p => Normalized(100 * p) = Normalized(p)
ThresholdIsMet ==
  verdict # NoVerdict =>
    /\ SpamProbability(verdict) \in 0..Scale /\ ScalesAgree
    /\ verdict = flag => (~verdict.spam <=> Scale - SpamProbability(verdict) >= config.threshold)

\* However an account's server links its documents, three requests at most are
\* made for it, all to the actor's own origin, and only for an account of another
\* server that Mastodon has no posts of (src/src/activitypub.rs:4).
RequestsStayHome ==
  /\ Len(visited) <= 3
  /\ \A i \in 1..Len(visited) : visited[i] = "home"
  /\ visited # <<>> => config.remote /\ subject.remote /\ posts # "mastodon"
=============================================================================
