----------------------------- MODULE SlackServer ----------------------------
(***************************************************************************)
(* The interaction server (src/src/server.rs): moderators press buttons of *)
(* Slack messages, each click is an action task over Mastodon, Redis and   *)
(* the message it came from.  A click carries the message as it was when   *)
(* it was pressed, and that copy, edited, replaces the message.  Account   *)
(* tasks of the runs appear only through StateStore, as the deliveries     *)
(* that post messages and keep feedback out meanwhile.                     *)
(***************************************************************************)
EXTENDS StateStore

CONSTANTS
  Message,      \* notifications in Slack
  About,        \* the account of each
  Click,        \* clicks under way at a time
  Bare          \* those that may come without the blocks of their message

ASSUME AboutAssumption == About \in [Message -> Account]

VARIABLES
  server,       \* the process
  inFlight,     \* InFlight: accounts with an action in progress
  step, click,  \* what a click waits for, and what it carries
  posted, blocks,     \* messages in Slack, and what they are made of
  action,       \* action:<account>, the moderation action on record
  suspended, deleted, \* accounts in Mastodon
  late,         \* calls nobody waits for that Mastodon may still carry out
  once          \* history: what was ever true of an account

clickVars == <<step, click>>
slackVars == <<posted, blocks>>
mastodonVars == <<suspended, deleted, late>>
serverVars == <<server, inFlight>>
worldVars == <<storeVars, slackVars, mastodonVars, action>>
vars == <<worldVars, serverVars, clickVars, once>>

-----------------------------------------------------------------------------
(* Types *)

Destructive == {"suspend", "delete"}
Button == Destructive \cup Terminal

\* Of the blocks of a message count its buttons, and whether the notification's
\* own blocks ("notice") are still above them.
Block == Button \cup {"notice"}

\* The record a click carries: ButtonAction, and the blocks it will send back.
Interaction == [kind : Button, message : Message, shown : SUBSET Block]
NoClick == [kind |-> "none", message |-> Nobody, shown |-> {}]

\* The await a task is at; "sent" is on its way from Slack.
Running == {"cleared", "suspended", "act", "record", "feedback", "update"}
Step == {"none", "sent"} \cup Running

TypeOK ==
  /\ StoreTypeOK
  /\ server \in {"up", "draining", "drained", "down"}
  /\ inFlight \subseteq Account
  /\ step \in [Click -> Step]
  /\ click \in [Click -> Interaction \cup {NoClick}]
  /\ \A c \in Click : step[c] = "none" <=> click[c] = NoClick
  /\ posted \subseteq Message
  /\ blocks \in [Message -> SUBSET Block]
  /\ action \in [Account -> {"none", "suspend", "delete"}]
  /\ suspended \subseteq Account
  /\ deleted \subseteq Account
  /\ late \subseteq Destructive \X Account
  /\ once \in [Account -> SUBSET Button]

\* Every account has been judged spam and waits for its delivery.
Init ==
  /\ job = [a \in Account |-> PendingJob(ProcessingJob)]
  /\ failed = {} /\ pending = Account
  /\ feedback = [a \in Account |-> "none"]
  /\ claim = [a \in Account |-> Nobody]
  /\ server = "up" /\ inFlight = {}
  /\ step = [c \in Click |-> "none"]
  /\ click = [c \in Click |-> NoClick]
  /\ posted = {}
  /\ blocks = [m \in Message |-> {}]
  /\ action = [a \in Account |-> "none"]
  /\ suspended = {} /\ deleted = {} /\ late = {}
  /\ once = [a \in Account |-> {}]

-----------------------------------------------------------------------------
(* A click *)

At(c, place) == step[c] = place
IsRunning(c) == step[c] \in Running
Kind(c) == click[c].kind
Target(c) == About[click[c].message]

Goto(c, place) == step' = [step EXCEPT ![c] = place] /\ UNCHANGED <<click, serverVars>>

\* The message a handler returns with, and the edit it made to the blocks.
Reply(c, shown) ==
  /\ step' = [step EXCEPT ![c] = "update"]
  /\ click' = [click EXCEPT ![c].shown = shown]
  /\ UNCHANGED serverVars
Refuse(c) == Reply(c, click[c].shown)

\* Mutant of Forget: the interaction outlives its task.
ForgetStepOnly(c) == step' = [step EXCEPT ![c] = "none"] /\ UNCHANGED click

Forget(c) ==
  /\ step' = [step EXCEPT ![c] = "none"]
  /\ click' = [click EXCEPT ![c] = NoClick]

\* The copy a click brings: the message's blocks or, if the payload came without
\* them, a section rebuilt from its text (or nothing, if that is missing too).
\* There are no buttons in that.
Copies(c, m) == {blocks[m]} \cup IF c \in Bare THEN {{}} ELSE {}

Press(c, m, button) ==
  /\ At(c, "none")
  /\ m \in posted /\ button \in blocks[m]
  /\ step' = [step EXCEPT ![c] = "sent"]
  /\ \E copy \in Copies(c, m) :
       click' = [click EXCEPT ![c] = [kind |-> button, message |-> m, shown |-> copy]]
  /\ UNCHANGED <<worldVars, serverVars>>

\* handle_interaction: claim the account and spawn the task, or drop the click.
\* Mutant of IsFree: without the set.
IsFreeAlways(a) == TRUE

IsFree(a) == a \notin inFlight
FirstStep(kind) == IF kind \in Destructive THEN "cleared" ELSE "feedback"
Take(c) ==
  /\ At(c, "sent") /\ server = "up" /\ IsFree(Target(c))
  /\ inFlight' = inFlight \cup {Target(c)}
  /\ step' = [step EXCEPT ![c] = FirstStep(Kind(c))]
  /\ UNCHANGED <<worldVars, server, click>>

\* Ignored as a duplicate, or nobody was there to take it.
Ignore(c) ==
  /\ At(c, "sent")
  /\ server # "up" \/ ~IsFree(Target(c))
  /\ Forget(c)
  /\ UNCHANGED <<worldVars, serverVars>>

-----------------------------------------------------------------------------
(* refuse_if_cleared and is_account_suspended *)

\* remove_actions.
WithoutButtons(shown) == shown \ Button

\* An account marked as a false positive loses all buttons.
CheckCleared(c) ==
  /\ At(c, "cleared")
  /\ IF feedback[Target(c)] = "false_positive" THEN Reply(c, WithoutButtons(click[c].shown))
                                             ELSE Goto(c, "suspended")
  /\ UNCHANGED worldVars

\* Unknown is a refusal too.
CheckClearedFails(c) ==
  /\ At(c, "cleared")
  /\ Refuse(c)
  /\ UNCHANGED worldVars

\* One that is suspended already is recorded as such; one that is not is not deleted.
AfterCheck(c) ==
  CASE Kind(c) = "suspend" /\ Target(c) \in suspended -> Goto(c, "record")
    [] Kind(c) = "delete" /\ Target(c) \notin suspended -> Refuse(c)
    [] OTHER -> Goto(c, "act")
CheckSuspended(c) ==
  /\ At(c, "suspended")
  /\ AfterCheck(c)
  /\ UNCHANGED worldVars

\* Mutant of CheckSuspendedFails: the failure is taken for a yes.
CheckSuspendedFailsAsYes(c) ==
  /\ At(c, "suspended")
  /\ IF Kind(c) = "suspend" THEN Goto(c, "record") ELSE Refuse(c)
  /\ UNCHANGED worldVars

\* Suspending is idempotent and goes ahead without the answer.
CheckSuspendedFails(c) ==
  /\ At(c, "suspended")
  /\ IF Kind(c) = "suspend" THEN Goto(c, "act") ELSE Refuse(c)
  /\ UNCHANGED worldVars

-----------------------------------------------------------------------------
(* suspend_account, delete_account, record_action *)

\* Mastodon rejects the deletion of an account that is not suspended.
Accepts(kind, a) == kind = "suspend" \/ a \in suspended
Effect(kind, a) ==
  /\ Accepts(kind, a)
  /\ suspended' = suspended \cup {a}
  /\ deleted' = IF kind = "delete" THEN deleted \cup {a} ELSE deleted
  /\ UNCHANGED late

Act(c) ==
  /\ At(c, "act")
  /\ Effect(Kind(c), Target(c))
  /\ Goto(c, "record")
  /\ UNCHANGED <<storeVars, slackVars, action>>

\* Refused, or the answer was lost: before, after, or ahead of the effect.
Abandon(c) == late' = late \cup {<<Kind(c), Target(c)>>} /\ UNCHANGED <<suspended, deleted>>
\* replace_buttons_with_delete, or remove_actions.
BlocksAfter(kind, shown) ==
  WithoutButtons(shown) \cup IF kind = "suspend" THEN {"delete"} ELSE {}

\* Mutant of ActFails: the buttons are replaced as after a success.
ActFailsAsDone(c) ==
  /\ At(c, "act")
  /\ UNCHANGED mastodonVars \/ Effect(Kind(c), Target(c)) \/ Abandon(c)
  /\ Reply(c, BlocksAfter(Kind(c), click[c].shown))
  /\ UNCHANGED <<storeVars, slackVars, action>>

ActFails(c) ==
  /\ At(c, "act")
  /\ UNCHANGED mastodonVars \/ Effect(Kind(c), Target(c)) \/ Abandon(c)
  /\ Refuse(c)
  /\ UNCHANGED <<storeVars, slackVars, action>>

SetAction(c) == action' = [action EXCEPT ![Target(c)] = Kind(c)]
Record(c) ==
  /\ At(c, "record")
  /\ SetAction(c)
  /\ Reply(c, BlocksAfter(Kind(c), click[c].shown))
  /\ UNCHANGED <<storeVars, slackVars, mastodonVars>>

\* Only logged.
RecordFails(c) ==
  /\ At(c, "record")
  /\ SetAction(c) \/ UNCHANGED action
  /\ Reply(c, BlocksAfter(Kind(c), click[c].shown))
  /\ UNCHANGED <<storeVars, slackVars, mastodonVars>>

-----------------------------------------------------------------------------
(* apply_feedback *)

\* A false positive clears the message; a confirmation leaves the other buttons.
Pruned(kind, shown) ==
  IF kind = "false_positive" THEN WithoutButtons(shown) ELSE shown \ Terminal
RecordVerdict(c) ==
  /\ At(c, "feedback")
  /\ RecordFeedback(Target(c), Kind(c))
  /\ Reply(c, Pruned(Kind(c), click[c].shown))
  /\ UNCHANGED <<slackVars, mastodonVars, action>>

VerdictRefused(c) ==
  /\ At(c, "feedback")
  /\ ~AcceptsFeedback(Target(c))
  /\ Refuse(c)
  /\ UNCHANGED worldVars

RecordVerdictFails(c) ==
  /\ At(c, "feedback")
  /\ RecordFeedback(Target(c), Kind(c)) \/ UNCHANGED storeVars
  /\ Refuse(c)
  /\ UNCHANGED <<slackVars, mastodonVars, action>>

-----------------------------------------------------------------------------
(* post_to_slack, and the end of the task *)

\* The guard's drop.
End(c) ==
  /\ Forget(c)
  /\ inFlight' = inFlight \ {Target(c)}
  /\ UNCHANGED server

ReplaceOriginal(c) == blocks' = [blocks EXCEPT ![click[c].message] = click[c].shown]
Update(c) ==
  /\ At(c, "update")
  /\ ReplaceOriginal(c)
  /\ End(c)
  /\ UNCHANGED <<storeVars, posted, mastodonVars, action>>

\* Only logged as well.
UpdateFails(c) ==
  /\ At(c, "update")
  /\ ReplaceOriginal(c) \/ UNCHANGED blocks
  /\ End(c)
  /\ UNCHANGED <<storeVars, posted, mastodonVars, action>>

\* A panic unwinds through the guard; where the build aborts instead (Cargo.toml,
\* [profile.release]) it is a Crash.
\* Mutant of Panic: the claim is released by the last statement, not by a guard.
PanicLeaks(c) ==
  /\ IsRunning(c)
  /\ Forget(c)
  /\ UNCHANGED <<worldVars, serverVars>>

Panic(c) ==
  /\ IsRunning(c)
  /\ End(c)
  /\ UNCHANGED worldVars

-----------------------------------------------------------------------------
(* The process *)

\* What goes with the process: its tasks and the set.
Exit(to) ==
  /\ server' = to
  /\ inFlight' = {}
  /\ step' = [c \in Click |-> IF IsRunning(c) THEN "none" ELSE step[c]]
  /\ click' = [c \in Click |-> IF IsRunning(c) THEN NoClick ELSE click[c]]

\* SIGTERM, and axum::serve has returned: no more clicks, a wait for those in progress.
Terminate ==
  /\ server = "up"
  /\ server' = "draining"
  /\ UNCHANGED <<worldVars, inFlight, clickVars>>

\* drain_in_flight returns early.
\* Mutant of MayExit: no wait.
MayExitAtOnce == server = "draining"

MayExit == server = "draining" /\ inFlight = {}
Drained ==
  /\ MayExit
  /\ Exit("drained")
  /\ UNCHANGED worldVars

\* The grace period ends, or the process dies, and calls may be under way.
Crash ==
  /\ server \in {"up", "draining"}
  /\ \E calls \in SUBSET {<<Kind(c), Target(c)>> : c \in {d \in Click : At(d, "act")}} :
       late' = late \cup calls
  /\ Exit("down")
  /\ UNCHANGED <<storeVars, slackVars, suspended, deleted, action>>

Start ==
  /\ server \in {"drained", "down"}
  /\ server' = "up"
  /\ UNCHANGED <<worldVars, inFlight, clickVars>>

-----------------------------------------------------------------------------
(* Everyone else *)

notServer == <<serverVars, clickVars>>

\* A run's delivery: AccountJobs in outline.
Claim(a, t) ==
  /\ a \in pending
  /\ ClaimNotification(a, t)
  /\ UNCHANGED <<notServer, slackVars, mastodonVars, action>>

Post(m, t) ==
  /\ claim[About[m]] = t /\ m \notin posted
  /\ posted' = posted \cup {m}
  /\ blocks' = [blocks EXCEPT ![m] = Block \ {"delete"}]
  /\ UNCHANGED <<storeVars, notServer, mastodonVars, action>>

Release(a, t) ==
  /\ claim[a] = t
  /\ ReleaseClaim(a, t)
  /\ UNCHANGED <<notServer, slackVars, mastodonVars, action>>

\* Completed, and forgotten after the retention period.
JobIsDone(a) ==
  /\ a \in pending /\ claim[a] = Nobody
  /\ CompleteJob(a, "spam", "spam", TRUE)
  /\ UNCHANGED <<notServer, slackVars, mastodonVars, action>>

\* Once there is feedback nobody here reads the job, so it may as well stay.
Expire(a) ==
  /\ \/ feedback[a] = "none" /\ ExpireJob(a) /\ UNCHANGED action
     \/ action' = [action EXCEPT ![a] = "none"] /\ UNCHANGED storeVars
  /\ UNCHANGED <<notServer, slackVars, mastodonVars>>

\* Mastodon's own moderators, and calls that were given up on.
Elsewhere(a) ==
  /\ \/ Effect("suspend", a)
     \/ a \notin deleted /\ suspended' = suspended \ {a} /\ UNCHANGED <<deleted, late>>
  /\ UNCHANGED <<storeVars, notServer, slackVars, action>>

Lands(kind, a) ==
  /\ <<kind, a>> \in late
  /\ late' = late \ {<<kind, a>>}
  /\ suspended' = IF Accepts(kind, a) THEN suspended \cup {a} ELSE suspended
  /\ deleted' = IF kind = "delete" /\ Accepts(kind, a) THEN deleted \cup {a} ELSE deleted
  /\ UNCHANGED <<storeVars, notServer, slackVars, action>>

-----------------------------------------------------------------------------
TaskStep(c) ==
  \/ CheckCleared(c) \/ CheckSuspended(c) \/ Act(c) \/ Record(c)
  \/ RecordVerdict(c) \/ VerdictRefused(c) \/ Update(c)

Fault(c) ==
  \/ CheckClearedFails(c) \/ CheckSuspendedFails(c) \/ ActFails(c) \/ RecordFails(c)
  \/ RecordVerdictFails(c) \/ UpdateFails(c) \/ Panic(c)

ClickMoves(c) ==
  \/ \E m \in Message, button \in Button : Press(c, m, button)
  \/ Take(c) \/ Ignore(c) \/ TaskStep(c) \/ Fault(c)

ProcessMoves == Terminate \/ Drained \/ Crash \/ Start

WorldMoves ==
  \/ \E a \in Account : Expire(a) \/ Elsewhere(a) \/ JobIsDone(a)
  \/ \E a \in Account, t \in Task : Claim(a, t) \/ Release(a, t)
  \/ \E m \in Message, t \in Task : Post(m, t)
  \/ \E kind \in Destructive, a \in Account : Lands(kind, a)

\* What is true of an account now, in the words of the buttons.
Now(a) ==
  ({feedback[a]} \cap Terminal)
    \cup {k \in Destructive : a \in IF k = "suspend" THEN suspended ELSE deleted}
Remember == once' = [a \in Account |-> once[a] \cup Now(a)']

Next == ((\E c \in Click : ClickMoves(c)) \/ ProcessMoves \/ WorldMoves) /\ Remember
Spec == Init /\ [][Next]_vars

-----------------------------------------------------------------------------
(* Properties *)

\* As long as a suspension or deletion is being asked of Mastodon, the account is
\* not marked as a false positive: nobody can clear it between the check and the
\* call, nor during the call (refuse_if_cleared, and InFlight, which holds back
\* the clicks on any message about the account).
ClearedIsNotActedOn ==
  \A c \in Click : At(c, "act") => feedback[Target(c)] # "false_positive"

\* "A failed action keeps its button so it can be retried" (README.md), and only
\* a success changes what a message offers, whatever copies of it come back late:
\* as long as the notification's own blocks are there, a button is gone only if
\* what it is for, or what makes it moot, has happened.  A message that a copy
\* without blocks has replaced offers Delete or nothing.  And Delete is there only
\* if the account has been suspended.
Moot(b) ==
  CASE b = "suspend" -> {"suspend", "false_positive"}
    [] b \in Terminal -> Terminal \cup {"suspend"}
    [] b = "delete" -> {"delete", "false_positive"}
FailedActionKeepsButton ==
  \A m \in posted :
    LET past == once[About[m]] IN
      /\ "notice" \in blocks[m] =>
           /\ \A b \in Button \ {"delete"} : b \in blocks[m] \/ Moot(b) \cap past # {}
           /\ blocks[m] = {"notice"} => {"delete", "false_positive"} \cap past # {}
      /\ "notice" \notin blocks[m] => blocks[m] \subseteq {"delete"}
      /\ "delete" \in blocks[m] => "suspend" \in past

\* The action on record has happened in Mastodon (record_action's callers).
RecordIsTrue == \A a \in Account : action[a] # "none" => action[a] \in once[a]

\* A shutdown that does not run out of its grace period interrupts no action
\* (drain_in_flight).
DrainInterruptsNothing ==
  [][\A c \in Click : server' = "drained" /\ IsRunning(c) => step'[c] = step[c]]_vars

\* Every account whose click was taken takes clicks again: through failures,
\* panics and restarts (InFlightGuard).  Every call of a task is answered or runs
\* into a timeout.
FairSpec ==
  /\ Spec
  /\ \A c \in Click : WF_vars((TaskStep(c) \/ Fault(c)) /\ Remember)
ClicksAreTakenAgain == \A a \in Account : a \in inFlight ~> a \notin inFlight
=============================================================================
