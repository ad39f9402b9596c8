-------------------------- MODULE SlackServerProofs -------------------------
(***************************************************************************)
(* Proofs about SlackServer, for any number of accounts, messages and      *)
(* clicks.                                                                 *)
(***************************************************************************)
EXTENDS SlackServer, TLAPS

\* A task is at a place that fits its button.
KindFits ==
  \A c \in Click :
    /\ step[c] \in {"cleared", "suspended", "act", "record"} => click[c].kind \in Destructive
    /\ step[c] = "feedback" => click[c].kind \in Terminal

ClickTypeOK ==
  /\ step \in [Click -> Step]
  /\ click \in [Click -> Interaction \cup {NoClick}]
  /\ \A c \in Click : step[c] = "none" <=> click[c] = NoClick

ServerTypeOK ==
  /\ server \in {"up", "draining", "drained", "down"}
  /\ inFlight \subseteq Account

WorldTypeOK ==
  /\ StoreTypeOK
  /\ posted \subseteq Message
  /\ blocks \in [Message -> SUBSET Block]
  /\ action \in [Account -> {"none", "suspend", "delete"}]
  /\ suspended \subseteq Account
  /\ deleted \subseteq Account
  /\ late \subseteq Destructive \X Account

Typed == ClickTypeOK /\ KindFits /\ ServerTypeOK /\ WorldTypeOK

\* "none" is not a button, so a click in progress is an interaction.
LEMMA InteractionIs ==
  ASSUME ClickTypeOK, NEW c \in Click, step[c] # "none"
  PROVE  click[c] \in Interaction /\ Target(c) \in Account
  BY AboutAssumption DEF ClickTypeOK, Interaction, Target

\* An idle slot is told apart from every interaction.
LEMMA NoClickIsNone == NoClick \notin Interaction
  BY DEF NoClick, Interaction, Button, Destructive, Terminal

-----------------------------------------------------------------------------
(* The moves of a click, apart from what they do to the world *)

\* One await to the next, with the blocks edited or not.
Moves(c) ==
  \/ \E place \in Running : Goto(c, place)
  \/ \E shown \in SUBSET Block : Reply(c, shown)

\* What a move keeps.
LEMMA MoveKeeps ==
  ASSUME ClickTypeOK, NEW c \in Click, IsRunning(c), Moves(c)
  PROVE  /\ ClickTypeOK'
         /\ UNCHANGED serverVars
         /\ step'[c] \in Running
         /\ click'[c].kind = click[c].kind /\ click'[c].message = click[c].message
         /\ \A d \in Click : d # c => step'[d] = step[d] /\ click'[d] = click[d]
<1>0. Running \subseteq Step /\ "none" \notin Running /\ "update" \in Running
  BY DEF Running, Step
<1>1. click[c] \in Interaction
  BY <1>0, InteractionIs DEF IsRunning
<1>2. CASE \E place \in Running : Goto(c, place)
  BY <1>0, <1>1, <1>2, NoClickIsNone DEF Goto, ClickTypeOK, IsRunning
<1>3. ASSUME NEW shown \in SUBSET Block, Reply(c, shown)
      PROVE  /\ click'[c] \in Interaction /\ click'[c].kind = click[c].kind
             /\ click'[c].message = click[c].message
  BY <1>1, <1>3 DEF Reply, ClickTypeOK, Interaction
<1>4. CASE \E shown \in SUBSET Block : Reply(c, shown)
  <2>1. PICK shown \in SUBSET Block : Reply(c, shown)
    BY <1>4
  <2>2. click'[c] \in Interaction
    BY <2>1, <1>3
  <2>3. /\ step' = [step EXCEPT ![c] = "update"]
        /\ \A d \in Click : d # c => click'[d] = click[d]
        /\ click' \in [Click -> Interaction \cup {NoClick}]
    BY <1>1, <2>1, <2>2 DEF Reply, ClickTypeOK
  <2>4. ClickTypeOK'
    BY <1>0, <1>1, <2>2, <2>3, NoClickIsNone DEF ClickTypeOK, IsRunning
  <2> QED  BY <1>0, <1>3, <2>1, <2>3, <2>4 DEF Reply, ClickTypeOK
<1> QED  BY <1>2, <1>4 DEF Moves

-----------------------------------------------------------------------------
(* Types *)

\* A verdict, or its failure, keeps the types of the store.
LEMMA FeedbackType ==
  ASSUME StoreTypeOK, NEW a \in Account, NEW verdict \in Terminal, RecordFeedback(a, verdict)
  PROVE  StoreTypeOK'
  BY DEF StoreTypeOK, RecordFeedback, Feedback

\* So does what a call does in Mastodon.
LEMMA EffectType ==
  ASSUME WorldTypeOK, NEW kind, NEW a \in Account, Effect(kind, a)
  PROVE  suspended' \subseteq Account /\ deleted' \subseteq Account /\ late' = late
  BY DEF WorldTypeOK, Effect

\* Every step of a task, up to its last, is a move, and keeps the types.
Inner(c) ==
  \/ CheckCleared(c) \/ CheckClearedFails(c) \/ CheckSuspended(c) \/ CheckSuspendedFails(c)
  \/ Act(c) \/ ActFails(c) \/ Record(c) \/ RecordFails(c)
  \/ RecordVerdict(c) \/ VerdictRefused(c) \/ RecordVerdictFails(c)

\* Each of these is taken by a running task, and leaves it running.
LEMMA InnerMoves ==
  ASSUME Typed, NEW c \in Click, Inner(c)
  PROVE  IsRunning(c) /\ Moves(c)
<1>1. IsRunning(c)
  BY DEF Inner, IsRunning, Running, At, CheckCleared, CheckClearedFails, CheckSuspended,
         CheckSuspendedFails, Act, ActFails, Record, RecordFails, RecordVerdict, VerdictRefused,
         RecordVerdictFails
<1>2. click[c] \in Interaction
  BY <1>1, InteractionIs DEF Typed, IsRunning, Running
<1>3. /\ click[c].shown \in SUBSET Block
      /\ WithoutButtons(click[c].shown) \in SUBSET Block
      /\ BlocksAfter(Kind(c), click[c].shown) \in SUBSET Block
      /\ Pruned(Kind(c), click[c].shown) \in SUBSET Block
  <2>1. click[c].shown \in SUBSET Block /\ "delete" \in Block
    BY <1>2 DEF Interaction, Block, Button, Destructive
  <2> QED  BY <2>1 DEF WithoutButtons, BlocksAfter, Pruned
<1>4. {"suspended", "act", "record"} \subseteq Running
  BY DEF Running
<1>5. CASE CheckCleared(c) \/ CheckClearedFails(c)
  BY <1>1, <1>3, <1>4, <1>5 DEF CheckCleared, CheckClearedFails, Refuse, Moves
<1>6. CASE CheckSuspended(c)
  <2>1. Goto(c, "record") \/ Refuse(c) \/ Goto(c, "act")
    BY <1>6 DEF CheckSuspended, AfterCheck
  <2> QED  BY <1>1, <1>3, <1>4, <2>1 DEF Refuse, Moves
<1>7. CASE CheckSuspendedFails(c)
  BY <1>1, <1>3, <1>4, <1>7 DEF CheckSuspendedFails, Refuse, Moves
<1>8. CASE Act(c) \/ ActFails(c)
  BY <1>1, <1>3, <1>4, <1>8 DEF Act, ActFails, Refuse, Moves
<1>9. CASE Record(c) \/ RecordFails(c)
  BY <1>1, <1>3, <1>9 DEF Record, RecordFails, Moves
<1>10. CASE RecordVerdict(c) \/ VerdictRefused(c) \/ RecordVerdictFails(c)
  BY <1>1, <1>3, <1>10 DEF RecordVerdict, VerdictRefused, RecordVerdictFails, Refuse, Moves
<1> QED  BY <1>1, <1>5, <1>6, <1>7, <1>8, <1>9, <1>10 DEF Inner

\* The places between which such a step goes.
LEMMA InnerPlaces ==
  ASSUME Typed, NEW c \in Click, Inner(c)
  PROVE  /\ step'[c] \in {"suspended", "act", "record", "update"}
         /\ step'[c] # "update" => step[c] \in {"cleared", "suspended", "act"}
         /\ step'[c] = "suspended" => CheckCleared(c) /\ feedback[Target(c)] # "false_positive"
         /\ step'[c] = "act" => step[c] = "suspended"
<1>0. ASSUME NEW place, Goto(c, place) PROVE step'[c] = place
  BY <1>0 DEF Goto, Typed, ClickTypeOK
<1>1. ASSUME NEW shown, Reply(c, shown) PROVE step'[c] = "update"
  BY <1>1 DEF Reply, Typed, ClickTypeOK
<1>2. CASE CheckCleared(c)
  <2>1. CASE feedback[Target(c)] = "false_positive"
    BY <1>1, <1>2, <2>1 DEF CheckCleared
  <2>2. CASE feedback[Target(c)] # "false_positive"
    <3>1. step'[c] = "suspended" /\ step[c] = "cleared"
      BY <1>0, <1>2, <2>2 DEF CheckCleared, At
    <3> QED  BY <1>2, <2>2, <3>1
  <2> QED  BY <2>1, <2>2
<1>3. CASE CheckSuspended(c)
  <2>1. Goto(c, "record") \/ Refuse(c) \/ Goto(c, "act")
    BY <1>3 DEF CheckSuspended, AfterCheck
  <2>2. step'[c] \in {"record", "act", "update"} /\ step[c] = "suspended"
    BY <1>0, <1>1, <1>3, <2>1 DEF CheckSuspended, Refuse, At
  <2> QED  BY <2>2
<1>4. CASE CheckSuspendedFails(c)
  <2>2. step'[c] \in {"act", "update"} /\ step[c] = "suspended"
    BY <1>0, <1>1, <1>4 DEF CheckSuspendedFails, Refuse, At
  <2> QED  BY <2>2
<1>5. CASE Act(c)
  <2>1. step'[c] = "record" /\ step[c] = "act"
    BY <1>0, <1>5 DEF Act, At
  <2> QED  BY <2>1
<1>6. CASE \/ CheckClearedFails(c) \/ ActFails(c) \/ Record(c) \/ RecordFails(c)
           \/ RecordVerdict(c) \/ VerdictRefused(c) \/ RecordVerdictFails(c)
  <2>1. step'[c] = "update"
    BY <1>1, <1>6
    DEF CheckClearedFails, ActFails, Record, RecordFails, RecordVerdict, VerdictRefused,
        RecordVerdictFails, Refuse
  <2> QED  BY <2>1
<1> QED  BY <1>2, <1>3, <1>4, <1>5, <1>6 DEF Inner

\* What such a step does to the world is well typed.
LEMMA InnerWorld ==
  ASSUME Typed, NEW c \in Click, Inner(c)
  PROVE  WorldTypeOK'
<1>1. IsRunning(c) /\ Target(c) \in Account
  BY InnerMoves, InteractionIs DEF Typed, IsRunning, Running
<1>2. WorldTypeOK
  BY DEF Typed
<1>3. ASSUME UNCHANGED worldVars PROVE WorldTypeOK'
  BY <1>2, <1>3 DEF WorldTypeOK, StoreTypeOK, worldVars, storeVars, slackVars, mastodonVars
<1>4. CASE Act(c) \/ ActFails(c)
  <2>1. Kind(c) \in Destructive
    BY <1>4 DEF Typed, KindFits, Act, ActFails, At, Kind
  <2>2. suspended' \subseteq Account /\ deleted' \subseteq Account /\ late' \subseteq Destructive \X Account
    BY <1>1, <1>2, <1>4, <2>1, EffectType DEF Act, ActFails, Abandon, WorldTypeOK, mastodonVars
  <2> QED  BY <1>2, <1>4, <2>2 DEF Act, ActFails, WorldTypeOK, StoreTypeOK, storeVars, slackVars
<1>5. CASE Record(c) \/ RecordFails(c)
  <2>1. Kind(c) \in Destructive
    BY <1>5 DEF Typed, KindFits, Record, RecordFails, At, Kind
  <2>2. action' \in [Account -> {"none", "suspend", "delete"}]
    BY <1>1, <1>2, <1>5, <2>1 DEF Record, RecordFails, SetAction, WorldTypeOK, Destructive
  <2> QED
    BY <1>2, <1>5, <2>2
    DEF Record, RecordFails, WorldTypeOK, StoreTypeOK, storeVars, slackVars, mastodonVars
<1>6. CASE RecordVerdict(c) \/ RecordVerdictFails(c)
  <2>1. Kind(c) \in Terminal
    BY <1>6 DEF Typed, KindFits, RecordVerdict, RecordVerdictFails, At, Kind
  <2>2. StoreTypeOK'
    BY <1>1, <1>2, <1>6, <2>1, FeedbackType
    DEF RecordVerdict, RecordVerdictFails, WorldTypeOK, storeVars, StoreTypeOK
  <2> QED
    BY <1>2, <1>6, <2>2 DEF RecordVerdict, RecordVerdictFails, WorldTypeOK, slackVars, mastodonVars
<1> QED
  BY <1>3, <1>4, <1>5, <1>6
  DEF Inner, CheckCleared, CheckClearedFails, CheckSuspended, CheckSuspendedFails, VerdictRefused

\* A step that leaves a click's kind and place alone, or one that fits, keeps KindFits.
LEMMA InnerFits ==
  ASSUME Typed, NEW c \in Click, Inner(c)
  PROVE  KindFits'
<1>1. IsRunning(c) /\ Moves(c)
  BY InnerMoves
<1>2. /\ step'[c] \in {"suspended", "act", "record", "update"}
      /\ step'[c] # "update" => step[c] \in {"cleared", "suspended", "act"}
  BY InnerPlaces
<1>3. /\ click'[c].kind = click[c].kind
      /\ \A d \in Click : d # c => step'[d] = step[d] /\ click'[d] = click[d]
  BY <1>1, MoveKeeps DEF Typed
<1>4. step'[c] # "update" => click[c].kind \in Destructive
  BY <1>2 DEF Typed, KindFits
<1> QED  BY <1>2, <1>3, <1>4 DEF Typed, KindFits

\* The end of a task: of the clicks, only this one changes.
LEMMA EndKeeps ==
  ASSUME Typed, NEW c \in Click, End(c)
  PROVE  /\ ClickTypeOK' /\ KindFits' /\ ServerTypeOK'
         /\ step'[c] = "none"
         /\ inFlight' = inFlight \ {Target(c)}
         /\ \A d \in Click : d # c => step'[d] = step[d] /\ click'[d] = click[d]
<1>1. /\ step'[c] = "none" /\ click'[c] = NoClick
      /\ \A d \in Click : d # c => step'[d] = step[d] /\ click'[d] = click[d]
      /\ step' \in [Click -> Step] /\ click' \in [Click -> Interaction \cup {NoClick}]
  BY DEF Typed, ClickTypeOK, End, Forget, Step
<1>2. inFlight' = inFlight \ {Target(c)} /\ server' = server
  BY DEF End
<1> QED  BY <1>1, <1>2 DEF Typed, ClickTypeOK, KindFits, ServerTypeOK

\* So do the steps before a task begins and after it has ended.
LEMMA OuterType ==
  ASSUME Typed, NEW c \in Click,
         \/ \E m \in Message, button \in Button : Press(c, m, button)
         \/ Take(c) \/ Ignore(c) \/ Update(c) \/ UpdateFails(c) \/ Panic(c)
  PROVE  Typed'
<1>0. WorldTypeOK /\ ClickTypeOK /\ KindFits /\ ServerTypeOK
  BY DEF Typed
<1>1. ASSUME UNCHANGED worldVars PROVE WorldTypeOK'
  BY <1>0, <1>1 DEF WorldTypeOK, StoreTypeOK, worldVars, storeVars, slackVars, mastodonVars
<1>2. ASSUME NEW m \in Message, NEW button \in Button, Press(c, m, button) PROVE Typed'
  <2>0. PICK copy \in Copies(c, m) :
          click' = [click EXCEPT ![c] = [kind |-> button, message |-> m, shown |-> copy]]
    BY <1>2 DEF Press
  <2> DEFINE r == [kind |-> button, message |-> m, shown |-> copy]
  <2>1. r \in Interaction
    BY <1>0 DEF WorldTypeOK, Interaction, Copies
  <2>2. r # NoClick
    BY <2>1, NoClickIsNone
  <2>3. step' = [step EXCEPT ![c] = "sent"] /\ click' = [click EXCEPT ![c] = r]
    BY <1>2, <2>0 DEF Press
  <2>4. ClickTypeOK'
    BY <1>0, <2>1, <2>2, <2>3 DEF ClickTypeOK, Step
  <2>5. KindFits'
    BY <1>0, <2>3 DEF ClickTypeOK, KindFits
  <2> QED  BY <1>0, <1>1, <1>2, <2>4, <2>5 DEF Press, Typed, ServerTypeOK, serverVars
<1>3. CASE Take(c)
  <2>1. click[c] \in Interaction /\ Target(c) \in Account
    BY <1>0, <1>3, InteractionIs DEF Take, At
  <2>2. FirstStep(Kind(c)) \in Step \ {"none"}
    BY DEF FirstStep, Step, Running
  <2>3. ClickTypeOK'
    BY <1>0, <1>3, <2>1, <2>2, NoClickIsNone DEF ClickTypeOK, Take
  <2>4. click[c].kind \in Destructive \cup Terminal
    BY <2>1 DEF Interaction, Button
  <2>5. KindFits'
    BY <1>0, <1>3, <2>4 DEF ClickTypeOK, KindFits, Take, FirstStep, Kind
  <2> QED  BY <1>0, <1>1, <1>3, <2>1, <2>3, <2>5 DEF Take, Typed, ServerTypeOK
<1>4. CASE Ignore(c)
  <2>1. ClickTypeOK' /\ KindFits'
    BY <1>0, <1>4 DEF Ignore, Forget, ClickTypeOK, KindFits, Step
  <2> QED  BY <1>0, <1>1, <1>4, <2>1 DEF Ignore, Typed, ServerTypeOK, serverVars
<1>5. CASE Update(c) \/ UpdateFails(c)
  <2>1. click[c] \in Interaction
    BY <1>0, <1>5, InteractionIs DEF Update, UpdateFails, At
  <2>2. blocks' \in [Message -> SUBSET Block]
    BY <1>0, <1>5, <2>1 DEF Update, UpdateFails, ReplaceOriginal, WorldTypeOK, Interaction
  <2>3. WorldTypeOK'
    BY <1>0, <1>5, <2>2 DEF Update, UpdateFails, WorldTypeOK, StoreTypeOK, storeVars, mastodonVars
  <2> QED  BY <1>5, <2>3, EndKeeps DEF Update, UpdateFails, Typed
<1>6. CASE Panic(c)
  BY <1>1, <1>6, EndKeeps DEF Panic, Typed
<1> QED  BY <1>2, <1>3, <1>4, <1>5, <1>6

\* The process comes and goes.
LEMMA ExitKeeps ==
  ASSUME Typed, NEW to \in {"down", "drained"}, Exit(to)
  PROVE  /\ ClickTypeOK' /\ KindFits' /\ ServerTypeOK'
         /\ \A c \in Click : ~IsRunning(c)'
<1>1. \A c \in Click : ~IsRunning(c)'
  BY DEF Exit, IsRunning, Running
<1>2. /\ step' \in [Click -> Step] /\ click' \in [Click -> Interaction \cup {NoClick}]
      /\ \A c \in Click : step'[c] = "none" <=> click'[c] = NoClick
  BY DEF Exit, Typed, ClickTypeOK, Step, IsRunning, Running
<1>3. KindFits'
  BY <1>1 DEF KindFits, IsRunning, Running
<1> QED  BY <1>1, <1>2, <1>3 DEF ClickTypeOK, ServerTypeOK, Exit

\* So every move of the process keeps the types.
LEMMA ProcessType ==
  ASSUME Typed, ProcessMoves
  PROVE  Typed'
<1>1. CASE Terminate \/ Start
  BY <1>1 DEF Terminate, Start, Typed, ClickTypeOK, KindFits, ServerTypeOK, WorldTypeOK, StoreTypeOK,
              worldVars, storeVars, slackVars, mastodonVars, clickVars
<1>2. CASE Drained
  BY <1>2, ExitKeeps DEF Drained, Typed, WorldTypeOK, StoreTypeOK,
              worldVars, storeVars, slackVars, mastodonVars
<1>3. CASE Crash
  <2>1. PICK calls \in SUBSET {<<Kind(c), Target(c)>> : c \in {d \in Click : At(d, "act")}} :
          late' = late \cup calls
    BY <1>3 DEF Crash
  <2>2. ASSUME NEW c \in Click, At(c, "act") PROVE <<Kind(c), Target(c)>> \in Destructive \X Account
    BY <2>2, InteractionIs DEF Typed, KindFits, At, Kind
  <2>3. late' \subseteq Destructive \X Account
    BY <2>1, <2>2 DEF Typed, WorldTypeOK
  <2> QED  BY <1>3, <2>3, ExitKeeps DEF Crash, Typed, WorldTypeOK, StoreTypeOK, storeVars, slackVars
<1> QED  BY <1>1, <1>2, <1>3 DEF ProcessMoves

\* Deliveries, expiry and Mastodon.
LEMMA WorldType ==
  ASSUME Typed, WorldMoves
  PROVE  WorldTypeOK' /\ UNCHANGED notServer
<1> USE DEF Typed, WorldTypeOK
<1>1. ASSUME NEW a \in Account, Expire(a) PROVE WorldTypeOK' /\ UNCHANGED notServer
  BY <1>1 DEF Expire, ExpireJob, StoreTypeOK, storeVars, slackVars, mastodonVars
<1>2. ASSUME NEW a \in Account, Elsewhere(a) PROVE WorldTypeOK' /\ UNCHANGED notServer
  BY <1>2, EffectType DEF Elsewhere, StoreTypeOK, storeVars, slackVars
<1>3. ASSUME NEW a \in Account, JobIsDone(a) PROVE WorldTypeOK' /\ UNCHANGED notServer
  <2>1. [status |-> "spam", verdict |-> "spam", notified |-> TRUE] \in JobRecord
    BY DEF JobRecord, JobStatus, Completed, Verdict
  <2>2. StoreTypeOK'
    BY <1>3, <2>1 DEF JobIsDone, CompleteJob, WriteJob, StoreTypeOK
  <2> QED  BY <1>3, <2>2 DEF JobIsDone, slackVars, mastodonVars
<1>4. ASSUME NEW a \in Account, NEW t \in Task, Claim(a, t) \/ Release(a, t)
      PROVE  WorldTypeOK' /\ UNCHANGED notServer
  BY <1>4 DEF Claim, Release, ClaimNotification, ReleaseClaim, StoreTypeOK, slackVars, mastodonVars
<1>5. ASSUME NEW m \in Message, NEW t \in Task, Post(m, t)
      PROVE  WorldTypeOK' /\ UNCHANGED notServer
  BY <1>5 DEF Post, StoreTypeOK, storeVars, mastodonVars
<1>6. ASSUME NEW kind \in Destructive, NEW a \in Account, Lands(kind, a)
      PROVE  WorldTypeOK' /\ UNCHANGED notServer
  BY <1>6 DEF Lands, StoreTypeOK, storeVars, slackVars
<1> QED  BY <1>1, <1>2, <1>3, <1>4, <1>5, <1>6 DEF WorldMoves

-----------------------------------------------------------------------------
(* One step of anybody *)

\* A step is a call of a task, a click before or after its task, the process, or
\* the rest of the world.
Outer(c) ==
  \/ \E m \in Message, button \in Button : Press(c, m, button)
  \/ Take(c) \/ Ignore(c) \/ Update(c) \/ UpdateFails(c) \/ Panic(c)

\* The disjuncts of Next, sorted so.
LEMMA StepIs ==
  ASSUME Next
  PROVE  (\E c \in Click : Inner(c) \/ Outer(c)) \/ ProcessMoves \/ WorldMoves
<1>1. ASSUME NEW c \in Click, ClickMoves(c) PROVE Inner(c) \/ Outer(c)
  BY <1>1 DEF ClickMoves, TaskStep, Fault, Inner, Outer
<1> QED  BY <1>1 DEF Next

\* Every step keeps the types.
LEMMA NextTyped ==
  ASSUME Typed, Next
  PROVE  Typed'
<1>1. ASSUME NEW c \in Click, Inner(c) PROVE Typed'
  <2>1. IsRunning(c) /\ Moves(c)
    BY <1>1, InnerMoves
  <2>2. ClickTypeOK' /\ UNCHANGED serverVars
    BY <2>1, MoveKeeps DEF Typed
  <2>3. ServerTypeOK'
    BY <2>2 DEF Typed, ServerTypeOK, serverVars
  <2>4. KindFits' /\ WorldTypeOK'
    BY <1>1, InnerFits, InnerWorld
  <2> QED  BY <2>2, <2>3, <2>4 DEF Typed
<1>2. ASSUME NEW c \in Click, Outer(c) PROVE Typed'
  BY <1>2, OuterType DEF Outer
<1>3. CASE ProcessMoves
  BY <1>3, ProcessType
<1>4. CASE WorldMoves
  <2>1. WorldTypeOK' /\ UNCHANGED notServer
    BY <1>4, WorldType
  <2>2. ClickTypeOK' /\ KindFits' /\ ServerTypeOK'
    BY <2>1 DEF Typed, ClickTypeOK, KindFits, ServerTypeOK, notServer, serverVars, clickVars
  <2> QED  BY <2>1, <2>2 DEF Typed
<1> QED  BY <1>1, <1>2, <1>3, <1>4, StepIs

\* The history of an account is written in the words of the buttons.
LEMMA OnceType ==
  ASSUME once \in [Account -> SUBSET Button], Remember
  PROVE  once' \in [Account -> SUBSET Button]
<1>1. ASSUME NEW a \in Account PROVE Now(a)' \subseteq Button
  BY DEF Now, Button
<1> QED  BY <1>1 DEF Remember

\* A step that changes nothing.
LEMMA StutterTyped ==
  ASSUME Typed, UNCHANGED vars
  PROVE  Typed'
  BY DEF vars, Typed, ClickTypeOK, KindFits, ServerTypeOK, WorldTypeOK, StoreTypeOK, worldVars,
         storeVars, slackVars, mastodonVars, serverVars, clickVars

\* The first state.
LEMMA InitTyped ==
  ASSUME Init
  PROVE  Typed /\ once \in [Account -> SUBSET Button]
<1>1. PendingJob(ProcessingJob) \in JobRecord
  BY DEF PendingJob, ProcessingJob, JobRecord, JobStatus, Completed, Verdict
<1>2. WorldTypeOK
  BY <1>1 DEF Init, WorldTypeOK, StoreTypeOK, Feedback
<1> QED  BY <1>2 DEF Init, Typed, ClickTypeOK, KindFits, ServerTypeOK, Step, Terminal, Destructive

\* Types as reachable states have them: the places of the tasks fit their buttons.
LEMMA TypedAlways == Spec => [](Typed /\ once \in [Account -> SUBSET Button])
<1> DEFINE Inv == Typed /\ once \in [Account -> SUBSET Button]
<1>1. Init => Inv
  BY InitTyped
<1>2. Inv /\ [Next]_vars => Inv'
  <2>1. ASSUME Inv, Next PROVE Inv'
    <3>1. Remember
      BY <2>1 DEF Next
    <3> QED  BY <2>1, <3>1, NextTyped, OnceType
  <2>2. ASSUME Inv, UNCHANGED vars PROVE Inv'
    <3>1. once' = once
      BY <2>2 DEF vars
    <3> QED  BY <2>2, <3>1, StutterTyped
  <2> QED  BY <2>1, <2>2
<1> QED  BY <1>1, <1>2, PTL DEF Spec

\* Every variable of the server, of Slack and of the two services keeps its type:
\* above all, a task is never without the interaction it serves.
THEOREM TypeCorrect == Spec => []TypeOK
<1>1. Typed /\ once \in [Account -> SUBSET Button] => TypeOK
  BY DEF Typed, ClickTypeOK, ServerTypeOK, WorldTypeOK, TypeOK
<1> QED  BY <1>1, TypedAlways, PTL

-----------------------------------------------------------------------------
(* One task for an account *)

\* The account of a task is in the set, and no other task is about it.
Held ==
  /\ \A c \in Click : IsRunning(c) => Target(c) \in inFlight
  /\ \A c, d \in Click : IsRunning(c) /\ IsRunning(d) /\ Target(c) = Target(d) => c = d

\* No step breaks it: the claim is taken before the task starts and given back by
\* the task alone.
LEMMA NextHeld ==
  ASSUME Typed, Held, Next
  PROVE  Held'
<1>1. ASSUME NEW c \in Click, Inner(c) PROVE Held'
  <2>1. IsRunning(c) /\ Moves(c)
    BY <1>1, InnerMoves
  <2>2. /\ step'[c] \in Running /\ inFlight' = inFlight
        /\ \A d \in Click : click'[d].message = click[d].message
        /\ \A d \in Click : d # c => step'[d] = step[d]
    BY <2>1, MoveKeeps DEF Typed, serverVars
  <2>3. \A d \in Click : (IsRunning(d)' <=> IsRunning(d)) /\ Target(d)' = Target(d)
    BY <2>1, <2>2 DEF IsRunning, Target
  <2> QED  BY <2>2, <2>3 DEF Held
<1>2. ASSUME NEW c \in Click, Outer(c) PROVE Held'
  <2>0. /\ "none" \notin Running /\ "sent" \notin Running /\ "update" \in Running
    BY DEF Running
  <2>1. CASE (\E m \in Message, button \in Button : Press(c, m, button)) \/ Ignore(c)
    <3>1. /\ ~IsRunning(c)' /\ inFlight' = inFlight
          /\ \A d \in Click : d # c => step'[d] = step[d] /\ click'[d] = click[d]
      BY <2>0, <2>1 DEF Press, Ignore, Forget, IsRunning, Typed, ClickTypeOK, serverVars
    <3> QED  BY <3>1 DEF Held, IsRunning, Target
  <2>2. CASE Take(c)
    <3>1. /\ Target(c) \notin inFlight /\ inFlight' = inFlight \cup {Target(c)}
          /\ \A d \in Click : d # c => step'[d] = step[d]
          /\ click' = click
      BY <2>2 DEF Take, IsFree, Typed, ClickTypeOK
    <3>2. \A d \in Click : Target(d)' = Target(d)
      BY <3>1 DEF Target
    <3>3. \A d \in Click : d # c => (IsRunning(d)' <=> IsRunning(d))
      BY <3>1 DEF IsRunning
    <3>4. \A d \in Click : d # c /\ IsRunning(d) => Target(d) # Target(c) /\ Target(d) \in inFlight
      BY <3>1 DEF Held
    <3> QED  BY <3>1, <3>2, <3>3, <3>4 DEF Held
  <2>3. CASE Update(c) \/ UpdateFails(c) \/ Panic(c)
    <3>1. IsRunning(c) /\ End(c)
      BY <2>0, <2>3 DEF Update, UpdateFails, Panic, IsRunning, At
    <3>2. /\ step'[c] = "none" /\ inFlight' = inFlight \ {Target(c)}
          /\ \A d \in Click : d # c => step'[d] = step[d] /\ click'[d] = click[d]
      BY <3>1, EndKeeps
    <3>3. /\ ~IsRunning(c)'
          /\ \A d \in Click : d # c => (IsRunning(d)' <=> IsRunning(d)) /\ Target(d)' = Target(d)
      BY <2>0, <3>2 DEF IsRunning, Target
    <3>4. \A d \in Click : d # c /\ IsRunning(d) => Target(d) \in inFlight'
      BY <3>1, <3>2 DEF Held
    <3> QED  BY <3>3, <3>4 DEF Held
  <2> QED  BY <1>2, <2>1, <2>2, <2>3 DEF Outer
<1>3. CASE ProcessMoves
  <2>1. CASE Terminate \/ Start
    BY <2>1 DEF Terminate, Start, clickVars, Held, IsRunning, Target
  <2>2. CASE Drained \/ Crash
    <3>1. \A c \in Click : ~IsRunning(c)'
      BY <2>2, ExitKeeps DEF Drained, Crash
    <3> QED  BY <3>1 DEF Held
  <2> QED  BY <1>3, <2>1, <2>2 DEF ProcessMoves
<1>4. CASE WorldMoves
  <2>1. step' = step /\ click' = click /\ inFlight' = inFlight
    BY <1>4, WorldType DEF notServer, serverVars, clickVars
  <2> QED  BY <2>1 DEF Held, IsRunning, Target
<1> QED  BY <1>1, <1>2, <1>3, <1>4, StepIs

-----------------------------------------------------------------------------
(* A cleared account is not acted on *)

\* Past refuse_if_cleared the account is not, and stays not, a false positive.
Vetted ==
  \A c \in Click : step[c] \in {"suspended", "act"} => feedback[Target(c)] # "false_positive"

\* The feedback of an account is changed by its own task only.
LEMMA FeedbackMoves ==
  ASSUME NEW c \in Click, Inner(c)
  PROVE  \/ feedback' = feedback
         \/ /\ step[c] = "feedback"
            /\ feedback' = [feedback EXCEPT ![Target(c)] = Kind(c)]
<1>1. CASE RecordVerdict(c) \/ RecordVerdictFails(c)
  BY <1>1 DEF RecordVerdict, RecordVerdictFails, RecordFeedback, At, storeVars
<1>2. CASE ~(RecordVerdict(c) \/ RecordVerdictFails(c))
  BY <1>2 DEF Inner, CheckCleared, CheckClearedFails, CheckSuspended, CheckSuspendedFails, Act,
              ActFails, Record, RecordFails, VerdictRefused, worldVars, storeVars
<1> QED  BY <1>1, <1>2

\* Nothing else changes it.
LEMMA FeedbackStays ==
  ASSUME (\E c \in Click : Outer(c)) \/ ProcessMoves \/ WorldMoves
  PROVE  feedback' = feedback
<1>1. ASSUME NEW c \in Click, Outer(c) PROVE feedback' = feedback
  BY <1>1 DEF Outer, Press, Take, Ignore, Update, UpdateFails, Panic, worldVars, storeVars
<1>2. CASE ProcessMoves
  BY <1>2 DEF ProcessMoves, Terminate, Drained, Crash, Start, worldVars, storeVars
<1>3. CASE WorldMoves
  BY <1>3 DEF WorldMoves, Expire, ExpireJob, Elsewhere, JobIsDone, CompleteJob, WriteJob, Claim,
              ClaimNotification, Release, ReleaseClaim, Post, Lands, storeVars
<1> QED  BY <1>1, <1>2, <1>3

\* A step keeps what has been checked: the verdict of another click would need a
\* second task for the account.
LEMMA NextVetted ==
  ASSUME Typed, Held, Vetted, Next
  PROVE  Vetted'
<1>0. {"suspended", "act"} \subseteq Running /\ "feedback" \in Running
  BY DEF Running
<1>1. ASSUME NEW c \in Click, Inner(c) PROVE Vetted'
  <2>1. IsRunning(c) /\ Moves(c)
    BY <1>1, InnerMoves
  <2>2. /\ \A d \in Click : Target(d)' = Target(d)
        /\ \A d \in Click : d # c => step'[d] = step[d]
    BY <2>1, MoveKeeps DEF Typed, Target
  <2>3. ASSUME NEW d \in Click, d # c, step'[d] \in {"suspended", "act"}
        PROVE  feedback'[Target(d)] # "false_positive"
    <3>1. step[d] \in {"suspended", "act"} /\ IsRunning(d)
      BY <1>0, <2>2, <2>3 DEF IsRunning
    <3>2. feedback[Target(d)] # "false_positive" /\ Target(d) # Target(c)
      BY <2>1, <2>3, <3>1 DEF Vetted, Held
    <3>3. feedback \in [Account -> Feedback] /\ Target(d) \in Account
      BY <3>1, InteractionIs DEF Typed, WorldTypeOK, StoreTypeOK
    <3> QED  BY <1>1, <3>2, <3>3, FeedbackMoves
  <2>4. ASSUME step'[c] \in {"suspended", "act"}
        PROVE  feedback'[Target(c)] # "false_positive"
    <3>1. step[c] # "feedback" /\ feedback[Target(c)] # "false_positive"
      BY <1>1, <2>4, InnerPlaces DEF Vetted
    <3> QED  BY <1>1, <3>1, FeedbackMoves
  <2> QED  BY <2>2, <2>3, <2>4 DEF Vetted
<1>2. ASSUME NEW c \in Click, Outer(c) PROVE Vetted'
  <2>1. feedback' = feedback
    BY <1>2, FeedbackStays
  <2>2. /\ \A d \in Click : d # c => step'[d] = step[d] /\ click'[d] = click[d]
        /\ step'[c] \notin {"suspended", "act"}
    BY <1>2 DEF Outer, Press, Take, FirstStep, Ignore, Update, UpdateFails, Panic, End, Forget,
                Typed, ClickTypeOK
  <2> QED  BY <2>1, <2>2 DEF Vetted, Target
<1>3. CASE ProcessMoves
  <2>1. CASE Terminate \/ Start
    BY <2>1 DEF Terminate, Start, clickVars, worldVars, storeVars, Vetted, Target
  <2>2. CASE Drained \/ Crash
    <3>1. \A c \in Click : step'[c] \notin Running
      BY <2>2, ExitKeeps DEF Drained, Crash, IsRunning
    <3> QED  BY <1>0, <3>1 DEF Vetted
  <2> QED  BY <1>3, <2>1, <2>2 DEF ProcessMoves
<1>4. CASE WorldMoves
  <2>1. step' = step /\ click' = click /\ feedback' = feedback
    BY <1>4, WorldType, FeedbackStays DEF notServer, clickVars
  <2> QED  BY <2>1 DEF Vetted, Target
<1> QED  BY <1>1, <1>2, <1>3, <1>4, StepIs

\* The inductive invariant, always.
LEMMA HeldAlways == Spec => [](Held /\ Vetted)
<1> DEFINE Inv == Held /\ Vetted
<1>1. Init => Inv
  BY DEF Init, Held, Vetted, IsRunning, Running
<1>2. Inv /\ Typed /\ [Next]_vars => Inv'
  <2>1. ASSUME Inv, Typed, Next PROVE Inv'
    BY <2>1, NextHeld, NextVetted
  <2>2. ASSUME Inv, UNCHANGED vars PROVE Inv'
    BY <2>2 DEF vars, worldVars, storeVars, serverVars, clickVars, Held, Vetted, IsRunning, Target
  <2> QED  BY <2>1, <2>2
<1>3. Spec => []Typed
  BY TypedAlways, PTL
<1> QED  BY <1>1, <1>2, <1>3, PTL DEF Spec

\* While Mastodon is asked to suspend or delete an account nobody has marked it as
\* a false positive, and nobody does before the answer (refuse_if_cleared).
THEOREM ClearedIsNotActedOnCorrect == Spec => []ClearedIsNotActedOn
<1>1. Vetted => ClearedIsNotActedOn
  BY DEF Vetted, ClearedIsNotActedOn, At
<1> QED  BY <1>1, HeldAlways, PTL

\* A process that has ended has no tasks, so its set is empty until it starts again.
Halted == server \in {"drained", "down"} => inFlight = {}

\* Tasks are taken by a running process, and the set goes with the process.
LEMMA NextHalted ==
  ASSUME Typed, Halted, Next
  PROVE  Halted'
<1>1. ASSUME NEW c \in Click, Inner(c) PROVE Halted'
  BY <1>1, InnerMoves, MoveKeeps DEF Typed, serverVars, Halted
<1>2. ASSUME NEW c \in Click, Outer(c) PROVE Halted'
  BY <1>2 DEF Outer, Press, Take, Ignore, Update, UpdateFails, Panic, End, serverVars, Halted
<1>3. CASE ProcessMoves
  BY <1>3 DEF ProcessMoves, Terminate, Drained, Crash, Exit, Start, Halted
<1>4. CASE WorldMoves
  BY <1>4, WorldType DEF notServer, serverVars, Halted
<1> QED  BY <1>1, <1>2, <1>3, <1>4, StepIs

\* Only a drain ends in "drained".
LEMMA DrainedBy ==
  ASSUME Typed, Next, server' = "drained"
  PROVE  server = "drained" \/ inFlight = {}
<1>1. ASSUME NEW c \in Click, Inner(c) PROVE server' = server
  BY <1>1, InnerMoves, MoveKeeps DEF Typed, serverVars
<1>2. ASSUME NEW c \in Click, Outer(c) PROVE server' = server
  BY <1>2 DEF Outer, Press, Take, Ignore, Update, UpdateFails, Panic, End, serverVars
<1>3. CASE ProcessMoves
  BY <1>3 DEF ProcessMoves, Terminate, Drained, MayExit, Crash, Exit, Start
<1>4. CASE WorldMoves
  BY <1>4, WorldType DEF notServer, serverVars
<1> QED  BY <1>1, <1>2, <1>3, <1>4, StepIs

\* When drain_in_flight has seen the set empty no task is left to interrupt: the
\* claim is held from before the task is spawned until after its last call.
THEOREM DrainInterruptsNothingCorrect == Spec => DrainInterruptsNothing
<1> DEFINE Kept ==
      \A c \in Click : server' = "drained" /\ IsRunning(c) => step'[c] = step[c]
<1>1. Init => Halted
  BY DEF Init, Halted
<1>2. Halted /\ Typed /\ [Next]_vars => Halted'
  <2>1. ASSUME Halted, UNCHANGED vars PROVE Halted'
    BY <2>1 DEF vars, serverVars, Halted
  <2> QED  BY <2>1, NextHalted
<1>3. Typed /\ Held /\ Halted /\ [Next]_vars => [Kept]_vars
  <2>1. ASSUME Typed, Held, Halted, Next, server' = "drained" PROVE \A c \in Click : ~IsRunning(c)
    BY <2>1, DrainedBy DEF Held, Halted
  <2> QED  BY <2>1
<1>4. Spec => [](Typed /\ Held)
  BY TypedAlways, HeldAlways, PTL
<1> QED  BY <1>1, <1>2, <1>3, <1>4, PTL DEF Spec, DrainInterruptsNothing

-----------------------------------------------------------------------------
(* What is on record has happened *)

\* What is true of an account is in its history, a task about to record an action
\* has seen it done, and so has whoever recorded one.
Witnessed ==
  /\ \A a \in Account : Now(a) \subseteq once[a]
  /\ \A c \in Click : step[c] = "record" => Kind(c) \in once[Target(c)]
  /\ RecordIsTrue

\* A task comes to record an action that was done before, or by its own call.
LEMMA RecordPlace ==
  ASSUME Typed, NEW c \in Click, Inner(c), step'[c] = "record"
  PROVE  (Kind(c) = "suspend" /\ Target(c) \in suspended) \/ Act(c)
<1>0. ASSUME NEW place, Goto(c, place) PROVE step'[c] = place
  BY <1>0 DEF Goto, Typed, ClickTypeOK
<1>1. ASSUME NEW shown, Reply(c, shown) PROVE step'[c] = "update"
  BY <1>1 DEF Reply, Typed, ClickTypeOK
<1>2. CASE CheckSuspended(c)
  <2>1. \/ Kind(c) = "suspend" /\ Target(c) \in suspended
        \/ Refuse(c)
        \/ Goto(c, "act")
    BY <1>2 DEF CheckSuspended, AfterCheck
  <2>2. ~Refuse(c) /\ ~Goto(c, "act")
    BY <1>0, <1>1 DEF Refuse
  <2> QED  BY <2>1, <2>2
<1>3. CASE CheckCleared(c) \/ CheckSuspendedFails(c)
  <2>1. step'[c] \in {"suspended", "act", "update"}
    BY <1>0, <1>1, <1>3 DEF CheckCleared, CheckSuspendedFails, Refuse
  <2> QED  BY <2>1
<1>4. CASE \/ CheckClearedFails(c) \/ ActFails(c) \/ Record(c) \/ RecordFails(c)
           \/ RecordVerdict(c) \/ VerdictRefused(c) \/ RecordVerdictFails(c)
  <2>1. step'[c] = "update"
    BY <1>1, <1>4
    DEF CheckClearedFails, ActFails, Record, RecordFails, RecordVerdict, VerdictRefused,
        RecordVerdictFails, Refuse
  <2> QED  BY <2>1
<1> QED  BY <1>2, <1>3, <1>4 DEF Inner

\* Nobody else brings a task there.
LEMMA RecordStays ==
  ASSUME Typed, Next, NEW c \in Click, ~Inner(c), step'[c] = "record"
  PROVE  step[c] = "record" /\ Kind(c)' = Kind(c) /\ Target(c)' = Target(c)
<1>0. "record" \in Running
  BY DEF Running
<1>1. ASSUME NEW d \in Click, Inner(d)
      PROVE  step[c] = "record" /\ Kind(c)' = Kind(c) /\ Target(c)' = Target(c)
  BY <1>1, InnerMoves, MoveKeeps DEF Typed, Kind, Target
<1>2. ASSUME NEW d \in Click, Outer(d)
      PROVE  step[c] = "record" /\ Kind(c)' = Kind(c) /\ Target(c)' = Target(c)
  <2>1. /\ \A e \in Click : e # d => step'[e] = step[e] /\ click'[e] = click[e]
        /\ step'[d] # "record"
    BY <1>2 DEF Outer, Press, Take, FirstStep, Ignore, Update, UpdateFails, Panic, End, Forget,
                Typed, ClickTypeOK
  <2> QED  BY <2>1 DEF Kind, Target
<1>3. CASE ProcessMoves
  <2>1. CASE Terminate \/ Start
    BY <2>1 DEF Terminate, Start, clickVars, Kind, Target
  <2>2. CASE Drained \/ Crash
    BY <1>0, <2>2, ExitKeeps DEF Drained, Crash, IsRunning
  <2> QED  BY <1>3, <2>1, <2>2 DEF ProcessMoves
<1>4. CASE WorldMoves
  BY <1>4, WorldType DEF notServer, clickVars, Kind, Target
<1> QED  BY <1>1, <1>2, <1>3, <1>4, StepIs

\* The record of an account is written by a task at that place, or expires.
LEMMA ActionMoves ==
  ASSUME Next
  PROVE  \/ action' = action
         \/ \E c \in Click : step[c] = "record" /\ SetAction(c)
         \/ \E a \in Account : action' = [action EXCEPT ![a] = "none"]
<1>1. ASSUME NEW c \in Click, Inner(c)
      PROVE  action' = action \/ (step[c] = "record" /\ SetAction(c))
  <2>1. CASE Record(c) \/ RecordFails(c)
    BY <2>1 DEF Record, RecordFails, At
  <2>2. CASE ~(Record(c) \/ RecordFails(c))
    BY <1>1, <2>2 DEF Inner, CheckCleared, CheckClearedFails, CheckSuspended, CheckSuspendedFails,
                Act, ActFails, RecordVerdict, RecordVerdictFails, VerdictRefused, worldVars
  <2> QED  BY <2>1, <2>2
<1>2. ASSUME NEW c \in Click, Outer(c) PROVE action' = action
  BY <1>2 DEF Outer, Press, Take, Ignore, Update, UpdateFails, Panic, worldVars
<1>3. CASE ProcessMoves
  BY <1>3 DEF ProcessMoves, Terminate, Drained, Crash, Start, worldVars
<1>4. CASE WorldMoves
  BY <1>4 DEF WorldMoves, Expire, Elsewhere, JobIsDone, Claim, Release, Post, Lands
<1> QED  BY <1>1, <1>2, <1>3, <1>4, StepIs

\* Memory only grows, and holds the present.
LEMMA MemoryGrows ==
  ASSUME Remember, NEW a \in Account
  PROVE  once[a] \subseteq once'[a] /\ Now(a)' \subseteq once'[a]
  BY DEF Remember

\* So a step keeps what the records and their writers witness.
LEMMA NextWitnessed ==
  ASSUME Typed, Witnessed, Next
  PROVE  Witnessed'
<1>1. \A a \in Account : once[a] \subseteq once'[a] /\ Now(a)' \subseteq once'[a]
  BY MemoryGrows DEF Next
<1>2. ASSUME NEW c \in Click, step[c] = "record"
      PROVE  Target(c) \in Account /\ Kind(c) \in once[Target(c)]
  BY <1>2, InteractionIs DEF Typed, Witnessed
<1>3. RecordIsTrue'
  <2>1. action \in [Account -> {"none", "suspend", "delete"}]
    BY DEF Typed, WorldTypeOK
  <2>2. ASSUME NEW c \in Click, step[c] = "record", SetAction(c) PROVE RecordIsTrue'
    BY <1>1, <1>2, <2>1, <2>2 DEF SetAction, RecordIsTrue, Witnessed
  <2>3. ASSUME NEW a \in Account, action' = [action EXCEPT ![a] = "none"] PROVE RecordIsTrue'
    BY <1>1, <2>1, <2>3 DEF RecordIsTrue, Witnessed
  <2>4. CASE action' = action
    BY <1>1, <2>4 DEF RecordIsTrue, Witnessed
  <2> QED  BY <2>2, <2>3, <2>4, ActionMoves
<1>4. ASSUME NEW c \in Click, step'[c] = "record" PROVE Kind(c)' \in once'[Target(c)']
  <2>1. CASE Inner(c)
    <3>1. IsRunning(c) /\ Moves(c)
      BY <2>1, InnerMoves
    <3>2. Kind(c)' = Kind(c) /\ Target(c)' = Target(c) /\ Target(c) \in Account
      BY <3>1, MoveKeeps, InteractionIs DEF Typed, Kind, Target, IsRunning, Running
    <3>3. CASE Kind(c) = "suspend" /\ Target(c) \in suspended
      <4>1. Kind(c) \in Now(Target(c))
        BY <3>3 DEF Now, Destructive
      <4> QED  BY <1>1, <3>2, <4>1 DEF Witnessed
    <3>4. CASE Act(c)
      <4>1. Kind(c) \in Destructive
        BY <3>4 DEF Typed, KindFits, Act, At, Kind
      <4>2. Target(c) \in suspended' /\ (Kind(c) = "delete" => Target(c) \in deleted')
        BY <3>2, <3>4 DEF Act, Effect
      <4>3. Kind(c) \in Now(Target(c))'
        BY <3>2, <4>1, <4>2 DEF Now, Destructive
      <4> QED  BY <1>1, <3>2, <4>3
    <3> QED  BY <1>4, <2>1, <3>3, <3>4, RecordPlace
  <2>2. CASE ~Inner(c)
    BY <1>1, <1>2, <1>4, <2>2, RecordStays
  <2> QED  BY <2>1, <2>2
<1> QED  BY <1>1, <1>3, <1>4 DEF Witnessed

\* That is invariant.
LEMMA WitnessedAlways == Spec => []Witnessed
<1>1. Init => Witnessed
  BY DEF Init, Witnessed, Now, RecordIsTrue, Terminal
<1>2. Witnessed /\ Typed /\ [Next]_vars => Witnessed'
  <2>1. ASSUME Witnessed, UNCHANGED vars PROVE Witnessed'
    BY <2>1 DEF vars, worldVars, storeVars, mastodonVars, clickVars, Witnessed, Now, Kind, Target,
                RecordIsTrue
  <2> QED  BY <2>1, NextWitnessed
<1>3. Spec => []Typed
  BY TypedAlways, PTL
<1> QED  BY <1>1, <1>2, <1>3, PTL DEF Spec

\* A record of a suspension or deletion is never of one that did not happen: a
\* failed call leaves none, and whatever was answered late or twice leaves the
\* same (record_action's callers).
THEOREM RecordIsTrueCorrect == Spec => []RecordIsTrue
<1>1. Witnessed => RecordIsTrue
  BY DEF Witnessed
<1> QED  BY <1>1, WitnessedAlways, PTL
-----------------------------------------------------------------------------
(* What a message offers *)

\* What is shown fits what was ever true of the account.  Once neither Suspend
\* nor Delete is left under the notification the account was deleted or cleared.
Honest(shown, past) ==
  /\ "notice" \in shown =>
       /\ \A b \in Button \ {"delete"} : b \in shown \/ Moot(b) \cap past # {}
       /\ shown \cap Button \subseteq Terminal => {"delete", "false_positive"} \cap past # {}
  /\ "notice" \notin shown => shown \subseteq {"delete"}
  /\ "delete" \in shown => "suspend" \in past

\* Messages and the copies that clicks carry are honest alike, so it does not
\* matter which copy comes back last.  Only a suspended account can be deleted.
Faithful ==
  /\ \A m \in posted : Honest(blocks[m], once[About[m]])
  /\ \A c \in Click : step[c] # "none" =>
       click[c].message \in posted /\ Honest(click[c].shown, once[Target(c)])
  /\ deleted \subseteq suspended
  /\ \A a \in Account : "delete" \in once[a] => "suspend" \in once[a]

\* What happens later does not make a message less honest.
LEMMA HonestStays ==
  ASSUME NEW shown, NEW past, NEW later, past \subseteq later, Honest(shown, past)
  PROVE  Honest(shown, later)
  BY DEF Honest

\* Of a message without its buttons only the notification is left, if it was there.
LEMMA NoButtonsLeft ==
  ASSUME NEW shown \in SUBSET Block
  PROVE  /\ WithoutButtons(shown) \subseteq {"notice"}
         /\ "notice" \notin Button /\ "delete" \in Button
         /\ "notice" \in WithoutButtons(shown) <=> "notice" \in shown
  BY DEF WithoutButtons, Block, Button, Destructive, Terminal

\* The edit after an action, ...
LEMMA HonestAfterAction ==
  ASSUME NEW kind \in Destructive, NEW shown \in SUBSET Block, NEW past, kind \in past,
         "delete" \in past => "suspend" \in past
  PROVE  Honest(BlocksAfter(kind, shown), past)
<1>1. "suspend" \in past
  BY DEF Destructive
<1>2. \A b \in Button \ {"delete"} : Moot(b) \cap past # {}
  BY <1>1 DEF Moot, Button, Destructive, Terminal
<1>3. "delete" \notin Terminal
  BY DEF Terminal
<1>4. CASE kind = "suspend"
  <2>1. BlocksAfter(kind, shown) = WithoutButtons(shown) \cup {"delete"}
    BY <1>4 DEF BlocksAfter
  <2> QED  BY <1>1, <1>2, <1>3, <2>1, NoButtonsLeft DEF Honest
<1>5. CASE kind = "delete"
  <2>1. BlocksAfter(kind, shown) = WithoutButtons(shown)
    BY <1>5 DEF BlocksAfter
  <2> QED  BY <1>1, <1>2, <1>5, <2>1, NoButtonsLeft DEF Honest
<1> QED  BY <1>4, <1>5 DEF Destructive

\* ... the one of an account that has been cleared, ...
LEMMA HonestWhenCleared ==
  ASSUME NEW shown \in SUBSET Block, NEW past, "false_positive" \in past
  PROVE  Honest(WithoutButtons(shown), past)
<1>1. \A b \in Button \ {"delete"} : Moot(b) \cap past # {}
  BY DEF Moot, Button, Destructive, Terminal
<1> QED  BY <1>1, NoButtonsLeft DEF Honest

\* ... and the one after a confirmation.
LEMMA HonestWhenConfirmed ==
  ASSUME NEW shown \in SUBSET Block, NEW past, Honest(shown, past), "confirmed_spam" \in past
  PROVE  Honest(shown \ Terminal, past)
<1>1. \A b \in Terminal : Moot(b) \cap past # {}
  BY DEF Moot, Terminal
<1>2. "notice" \notin Terminal
  BY DEF Terminal
<1>3. "notice" \in shown =>
        \A b \in Button \ {"delete"} : b \in shown \ Terminal \/ Moot(b) \cap past # {}
  BY <1>1 DEF Honest
<1>4. (shown \ Terminal) \cap Button \subseteq Terminal => shown \cap Button \subseteq Terminal
  OBVIOUS
<1> QED  BY <1>2, <1>3, <1>4 DEF Honest

\* What a reply makes of the blocks a click carries.
LEMMA InnerShown ==
  ASSUME Typed, NEW c \in Click, Inner(c)
  PROVE  \/ click'[c].shown = click[c].shown
         \/ /\ step[c] = "record"
            /\ click'[c].shown = BlocksAfter(Kind(c), click[c].shown)
         \/ /\ feedback[Target(c)] = "false_positive"
            /\ click'[c].shown = WithoutButtons(click[c].shown)
         \/ /\ step[c] = "feedback" /\ feedback' = [feedback EXCEPT ![Target(c)] = Kind(c)]
            /\ click'[c].shown = Pruned(Kind(c), click[c].shown)
<1>0. IsRunning(c) /\ click[c] \in Interaction
  BY InnerMoves, InteractionIs DEF Typed, IsRunning, Running
<1>1. ASSUME NEW place, Goto(c, place) PROVE click'[c].shown = click[c].shown
  BY <1>1 DEF Goto
<1>2. ASSUME NEW shown, Reply(c, shown) PROVE click'[c].shown = shown
  BY <1>0, <1>2 DEF Reply, Typed, ClickTypeOK, Interaction
<1>3. Refuse(c) => click'[c].shown = click[c].shown
  BY <1>2 DEF Refuse
<1>4. CASE CheckCleared(c)
  BY <1>1, <1>2, <1>4 DEF CheckCleared
<1>5. CASE CheckSuspended(c) \/ CheckSuspendedFails(c) \/ Act(c)
  <2>1. Goto(c, "record") \/ Refuse(c) \/ Goto(c, "act")
    BY <1>5 DEF CheckSuspended, AfterCheck, CheckSuspendedFails, Act
  <2> QED  BY <1>1, <1>3, <2>1
<1>6. CASE Record(c) \/ RecordFails(c)
  BY <1>2, <1>6 DEF Record, RecordFails, At
<1>7. CASE RecordVerdict(c)
  BY <1>2, <1>7 DEF RecordVerdict, RecordFeedback, At
<1>8. CASE CheckClearedFails(c) \/ ActFails(c) \/ VerdictRefused(c) \/ RecordVerdictFails(c)
  BY <1>3, <1>8 DEF CheckClearedFails, ActFails, VerdictRefused, RecordVerdictFails
<1> QED  BY <1>4, <1>5, <1>6, <1>7, <1>8 DEF Inner

\* Mastodon does not delete an account that is not suspended, nor restore one it
\* has deleted.
LEMMA DeletedStays ==
  ASSUME Typed, deleted \subseteq suspended, Next
  PROVE  deleted' \subseteq suspended'
<1>1. ASSUME NEW c \in Click, Inner(c) PROVE deleted' \subseteq suspended'
  BY <1>1 DEF Inner, CheckCleared, CheckClearedFails, CheckSuspended, CheckSuspendedFails, Act,
     ActFails, Effect, Abandon, Record, RecordFails, RecordVerdict, VerdictRefused,
     RecordVerdictFails, worldVars, mastodonVars
<1>2. ASSUME NEW c \in Click, Outer(c) PROVE deleted' \subseteq suspended'
  BY <1>2 DEF Outer, Press, Take, Ignore, Update, UpdateFails, Panic, worldVars, mastodonVars
<1>3. CASE ProcessMoves
  BY <1>3 DEF ProcessMoves, Terminate, Drained, Crash, Start, worldVars, mastodonVars
<1>4. CASE WorldMoves
  BY <1>4 DEF WorldMoves, Expire, Elsewhere, Effect, JobIsDone, Claim, Release, Post, Lands, Accepts,
     mastodonVars
<1> QED  BY <1>1, <1>2, <1>3, <1>4, StepIs

\* A message that was posted stays, and its blocks are what they were, what a
\* click brought back, or those of a new message.
LEMMA ButtonsMove ==
  ASSUME Typed, Next
  PROVE  \/ UNCHANGED slackVars
         \/ \E c \in Click : step[c] # "none" /\ posted' = posted /\ ReplaceOriginal(c)
         \/ \E m \in Message : /\ posted' = posted \cup {m}
                               /\ blocks' = [blocks EXCEPT ![m] = Block \ {"delete"}]
<1>1. ASSUME NEW c \in Click, Inner(c) PROVE UNCHANGED slackVars
  BY <1>1 DEF Inner, CheckCleared, CheckClearedFails, CheckSuspended, CheckSuspendedFails, Act,
     ActFails, Record, RecordFails, RecordVerdict, VerdictRefused, RecordVerdictFails, worldVars
<1>2. ASSUME NEW c \in Click, Outer(c)
      PROVE  UNCHANGED slackVars \/ (step[c] # "none" /\ posted' = posted /\ ReplaceOriginal(c))
  BY <1>2 DEF Outer, Press, Take, Ignore, Update, UpdateFails, Panic, At, worldVars, slackVars
<1>3. CASE ProcessMoves
  BY <1>3 DEF ProcessMoves, Terminate, Drained, Crash, Start, worldVars
<1>4. CASE WorldMoves /\ ~\E m \in Message, t \in Task : Post(m, t)
  BY <1>4 DEF WorldMoves, Expire, Elsewhere, JobIsDone, Claim, Release, Lands
<1>5. ASSUME NEW m \in Message, NEW t \in Task, Post(m, t)
      PROVE  /\ posted' = posted \cup {m}
             /\ blocks' = [blocks EXCEPT ![m] = Block \ {"delete"}]
  BY <1>5 DEF Post
<1> QED  BY <1>1, <1>2, <1>3, <1>4, <1>5, StepIs

\* What is remembered of a deletion includes the suspension before it.
LEMMA DeletionRemembers ==
  ASSUME Typed, Faithful, Next, once \in [Account -> SUBSET Button], NEW a \in Account,
         "delete" \in once'[a]
  PROVE  "suspend" \in once'[a]
<1>1. once'[a] = once[a] \cup Now(a)'
  BY DEF Next, Remember
<1>2. CASE "delete" \in once[a]
  BY <1>1, <1>2 DEF Faithful
<1>3. CASE "delete" \in Now(a)'
  <2>1. a \in deleted'
    BY <1>3 DEF Now, Terminal, Destructive
  <2>2. a \in suspended'
    BY <2>1, DeletedStays DEF Faithful
  <2>3. "suspend" \in Now(a)'
    BY <2>2 DEF Now, Destructive
  <2> QED  BY <1>1, <2>3
<1> QED  BY <1>1, <1>2, <1>3

\* The copy a task carries stays honest, edited or not.
LEMMA InnerHonest ==
  ASSUME Typed, Witnessed, Faithful, Next, once \in [Account -> SUBSET Button],
         NEW c \in Click, Inner(c)
  PROVE  /\ step[c] # "none"
         /\ click'[c].message = click[c].message
         /\ Honest(click'[c].shown, once'[Target(c)])
<1>1. IsRunning(c) /\ Moves(c) /\ step[c] # "none"
  BY InnerMoves DEF IsRunning, Running
<1>2. /\ click[c] \in Interaction /\ Target(c) \in Account
      /\ click[c].shown \in SUBSET Block
  BY <1>1, InteractionIs DEF Typed, Interaction
<1>3. click'[c].message = click[c].message
  BY <1>1, MoveKeeps DEF Typed
<1> PICK a \in Account : a = Target(c)
  BY <1>2
<1> DEFINE past == once'[a]
<1> SUFFICES Honest(click'[c].shown, past)
  BY <1>1, <1>3
<1>4. /\ once[a] \subseteq past /\ Now(a)' \subseteq past /\ Now(a) \subseteq past
      /\ Honest(click[c].shown, past)
  <2>1. once[a] \subseteq past /\ Now(a)' \subseteq past
    BY <1>2, MemoryGrows DEF Next
  <2>2. Now(a) \subseteq once[a] /\ Honest(click[c].shown, once[a])
    BY <1>1, <1>2 DEF Witnessed, Faithful
  <2> QED  BY <2>1, <2>2, HonestStays
<1>5. "delete" \in past => "suspend" \in past
  BY <1>2, DeletionRemembers
<1>6. CASE click'[c].shown = click[c].shown
  BY <1>4, <1>6
<1>7. CASE step[c] = "record" /\ click'[c].shown = BlocksAfter(Kind(c), click[c].shown)
  <2>1. Kind(c) \in Destructive /\ Kind(c) \in past
    BY <1>4, <1>7 DEF Typed, KindFits, Kind, Witnessed
  <2>2. Honest(BlocksAfter(Kind(c), click[c].shown), past)
    BY <1>2, <1>5, <2>1, HonestAfterAction
  <2> QED  BY <1>7, <2>2
<1>8. CASE feedback[a] = "false_positive" /\ click'[c].shown = WithoutButtons(click[c].shown)
  <2>1. "false_positive" \in Now(a)
    BY <1>8 DEF Now, Terminal
  <2> QED  BY <1>2, <1>4, <1>8, <2>1, HonestWhenCleared
<1>9. CASE /\ step[c] = "feedback" /\ feedback' = [feedback EXCEPT ![a] = Kind(c)]
           /\ click'[c].shown = Pruned(Kind(c), click[c].shown)
  <2>1. Kind(c) \in Terminal
    BY <1>9 DEF Typed, KindFits, Kind
  <2>2. feedback'[a] = Kind(c)
    BY <1>2, <1>9 DEF Typed, WorldTypeOK, StoreTypeOK
  <2>3. Kind(c) \in past
    BY <1>4, <2>1, <2>2 DEF Now
  <2>4. CASE Kind(c) = "false_positive"
    BY <1>2, <1>9, <2>3, <2>4, HonestWhenCleared DEF Pruned
  <2>5. CASE Kind(c) = "confirmed_spam"
    <3>1. Honest(click[c].shown \ Terminal, past)
      BY <1>2, <1>4, <2>3, <2>5, HonestWhenConfirmed
    <3> QED  BY <1>9, <2>5, <3>1 DEF Pruned
  <2> QED  BY <2>1, <2>4, <2>5 DEF Terminal
<1> QED  BY <1>1, <1>3, <1>6, <1>7, <1>8, <1>9, InnerShown

\* Every other step leaves a click as it is, forgets it, or gives it a copy of the
\* message, if not an empty one.
LEMMA ClicksMove ==
  ASSUME Typed, Next, NEW c \in Click, ~Inner(c), step'[c] # "none"
  PROVE  \/ step[c] # "none" /\ click'[c] = click[c]
         \/ /\ click'[c].message \in posted
            /\ click'[c].shown \in {blocks[click'[c].message], {}}
<1>1. ASSUME NEW d \in Click, Inner(d)
      PROVE  step[c] # "none" /\ click'[c] = click[c]
  BY <1>1, InnerMoves, MoveKeeps DEF Typed
<1>2. ASSUME NEW d \in Click, Outer(d), c # d
      PROVE  step[c] # "none" /\ click'[c] = click[c]
  BY <1>2 DEF Outer, Press, Take, Ignore, Update, UpdateFails, Panic, End, Forget, Typed,
              ClickTypeOK
<1>3. CASE Outer(c)
  <2>1. ASSUME NEW m \in Message, NEW button \in Button, Press(c, m, button)
        PROVE  /\ click'[c].message \in posted
               /\ click'[c].shown \in {blocks[click'[c].message], {}}
    <3>1. /\ m \in posted
          /\ \E copy \in {blocks[m], {}} :
               click'[c] = [kind |-> button, message |-> m, shown |-> copy]
      BY <2>1 DEF Press, Copies, Typed, ClickTypeOK
    <3> QED  BY <3>1
  <2>2. CASE Take(c)
    BY <2>2 DEF Take, At
  <2>3. ~(Ignore(c) \/ Update(c) \/ UpdateFails(c) \/ Panic(c))
    BY DEF Ignore, Update, UpdateFails, Panic, End, Forget, Typed, ClickTypeOK
  <2> QED  BY <1>3, <2>1, <2>2, <2>3 DEF Outer
<1>4. CASE ProcessMoves
  BY <1>4 DEF ProcessMoves, Terminate, Drained, Crash, Start, Exit, clickVars
<1>5. CASE WorldMoves
  BY <1>5, WorldType DEF notServer, clickVars
<1> QED  BY <1>1, <1>2, <1>3, <1>4, <1>5, StepIs

\* Every step keeps messages and copies honest.
LEMMA NextFaithful ==
  ASSUME Typed, Witnessed, Faithful, Next, once \in [Account -> SUBSET Button]
  PROVE  Faithful'
<1>1. \A a \in Account : once[a] \subseteq once'[a]
  BY MemoryGrows DEF Next
<1>2. \A m \in Message : About[m] \in Account
  BY AboutAssumption
<1>3. posted \subseteq Message /\ posted \subseteq posted'
  BY ButtonsMove DEF Typed, WorldTypeOK, slackVars
<1>4. \A m \in posted : Honest(blocks[m], once'[About[m]])
  BY <1>1, <1>2, <1>3, HonestStays DEF Faithful
<1>5. ASSUME NEW c \in Click, step[c] # "none"
      PROVE  /\ click[c].message \in posted
             /\ Honest(click[c].shown, once'[Target(c)])
  BY <1>1, <1>5, InteractionIs, HonestStays DEF Faithful, Typed
<1>6. \A m \in posted' : Honest(blocks'[m], once'[About[m]])
  <2>1. blocks \in [Message -> SUBSET Block]
    BY DEF Typed, WorldTypeOK
  <2>2. CASE UNCHANGED slackVars
    BY <1>4, <2>2 DEF slackVars
  <2>3. ASSUME NEW c \in Click, step[c] # "none", posted' = posted, ReplaceOriginal(c)
        PROVE  \A m \in posted' : Honest(blocks'[m], once'[About[m]])
    BY <1>3, <1>4, <1>5, <2>1, <2>3 DEF ReplaceOriginal, Target
  <2>4. ASSUME NEW m \in Message, posted' = posted \cup {m},
               blocks' = [blocks EXCEPT ![m] = Block \ {"delete"}]
        PROVE  \A n \in posted' : Honest(blocks'[n], once'[About[n]])
    <3>1. \A past : Honest(Block \ {"delete"}, past)
      BY DEF Honest, Block, Button, Destructive, Terminal
    <3> QED  BY <1>3, <1>4, <2>1, <2>4, <3>1
  <2> QED  BY <2>2, <2>3, <2>4, ButtonsMove
<1>7. ASSUME NEW c \in Click, step'[c] # "none"
      PROVE  click'[c].message \in posted' /\ Honest(click'[c].shown, once'[Target(c)'])
  <2>1. CASE Inner(c)
    BY <1>3, <1>5, <2>1, InnerHonest DEF Target
  <2>2. CASE ~Inner(c)
    <3>1. CASE step[c] # "none" /\ click'[c] = click[c]
      BY <1>3, <1>5, <3>1 DEF Target
    <3>2. CASE click'[c].message \in posted /\ click'[c].shown = blocks[click'[c].message]
      BY <1>3, <1>4, <3>2 DEF Target
    <3>3. CASE click'[c].message \in posted /\ click'[c].shown = {}
      BY <1>3, <3>3 DEF Target, Honest
    <3> QED  BY <1>7, <2>2, <3>1, <3>2, <3>3, ClicksMove
  <2> QED  BY <2>1, <2>2
<1>8. deleted' \subseteq suspended'
  BY DeletedStays DEF Faithful
<1>9. \A a \in Account : "delete" \in once'[a] => "suspend" \in once'[a]
  BY DeletionRemembers
<1> QED  BY <1>6, <1>7, <1>8, <1>9 DEF Faithful

\* Under a notification a button is gone only if what it is for, or what makes it
\* moot, has happened; a message that a copy without blocks has replaced offers
\* Delete at most; and Delete is there only if the account has been suspended:
\* whatever copies of a message come back late, twice or never (extract_interaction
\* and post_to_slack, which sends back what a click came with).
THEOREM FailedActionKeepsButtonCorrect == Spec => []FailedActionKeepsButton
<1>1. Init => Faithful
  BY DEF Init, Faithful
<1>2. /\ Faithful /\ Witnessed /\ Typed /\ once \in [Account -> SUBSET Button] /\ [Next]_vars
      => Faithful'
  <2>1. ASSUME Faithful, UNCHANGED vars PROVE Faithful'
    BY <2>1 DEF vars, worldVars, slackVars, mastodonVars, clickVars, Faithful, Target
  <2> QED  BY <2>1, NextFaithful
<1>3. Faithful => FailedActionKeepsButton
  <2> SUFFICES ASSUME Faithful, NEW m \in posted
               PROVE  /\ Honest(blocks[m], once[About[m]])
                      /\ blocks[m] = {"notice"} => blocks[m] \cap Button \subseteq Terminal
    BY DEF FailedActionKeepsButton, Honest
  <2>1. {"notice"} \cap Button = {}
    BY DEF Button, Destructive, Terminal
  <2> QED  BY <2>1 DEF Faithful
<1> QED  BY <1>1, <1>2, <1>3, TypedAlways, WitnessedAlways, PTL DEF Spec
=============================================================================
