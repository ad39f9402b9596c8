------------------------------- MODULE Services -------------------------------
(***************************************************************************)
(* The parts around the check that share no state with each other: the     *)
(* delivery of one message, the writer of moderation notes, the retention  *)
(* migration, the retry queue and the judging of one account.  Each runs   *)
(* by itself, the others at rest: every property below is about one part,  *)
(* so the states of their product have nothing to add.                     *)
(***************************************************************************)
EXTENDS HttpRetry, NoteWriter, RetentionMigration, RetryQueue, Judging

VARIABLE part    \* the part that runs

serviceVars ==
  <<part, httpVars, noteVars, retentionVars, queueVars, judgeVars>>

\* What models report here: below, inside and above 0.0..1.0, in percent, and NaN.
AnyReport == {-10, 0, 30, 50, 70, 100, 120, 5000, 15000, NaN}

Init ==
  /\ part \in {"http", "note", "retention", "queue", "judging"}
  /\ HttpInit /\ NoteInit /\ QueueInit
  /\ RetentionInit
  /\ part # "retention" => Jobs = {} /\ Actions = {}
  /\ JudgeInit
  /\ part # "judging" => /\ config = CHOOSE c \in Config : TRUE
                         /\ subject = CHOOSE s \in Subject : TRUE

Next ==
  /\ UNCHANGED part
  /\ \/ /\ part = "http" /\ HttpNext
        /\ UNCHANGED <<noteVars, retentionVars, queueVars, judgeVars>>
     \/ /\ part = "note" /\ NoteNext
        /\ UNCHANGED <<httpVars, retentionVars, queueVars, judgeVars>>
     \/ /\ part = "retention" /\ RetentionNext
        /\ UNCHANGED <<httpVars, noteVars, queueVars, judgeVars>>
     \/ /\ part = "queue" /\ QueueNext
        /\ UNCHANGED <<httpVars, noteVars, retentionVars, judgeVars>>
     \/ /\ part = "judging" /\ JudgeNext
        /\ UNCHANGED <<httpVars, noteVars, retentionVars, queueVars>>

\* Of a part at rest nothing is enabled that has to happen.
Spec == Init /\ [][Next]_serviceVars /\ NoteFairness /\ QueueFairness

\* The state of every part is what its code can hold.
TypeOK == HttpTypeOK /\ NoteTypeOK /\ RetentionTypeOK /\ QueueTypeOK /\ JudgeTypeOK
=============================================================================
