------------------------------- MODULE Outbox -------------------------------
(***************************************************************************)
(* What the checker promises about telling moderators of an account: an    *)
(* outbox with one entry per account.  An account whose check failed or    *)
(* whose delivery is uncertain is owed; it stays owed until it is settled  *)
(* (its job reached an outcome) or ruled on by a moderator.  A message is  *)
(* posted only for an account that is owed, so every message was on the    *)
(* durable queue before it went out, and none follows a ruling.  Only an   *)
(* account that no longer exists is let off without either.                *)
(***************************************************************************)
EXTENDS Naturals

CONSTANTS Account, PostCap

VARIABLES
  phase,        \* the account's entry
  gone,         \* accounts that no longer exist
  posts         \* messages posted about it, up to PostCap

Phase == {"open", "owed", "settled", "ruled"}

Init ==
  /\ phase = [a \in Account |-> "open"]
  /\ gone = {}
  /\ posts = [a \in Account |-> 0]

Moves ==
  { <<"open", "owed">>, <<"open", "settled">>, <<"owed", "settled">>,
    <<"settled", "open">>,      \* forgotten, after the retention period
    <<"open", "ruled">>, <<"owed", "ruled">>, <<"settled", "ruled">> }

Allowed(a, next) ==
  \/ <<phase[a], next>> \in Moves
  \/ a \in gone /\ phase[a] = "owed" /\ next = "open"

Move(a) ==
  /\ \E next \in Phase : Allowed(a, next) /\ phase' = [phase EXCEPT ![a] = next]
  /\ UNCHANGED <<gone, posts>>

Post(a) ==
  /\ phase[a] = "owed"
  /\ posts[a] < PostCap
  /\ posts' = [posts EXCEPT ![a] = @ + 1]
  /\ UNCHANGED <<phase, gone>>

Go(a) == gone' = gone \cup {a} /\ UNCHANGED <<phase, posts>>

Next == \E a \in Account : Move(a) \/ Post(a) \/ Go(a)
Spec == Init /\ [][Next]_<<phase, gone, posts>>
=============================================================================
