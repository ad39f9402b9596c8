---------------------------- MODULE MCSlackServer ---------------------------
(* Every message is about the one account.                                   *)
EXTENDS SlackServer
CONSTANT a1
OneAccount == [m \in Message |-> a1]
=============================================================================
