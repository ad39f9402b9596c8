---------------------------- MODULE MCAccountJobs ---------------------------
(* One account, and either one task on it (one run at a time) or two that    *)
(* belong to overlapping runs.                                               *)
EXTENDS AccountJobs
CONSTANT a1
OneAccount == [t \in Task |-> a1]
=============================================================================
