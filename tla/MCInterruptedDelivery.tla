------------------------ MODULE MCInterruptedDelivery -----------------------
(* One account, one run at a time.                                           *)
EXTENDS InterruptedDelivery
CONSTANT a1
OneAccount == [t \in Task |-> a1]
=============================================================================
