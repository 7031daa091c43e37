----------------------------- MODULE MCMediator -----------------------------
(* Model-checking instance of Mediator: one transaction id, three uuids    *)
(* (enough for a push, a re-push and a redownload or a third push), one    *)
(* restart.                                                                *)
EXTENDS Mediator

CONSTANTS t1

MCTx == {t1}

\* all infrastructure faults, or none
AllFaults == {"bus", "storage", "ack"}
NoFaults  == {}

\* only storage writes may fail
StorageFaults == {"storage"}
=============================================================================
