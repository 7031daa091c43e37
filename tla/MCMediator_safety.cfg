\* Inbound pipeline, user calls and one restart with every infrastructure
\* fault enabled.
CONSTANTS
    t1 = t1
    Tx <- MCTx
    MaxUUID = 3
    MaxRestarts = 1
    Faults <- AllFaults
SPECIFICATION Spec
INVARIANTS
    TypeOK
    NoAckWithoutAnnounce
PROPERTIES
    ReconciliationDedups
