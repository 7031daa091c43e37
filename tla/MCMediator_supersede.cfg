\* A user redownload racing an operator re-push of the same transaction.
CONSTANTS
    t1 = t1
    Tx <- MCTx
    MaxUUID = 3
    MaxRestarts = 0
    Faults <- NoFaults
SPECIFICATION Spec
PROPERTIES
    ObjectsKeepRecords
