\* A second push of a transaction whose first notification is in flight.
CONSTANTS
    t1 = t1
    Tx <- MCTx
    MaxUUID = 3
    MaxRestarts = 0
    Faults <- NoFaults
SPECIFICATION Spec
INVARIANTS
    OneArtifactPerTx
