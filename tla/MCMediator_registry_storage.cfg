\* Registry against shown objects when storage.UpdateReceived can fail
\* after a predecessor was replaced.
CONSTANTS
    t1 = t1
    Tx <- MCTx
    MaxUUID = 3
    MaxRestarts = 0
    Faults <- StorageFaults
SPECIFICATION Spec
INVARIANTS
    RegistryCoversShown
