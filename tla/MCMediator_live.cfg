\* Fault-free bus, storage and acknowledgement; download, decode, user calls,
\* re-pushes, redownloads, expiry and one restart remain. Checks that no
\* stored notification goes unseen and that the registry covers every shown
\* object of an unacknowledged transaction.
CONSTANTS
    t1 = t1
    Tx <- MCTx
    MaxUUID = 3
    MaxRestarts = 1
    Faults <- NoFaults
SPECIFICATION Spec
INVARIANTS
    RegistryCoversShown
PROPERTIES
    EveryNotificationShown
