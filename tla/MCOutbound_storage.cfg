\* A CreateSendFile, Sync or Close failure.
CONSTANTS
    m1 = m1
    m2 = m2
    Msgs <- MCMsgs
    Faults <- StorageFaults
SPECIFICATION Spec
PROPERTIES
    OutgoingSettles
