\* An encoding failure of the M-Send.req.
CONSTANTS
    m1 = m1
    m2 = m2
    Msgs <- MCMsgs
    Faults <- EncodeFaults
SPECIFICATION Spec
INVARIANTS
    ScratchFilesUnlinked
