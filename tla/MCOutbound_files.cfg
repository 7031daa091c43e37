\* Attachment, bus, upload and decode failures: the failures the code
\* reports or that end before a send file exists. Two messages compete for
\* contextLock with an inbound download.
CONSTANTS
    m1 = m1
    m2 = m2
    Msgs <- MCMsgs
    Faults <- NetworkFaults
SPECIFICATION Spec
PROPERTIES
    OutgoingSettles
