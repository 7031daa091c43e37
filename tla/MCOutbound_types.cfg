\* Every step of the outbound path under every failure: the state keeps its
\* shape and the path implements the Submission promise.
CONSTANTS
    m1 = m1
    m2 = m2
    Msgs <- MCMsgs
    Faults <- AllFaults
SPECIFICATION Spec
INVARIANTS
    TypeOK
PROPERTIES
    RefinesSubmission
