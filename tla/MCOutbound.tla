----------------------------- MODULE MCOutbound -----------------------------
(* Model-checking instance of Outbound: two outgoing messages, so that one *)
(* can wait for contextLock while the other or an inbound download holds  *)
(* it.                                                                     *)
EXTENDS Outbound

CONSTANTS m1, m2

MCMsgs == {m1, m2}

\* failures the code reports to the client
ReportedFaults == {"attach", "bus", "encode", "radio", "decode"}
\* failures of the client-facing and network side that leave no file behind
NetworkFaults == {"attach", "bus", "radio", "decode"}
AllFaults == {"attach", "bus", "storage", "encode", "radio", "decode"}
StorageFaults == {"storage"}
EncodeFaults == {"encode"}
=============================================================================
