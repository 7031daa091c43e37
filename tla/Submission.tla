----------------------------- MODULE Submission -----------------------------
(***************************************************************************)
(* What the service facade promises a client that submits an outgoing MMS *)
(* (spec 4.D ReplySendMessage, MessageStatusChanged, MessageDestroy, and  *)
(* the outbound data flow of section 2), with no files, locks or radio:   *)
(* a submission is either refused before the client gets an object path,  *)
(* or accepted with a live object; the object reports at most one final  *)
(* status, only while it is live, and it is closed by the daemon or by    *)
(* the client.                                                             *)
(***************************************************************************)
CONSTANTS
    Msgs,       \* submissions
    Final       \* the final statuses: sent, permanent-error, transient-error

VARIABLES
    phase,      \* "none", "dropped" (no path given), "pending" or "settled"
    result,     \* the status the object reported: "draft" or one of Final
    live        \* the object is registered on the bus

vars == <<phase, result, live>>

Init ==
    /\ phase = [m \in Msgs |-> "none"]
    /\ result = [m \in Msgs |-> "draft"]
    /\ live = [m \in Msgs |-> FALSE]

\* the client gets the object path of a new, live object
Accept(m) ==
    /\ phase[m] = "none"
    /\ phase' = [phase EXCEPT ![m] = "pending"]
    /\ live' = [live EXCEPT ![m] = TRUE]
    /\ UNCHANGED result

\* the submission fails before the client got a path
Refuse(m) ==
    /\ phase[m] = "none"
    /\ phase' = [phase EXCEPT ![m] = "dropped"]
    /\ UNCHANGED <<result, live>>

\* the live object reports its final status; the daemon may close it in
\* the same step
Settle(m, s) ==
    /\ phase[m] = "pending" /\ live[m]
    /\ phase' = [phase EXCEPT ![m] = "settled"]
    /\ result' = [result EXCEPT ![m] = s]
    /\ live' \in {live, [live EXCEPT ![m] = FALSE]}

\* the daemon destroys the object, or the client deletes it
Close(m) ==
    /\ live[m]
    /\ live' = [live EXCEPT ![m] = FALSE]
    /\ UNCHANGED <<phase, result>>

Next ==
    \E m \in Msgs :
        Accept(m) \/ Refuse(m) \/ Close(m) \/ \E s \in Final : Settle(m, s)

\* what may happen; no promise that anything does
Safety == Init /\ [][Next]_vars
=============================================================================
