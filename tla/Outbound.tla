------------------------------ MODULE Outbound ------------------------------
(***************************************************************************)
(* The outbound path of the mediator (cmd/nuntium/mediator.go 502-628)     *)
(* and the parts of the service facade it drives (telepathy/service.go):   *)
(* SendMessage on D-Bus, handleOutgoingMessage with ReplySendMessage,      *)
(* handleMSendReq writing the M-Send.req scratch file, and sendMSendReq    *)
(* with uploadFile under contextLock, the status it reports and the        *)
(* deferred MessageDestroy and file removals. The user may delete the      *)
(* message object at any time; an inbound handler competes for contextLock.*)
(***************************************************************************)
EXTENDS Naturals, FiniteSets

CONSTANTS
    Msgs,       \* outgoing SendMessage calls
    Faults      \* which environment failures may happen

ASSUME Faults \subseteq {"attach", "bus", "storage", "encode", "radio", "decode"}

None == "none"

\* telepathy.SENT, PERMANENT_ERROR, TRANSIENT_ERROR
Final == {"sent", "permanent-error", "transient-error"}

\* the failure f may happen
May(f) == f \in Faults

VARIABLES
    opc,        \* where the goroutines serving each message are
    surface,    \* messageHandlers entry: "none", "live" or "gone"
    status,     \* last status the message object reported
    replied,    \* the SendMessage caller got the object path
    deleted,    \* the user removed the object through Delete
    sendFile,   \* the M-Send.req scratch file exists
    lock        \* contextLock: a message, "inbound" or None

vars == <<opc, surface, status, replied, deleted, sendFile, lock>>

Init ==
    /\ opc = [m \in Msgs |-> "idle"]
    /\ surface = [m \in Msgs |-> "none"]
    /\ status = [m \in Msgs |-> "draft"]
    /\ replied = [m \in Msgs |-> FALSE]
    /\ deleted = [m \in Msgs |-> FALSE]
    /\ sendFile = [m \in Msgs |-> FALSE]
    /\ lock = None

-----------------------------------------------------------------------------
(* Helpers.                                                                *)

\* MessageStatusChanged: only a message whose handler is registered reports
Emit(m, s) ==
    status' = IF surface[m] = "live" THEN [status EXCEPT ![m] = s] ELSE status

\* MessageDestroy: close and forget the handler, if there still is one
DestroyObject(m) ==
    surface' = IF surface[m] = "live" THEN [surface EXCEPT ![m] = "gone"] ELSE surface

\* Variants of the helpers below, each a plausible slip in the code they
\* model; the mutation runs swap them in.
FinishUnmapped(m, s) == Emit(m, "") /\ DestroyObject(m)
FinishDestroyFirst(m, s) == DestroyObject(m) /\ UNCHANGED status

\* the deferred calls of sendMSendReq run last-in first-out: the status is
\* reported, then the object destroyed
Finish(m, s) == Emit(m, s) /\ DestroyObject(m)

\* the deferred os.Remove of the request file (the response file, created
\* and removed within the same step, is not represented)
Unlink(m) == sendFile' = [sendFile EXCEPT ![m] = FALSE]

Done(m) == opc' = [opc EXCEPT ![m] = "done"]

\* ReplySendMessage: the reply carries the object path, then the object is
\* registered in messageHandlers and MessageAdded signalled (its error is
\* ignored)
RegisterObject(m) ==
    /\ replied' = [replied EXCEPT ![m] = TRUE]
    /\ surface' = [surface EXCEPT ![m] = "live"]

\* A variant of EncodeFailed without its return: handleMSendReq would go on
\* to sendMSendReq after reporting the failure.
EncodeFailedNoReturn(m) ==
    /\ Emit(m, "permanent-error")
    /\ opc' = [opc EXCEPT ![m] = "lock"]

\* the encoding failure branch: report permanent-error, return
EncodeFailed(m) ==
    /\ Emit(m, "permanent-error")
    /\ Done(m)

-----------------------------------------------------------------------------
(* watchDBusMethodCalls, SendMessage: the request goes to the mediator     *)
(* loop, which spawns handleOutgoingMessage.                               *)
SendMessage(m) ==
    /\ opc[m] = "idle"
    /\ opc' = [opc EXCEPT ![m] = "build"]
    /\ UNCHANGED <<surface, status, replied, deleted, sendFile, lock>>

(* handleOutgoingMessage: attachments are built (a failure returns without *)
(* any reply); ReplySendMessage sends the reply (a failure returns), then  *)
(* registers the object and signals MessageAdded; the M-Send.req goes to   *)
(* the loop, which spawns handleMSendReq.                                  *)
HandleOutgoing(m) ==
    /\ opc[m] = "build"
    /\ \/ /\ May("attach") \/ May("bus")
          /\ Done(m)
          /\ UNCHANGED <<surface, replied>>
       \/ /\ opc' = [opc EXCEPT ![m] = "encode"]
          /\ RegisterObject(m)
    /\ UNCHANGED <<status, deleted, sendFile, lock>>

(* handleMSendReq: CreateSendFile, encode, Sync, Close, then sendMSendReq  *)
(* in the same goroutine. An encoding failure reports permanent-error;     *)
(* every failure returns.                                                  *)
HandleMSendReq(m) ==
    /\ opc[m] = "encode"
    /\ \/ /\ May("storage")                        \* CreateSendFile failed
          /\ Done(m)
          /\ UNCHANGED <<status, sendFile>>
       \/ /\ May("encode")
          /\ sendFile' = [sendFile EXCEPT ![m] = TRUE]
          /\ EncodeFailed(m)
       \/ /\ May("storage")                        \* Sync or Close failed
          /\ sendFile' = [sendFile EXCEPT ![m] = TRUE]
          /\ Done(m)
          /\ UNCHANGED status
       \/ /\ sendFile' = [sendFile EXCEPT ![m] = TRUE]
          /\ opc' = [opc EXCEPT ![m] = "lock"]
          /\ UNCHANGED status
    /\ UNCHANGED <<surface, replied, deleted, lock>>

(* uploadFile takes contextLock.                                           *)
LockContext(m) ==
    /\ opc[m] = "lock"
    /\ lock = None
    /\ lock' = m
    /\ opc' = [opc EXCEPT ![m] = "upload"]
    /\ UNCHANGED <<surface, status, replied, deleted, sendFile>>

(* The rest of uploadFile (activate the context, proxy, message center,    *)
(* mms.Upload, deactivate, unlock) and of sendMSendReq: an upload failure  *)
(* reports transient-error; otherwise the M-Send.conf is decoded (failure: *)
(* transient-error) and its status reported. The deferred calls destroy    *)
(* the object and remove both files.                                       *)
Upload(m) ==
    /\ opc[m] = "upload"
    /\ lock' = None
    /\ \/ /\ May("radio")
          /\ Finish(m, "transient-error")
       \/ /\ May("decode")
          /\ Finish(m, "transient-error")
       \/ \E s \in Final : Finish(m, s)
    /\ Unlink(m)
    /\ Done(m)
    /\ UNCHANGED <<replied, deleted>>

-----------------------------------------------------------------------------
(* The Delete watcher: an outgoing message has no incoming state to refuse *)
(* on, so MessageRemoved closes and forgets its handler.                   *)
UserDelete(m) ==
    /\ surface[m] = "live"
    /\ surface' = [surface EXCEPT ![m] = "gone"]
    /\ deleted' = [deleted EXCEPT ![m] = TRUE]
    /\ UNCHANGED <<opc, status, replied, sendFile, lock>>

(* An inbound handler (handleMNotificationInd) holds contextLock for a     *)
(* download and releases it.                                               *)
InboundLock ==
    /\ lock = None
    /\ lock' = "inbound"
    /\ UNCHANGED <<opc, surface, status, replied, deleted, sendFile>>

InboundUnlock ==
    /\ lock = "inbound"
    /\ lock' = None
    /\ UNCHANGED <<opc, surface, status, replied, deleted, sendFile>>

\* every message was handled and nothing holds the lock
Quiescent ==
    /\ \A m \in Msgs : opc[m] = "done"
    /\ lock = None
    /\ UNCHANGED vars

Next ==
    \/ \E m \in Msgs :
          \/ SendMessage(m) \/ HandleOutgoing(m) \/ HandleMSendReq(m)
          \/ LockContext(m) \/ Upload(m) \/ UserDelete(m)
    \/ InboundLock \/ InboundUnlock \/ Quiescent

(* Goroutine steps are weakly fair; a goroutine waiting for contextLock    *)
(* gets it (sync.Mutex starvation mode); an inbound holder releases it.    *)
(* Calls and deletes by the user, and inbound downloads, are not fair.     *)
Fairness ==
    /\ \A m \in Msgs : WF_vars(HandleOutgoing(m) \/ HandleMSendReq(m) \/ Upload(m))
    /\ \A m \in Msgs : SF_vars(LockContext(m))
    /\ WF_vars(InboundUnlock)

Spec == Init /\ [][Next]_vars /\ Fairness

-----------------------------------------------------------------------------
(* Properties.                                                             *)

TypeOK ==
    /\ opc \in [Msgs -> {"idle", "build", "encode", "lock", "upload", "done"}]
    /\ surface \in [Msgs -> {"none", "live", "gone"}]
    /\ status \in [Msgs -> Final \cup {"draft"}]
    /\ replied \in [Msgs -> BOOLEAN] /\ deleted \in [Msgs -> BOOLEAN]
    /\ sendFile \in [Msgs -> BOOLEAN]
    /\ lock \in Msgs \cup {None, "inbound"}

(* Scratch files are owned by the task that created them and unlinked on  *)
(* all exit paths (spec section 5): once the goroutines serving a message *)
(* have returned, its M-Send.req file is no longer on disk, whichever     *)
(* step of handleMSendReq or sendMSendReq failed.                          *)
ScratchFilesUnlinked ==
    \A m \in Msgs : opc[m] = "done" => ~sendFile[m]

(* A client that was given a message path learns how the submission ended *)
(* (sent, permanent-error or transient-error) unless it deleted the object *)
(* itself: no message object stays "draft" forever, whatever failed and   *)
(* however inbound downloads hold contextLock.                             *)
OutgoingSettles ==
    \A m \in Msgs : replied[m] ~> (status[m] \in Final \/ deleted[m])

(* Outbound implements the facade's promise to a submitting client (module *)
(* Submission): a client without a path never sees an object, an accepted *)
(* object reports at most one final status and only while it is           *)
(* registered, whatever fails along handleMSendReq and sendMSendReq.       *)
Phase(m) ==
    IF replied[m] THEN IF status[m] \in Final THEN "settled" ELSE "pending"
    ELSE IF opc[m] = "done" THEN "dropped" ELSE "none"

Sub == INSTANCE Submission WITH
    phase <- [m \in Msgs |-> Phase(m)],
    result <- status,
    live <- [m \in Msgs |-> surface[m] = "live"]

RefinesSubmission == Sub!Safety
=============================================================================
