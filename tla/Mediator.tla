------------------------------ MODULE Mediator ------------------------------
(***************************************************************************)
(* The inbound MMS path of nuntium for one modem and one SIM identity:     *)
(* push handling, the inbound handler goroutines serialised by             *)
(* contextLock, handleMessageDownloadError with its duplicate suppression, *)
(* the per-message D-Bus objects of telepathy.MMSService with their        *)
(* Delete and Redownload watchers, process restart, and the startup        *)
(* reconciliation initializeMessages.                                      *)
(*                                                                         *)
(* Data is abstracted away: a notification is its uuid, its transaction    *)
(* id and its RedownloadOfUUID; the downloaded PDU is only "present".      *)
(* Every adapter call (context activation, proxy, HTTP, decode, D-Bus      *)
(* signal, storage write) is a nondeterministic success or failure; the    *)
(* failures of the bus, of storage writes and of the acknowledgement       *)
(* upload are enabled by the constant Faults; storage.Destroy, a file      *)
(* removal, does not fail.                                                 *)
(***************************************************************************)
EXTENDS Naturals, FiniteSets, Functions, TLC

CONSTANTS
    Tx,           \* operator Transaction-Ids (model values)
    MaxUUID,      \* bound on the uuids generated (pushes and redownloads)
    MaxRestarts,  \* bound on process restarts
    Faults        \* which infrastructure failures may happen

ASSUME MaxUUID \in Nat /\ MaxRestarts \in Nat
ASSUME Faults \subseteq {"bus", "storage", "ack"}

UUIDs == 1..MaxUUID
None  == 0

\* storage.NOTIFICATION .. storage.RESPONDED
InStates == {"notification", "downloaded", "received", "responded"}

\* the inbound handler goroutine of a uuid, by the point it has reached
PcVals == {"idle", "wait", "fetch", "forward", "respond", "supersede"}

\* the error kinds handleMNotificationInd passes to handleMessageDownloadError
ErrKinds == {"ActivateContext", "GetProxy", "DownloadContent", "Storage", "Forward"}

\* messageHandlers entries: a message, an error without / with a redownload
\* channel, and an initialization (Rescued) object, which always has one
SurfaceKinds == {"msg", "err", "errRedl", "init"}

\* outcomes of a call that fails only under a fault of the given kind
Outcomes(f) == IF f \in Faults THEN BOOLEAN ELSE {TRUE}

VARIABLES
    store,      \* persisted MMSState per uuid: [state, notified]
    expired,    \* MNotificationInd.Expired() of each transaction
    registry,   \* mediator.unrespondedTransactions, None when absent
    surface,    \* MMSService.messageHandlers, uuid -> kind
    lock,       \* holder of mediator.contextLock, None when free
    pc,         \* inbound handler goroutine of each uuid
    phase,      \* "init" while initializeMessages runs, else "run"
    pending,    \* uuids of the GetStoredUUIDs snapshot not yet visited
    handled,    \* handledTransactions of the running initializeMessages
    nextUUID,   \* the next uuid mms.GenUUID hands out
    msgTx,      \* TransactionId of each uuid's MNotificationInd
    redlOf,     \* RedownloadOfUUID of each uuid's MNotificationInd
    restarts,   \* restarts so far
    ui,         \* messages telepathy shows: MessageAdded minus removals
    announced,  \* uuids a message was announced for (IncomingMessageAdded)
    acked       \* uuids whose M-NotifyResp.ind reached the MMSC

vars == <<store, expired, registry, surface, lock, pc, phase, pending,
          handled, nextUUID, msgTx, redlOf, restarts, ui, announced, acked>>

-----------------------------------------------------------------------------
(* Storage (package storage, not part of this repository).                 *)

Rec(s, n) == [state |-> s, notified |-> n]

\* storage.Destroy of a set of uuids; destroying a missing uuid is a no-op
Destroy(st, U) == Restrict(st, DOMAIN st \ U)

\* storage.UpdateDownloaded/UpdateReceived/UpdateResponded: from `from` to `to`
CanUpdate(u, from) == u \in DOMAIN store /\ store[u].state = from
\* variant: an update that rewrites the record and drops the notified flag
SetStateFresh(st, u, to) == [st EXCEPT ![u] = [state |-> to]]
SetState(st, u, to) == [st EXCEPT ![u].state = to]

\* downloadError.AllowRedownload: only errors of the download itself
AllowRedownload(e) == e \in {"ActivateContext", "GetProxy", "DownloadContent"}

-----------------------------------------------------------------------------
(* Helpers over the mediator's state.                                      *)

TxOf(u)    == msgTx[u]
Prior(u)   == registry[TxOf(u)]

\* the "not after redownload and not the first notification" condition
\* repeated in handleMessageDownloadError and getAndHandleMRetrieveConf;
\* redl is the RedownloadOfUUID the in-memory notification carries
IsRepush(u, redl) == redl = None /\ Prior(u) # None /\ Prior(u) # u

\* kind of the object IncomingMessageFailAdded registers for error e
FailSurfaceKind(u, e) ==
    IF AllowRedownload(e) /\ ~expired[TxOf(u)] THEN "errRedl" ELSE "err"

(* MMSService.MessageRemoved (service.go 294-316) on messageHandlers      *)
(* `surf`: an unhandled path is an error; otherwise the object is closed  *)
(* and forgotten, storage.Destroy removes the record and the              *)
(* MessageRemoved signal (SingnalMessageRemoved, 318-331) is sent, which   *)
(* may fail. `gone` is the record destroyed, `hidden` the object telepathy *)
(* was told to drop, `ok` whether the call returned no error.              *)
MessageRemoved(surf, p, sendOk) ==
    LET known == p \in DOMAIN surf IN
    [surface |-> Restrict(surf, DOMAIN surf \ {p}),
     gone    |-> IF known THEN {p} ELSE {},
     hidden  |-> IF known /\ sendOk THEN {p} ELSE {},
     ok      |-> known /\ sendOk]

\* the handler returns: contextLock is released by its deferred Unlock
Return(u) == /\ pc' = [pc EXCEPT ![u] = "idle"]
             /\ lock' = None

-----------------------------------------------------------------------------
Init ==
    /\ store = <<>>
    /\ expired = [t \in Tx |-> FALSE]
    /\ registry = [t \in Tx |-> None]
    /\ surface = <<>>
    /\ lock = None
    /\ pc = [u \in UUIDs |-> "idle"]
    /\ phase = "init"
    /\ pending = {}
    /\ handled = {}
    /\ nextUUID = 1
    /\ msgTx = [u \in UUIDs |-> CHOOSE t \in Tx : TRUE]
    /\ redlOf = [u \in UUIDs |-> None]
    /\ restarts = 0
    /\ ui = {}
    /\ announced = {}
    /\ acked = {}

-----------------------------------------------------------------------------
(* handlePushAgentNotification: a decoded M-Notification.ind is stored     *)
(* and handed to the mediator loop, which spawns its handler. The loop     *)
(* reads pushes only while it is not inside initializeMessages.            *)
Push(t) ==
    /\ phase = "run"
    /\ nextUUID <= MaxUUID
    /\ LET u == nextUUID IN
       /\ store' = store @@ (u :> Rec("notification", FALSE))
       /\ msgTx' = [msgTx EXCEPT ![u] = t]
       /\ pc' = [pc EXCEPT ![u] = "wait"]
       /\ nextUUID' = u + 1
    /\ UNCHANGED <<expired, registry, surface, lock, phase, pending, handled,
                   redlOf, restarts, ui, announced, acked>>

(* handleMNotificationInd takes contextLock and registers the transaction: *)
(* a new id, or one whose registered uuid is no longer stored, points at   *)
(* this uuid.                                                              *)
Begin(u) ==
    /\ phase = "run"
    /\ pc[u] = "wait"
    /\ lock = None
    /\ lock' = u
    /\ registry' = IF Prior(u) = None \/ Prior(u) \notin DOMAIN store
                   THEN [registry EXCEPT ![TxOf(u)] = u]
                   ELSE registry
    /\ pc' = [pc EXCEPT ![u] = "fetch"]
    /\ UNCHANGED <<store, expired, surface, phase, pending, handled, nextUUID,
                   msgTx, redlOf, restarts, ui, announced, acked>>

(* handleMessageDownloadError, up to SetTelepathyErrorNotified. `surf` is  *)
(* messageHandlers as the failing step left it, redl the notification's   *)
(* RedownloadOfUUID by then. A re-push whose registered                    *)
(* predecessor was already shown is dropped; otherwise the error object is *)
(* added and the record flagged. The handler continues to the supersede    *)
(* step when the registry points at another uuid.                          *)
ReportError(u, e, surf, redl) ==
    LET p       == Prior(u)
        repush  == IsRepush(u, redl)
        dropped == repush /\ p \in DOMAIN store
                          /\ (store[p].notified \/ store[p].state \in {"received", "responded"})
        kind    == FailSurfaceKind(u, e)
        shown   == (ui \ {redl}) \cup {u}
    IN
    \/ /\ dropped
       /\ store' = Destroy(store, {u})
       /\ surface' = surf /\ UNCHANGED ui
       /\ Return(u)
    \* IncomingMessageFailAdded registers the object, then the signal fails
    \/ /\ ~dropped /\ "bus" \in Faults
       /\ store' = IF repush THEN Destroy(store, {u}) ELSE store
       /\ surface' = (u :> kind) @@ surf /\ UNCHANGED ui
       /\ Return(u)
    \* the error is shown; SetTelepathyErrorNotified fails (a write error,
    \* or no record to update)
    \/ /\ ~dropped /\ ("storage" \in Faults \/ u \notin DOMAIN store)
       /\ store' = IF repush THEN Destroy(store, {u}) ELSE store
       /\ surface' = (u :> kind) @@ surf /\ ui' = shown
       /\ Return(u)
    \/ /\ ~dropped /\ u \in DOMAIN store
       /\ store' = [store EXCEPT ![u].notified = TRUE]
       /\ surface' = (u :> kind) @@ surf /\ ui' = shown
       /\ IF p # None /\ p # u
          THEN pc' = [pc EXCEPT ![u] = "supersede"] /\ UNCHANGED lock
          ELSE Return(u)

(* The last step of handleMessageDownloadError: the superseded object is   *)
(* removed through MessageRemoved (close, storage.Destroy, signal) and, if *)
(* that succeeded, storage.Destroy(mNotificationInd.UUID) is called; the   *)
(* registry then points at this uuid.                                      *)
Supersede(u) ==
    LET p == Prior(u) IN
    /\ pc[u] = "supersede"
    /\ \E sOk \in Outcomes("bus") :
         LET r == MessageRemoved(surface, p, sOk) IN
         /\ surface' = r.surface
         /\ store' = Destroy(store, r.gone \cup (IF r.ok THEN {u} ELSE {}))
         /\ ui' = ui \ r.hidden
    /\ registry' = [registry EXCEPT ![TxOf(u)] = u]
    /\ Return(u)
    /\ UNCHANGED <<expired, phase, pending, handled, nextUUID, msgTx, redlOf,
                   restarts, announced, acked>>

(* Context activation, proxy, download and storage.UpdateDownloaded.       *)
(* OfonoContext.GetProxy returns no error (see ContextSettings), so the    *)
(* GetProxy error kind comes only from the debug path, left out here.      *)
Fetch(u) ==
    /\ pc[u] = "fetch"
    /\ \/ /\ CanUpdate(u, "notification")
          /\ store' = SetState(store, u, "downloaded")
          /\ pc' = [pc EXCEPT ![u] = "forward"]
          /\ UNCHANGED <<surface, ui, lock>>
       \/ /\ "storage" \in Faults
          /\ ReportError(u, "Storage", surface, redlOf[u])
       \/ \E e \in {"ActivateContext", "DownloadContent"} :
             ReportError(u, e, surface, redlOf[u])
    /\ UNCHANGED <<expired, registry, phase, pending, handled, nextUUID, msgTx,
                   redlOf, restarts, announced, acked>>

(* getAndHandleMRetrieveConf and storage.UpdateReceived. A re-push whose   *)
(* predecessor showed an error replaces it: RedownloadOfUUID is set to the *)
(* predecessor (so the message carries it as DeleteEvent) before           *)
(* IncomingMessageAdded, and the predecessor object is removed after it.   *)
Forward(u) ==
    LET p       == Prior(u)
        replace == IsRepush(u, redlOf[u]) /\ p \in DOMAIN store /\ store[p].notified
        redl    == IF replace THEN p ELSE redlOf[u]
        added   == (u :> "msg") @@ surface
    IN
    /\ pc[u] = "forward"
    /\ \/ /\ ReportError(u, "Forward", surface, redlOf[u])   \* decode failed
          /\ UNCHANGED announced
       \* IncomingMessageAdded registered the object, then the signal failed
       \/ /\ "bus" \in Faults
          /\ ReportError(u, "Forward", (u :> "msg") @@ surface, redl)
          /\ UNCHANGED announced
       \* the message is shown, then the predecessor's MessageRemoved
       \/ \E sOk \in Outcomes("bus"), ok \in Outcomes("storage") :
          LET r == IF replace THEN MessageRemoved(added, p, sOk)
                   ELSE [surface |-> added, gone |-> {}, hidden |-> {}]
          IN
          /\ surface' = r.surface
          /\ ui' = (ui \ ({redl} \cup r.hidden)) \cup {u}
          /\ announced' = announced \cup {u}
          /\ IF ok /\ CanUpdate(u, "downloaded")
             THEN /\ store' = SetState(Destroy(store, r.gone), u, "received")
                  /\ pc' = [pc EXCEPT ![u] = "respond"] /\ UNCHANGED lock
             ELSE /\ store' = Destroy(store, r.gone)
                  /\ Return(u)
    /\ UNCHANGED <<expired, registry, phase, pending, handled, nextUUID, msgTx,
                   redlOf, restarts, acked>>

(* handleMNotifyRespInd and sendMNotifyRespInd; on success the transaction *)
(* leaves the registry and the record becomes RESPONDED.                   *)
Respond(u) ==
    /\ pc[u] = "respond"
    /\ \/ /\ "ack" \in Faults
          /\ UNCHANGED <<store, registry, acked>>
       \/ /\ acked' = acked \cup {u}
          /\ registry' = [registry EXCEPT ![TxOf(u)] = None]
          /\ \E ok \in Outcomes("storage") :
                store' = IF ok /\ CanUpdate(u, "received")
                         THEN SetState(store, u, "responded") ELSE store
    /\ Return(u)
    /\ UNCHANGED <<expired, surface, phase, pending, handled, nextUUID, msgTx,
                   redlOf, restarts, ui, announced>>

-----------------------------------------------------------------------------
(* The Delete watcher: refused while the record is stored, not RESPONDED   *)
(* and not expired; otherwise MessageRemoved closes the object, destroys   *)
(* the record and signals MessageRemoved.                                  *)
UserDelete(u) ==
    /\ u \in DOMAIN surface
    /\ ~(u \in DOMAIN store /\ store[u].state # "responded" /\ ~expired[TxOf(u)])
    /\ \E sOk \in Outcomes("bus") :
         LET r == MessageRemoved(surface, u, sOk) IN
         /\ surface' = r.surface
         /\ store' = Destroy(store, r.gone)
         /\ ui' = ui \ r.hidden
    /\ UNCHANGED <<expired, registry, lock, pc, phase, pending, handled, nextUUID,
                   msgTx, redlOf, restarts, announced, acked>>

(* The Redownload watcher: for an object with a redownload channel whose   *)
(* record is still a NOTIFICATION, MessageRemoved, then a copy of the      *)
(* notification under a new uuid with RedownloadOfUUID set is stored and   *)
(* sent to the mediator loop. A failed MessageRemoved is only logged, and  *)
(* the result of storage.Create is not checked.                            *)
UserRedownload(u) ==
    /\ u \in DOMAIN surface /\ surface[u] \in {"errRedl", "init"}
    /\ CanUpdate(u, "notification")
    /\ nextUUID <= MaxUUID
    /\ \E sOk \in Outcomes("bus"), created \in Outcomes("storage") :
       LET v == nextUUID
           r == MessageRemoved(surface, u, sOk)
       IN
       /\ surface' = r.surface
       /\ store' = Destroy(store, r.gone)
                    @@ (IF created THEN v :> Rec("notification", FALSE) ELSE <<>>)
       /\ ui' = ui \ r.hidden
       /\ msgTx' = [msgTx EXCEPT ![v] = TxOf(u)]
       /\ redlOf' = [redlOf EXCEPT ![v] = u]
       /\ pc' = [pc EXCEPT ![v] = "wait"]
       /\ nextUUID' = v + 1
    /\ UNCHANGED <<expired, registry, lock, phase, pending, handled, restarts,
                   announced, acked>>

(* Wall-clock time passes the Expire header of a transaction.              *)
Expire(t) ==
    /\ ~expired[t]
    /\ expired' = [expired EXCEPT ![t] = TRUE]
    /\ UNCHANGED <<store, registry, surface, lock, pc, phase, pending, handled,
                   nextUUID, msgTx, redlOf, restarts, ui, announced, acked>>

(* The process stops at any point and starts again: the mediator, the      *)
(* service objects and every goroutine are new; storage and telepathy's    *)
(* view survive. On IdentityAdded the loop runs initializeMessages over    *)
(* the stored uuids.                                                       *)
Restart ==
    /\ restarts < MaxRestarts
    /\ restarts' = restarts + 1
    /\ registry' = [t \in Tx |-> None]
    /\ surface' = <<>>
    /\ lock' = None
    /\ pc' = [u \in UUIDs |-> "idle"]
    /\ phase' = "init"
    /\ pending' = DOMAIN store
    /\ handled' = {}
    /\ UNCHANGED <<store, expired, nextUUID, msgTx, redlOf, ui, announced, acked>>

-----------------------------------------------------------------------------
(* initializeMessages, one stored uuid per step.                           *)

\* InitializationMessageAdded: refused when an object is already registered;
\* the object is registered before the MessageAdded signal, which may fail
Rescue(u, surf, shown) ==
    IF u \in DOMAIN surf
    THEN surface' = surf /\ ui' = shown
    ELSE /\ surface' = (u :> "init") @@ surf
         /\ \E sent \in Outcomes("bus") : ui' = IF sent THEN shown \cup {u} ELSE shown

\* Variants of the helpers below, each a plausible slip in the code they
\* model; the mutation runs swap them in to show the properties notice.
UnrespondedSkipped(u)  == registry
RefeedDropped(u)       == pc' = pc
MarkHandledSkipped(u)  == handled' = handled
ReachesReceivedUnchecked(s0, added, recvOk) == s0 \in {"downloaded", "received"}

\* the stored uuid becomes the transaction's unresponded one
Unresponded(u) == [registry EXCEPT ![TxOf(u)] = u]

\* a not yet reported notification is sent to NewMNotificationInd again
Refeed(u) == pc' = [pc EXCEPT ![u] = "wait"]

\* the transaction is marked handled for the rest of the pass
MarkHandled(u) == handled' = handled \cup {TxOf(u)}

\* the record is RECEIVED, or was DOWNLOADED and forwarding it to telepathy
\* and storage.UpdateReceived succeeded (otherwise the switch breaks)
ReachesReceived(s0, added, recvOk) == s0 = "received" \/ (added /\ recvOk)

\* a record left in NOTIFICATION: re-fed to the handler unless the error
\* was shown, then deleted when expired and rescued otherwise
InitNotification(u) ==
    LET t == TxOf(u) IN
    /\ store[u].state = "notification"
    /\ \/ /\ ~store[u].notified
          /\ Refeed(u)
          /\ registry' = Unresponded(u)
          /\ UNCHANGED <<store, surface, ui>>
       \* checkExpiredAndHandle: storage.Destroy, then SingnalMessageRemoved
       \/ /\ store[u].notified /\ expired[t]
          /\ store' = Destroy(store, {u})
          /\ \E sOk \in Outcomes("bus") : ui' = IF sOk THEN ui \ {u} ELSE ui
          /\ registry' = [registry EXCEPT ![t] = None]
          /\ UNCHANGED <<surface, pc>>
       \/ /\ store[u].notified /\ ~expired[t]
          /\ registry' = Unresponded(u)
          /\ Rescue(u, surface, ui)
          /\ UNCHANGED <<store, pc>>
    /\ UNCHANGED <<announced, acked>>

\* a record past download: forward again if DOWNLOADED, acknowledge if not
\* expired, mark RESPONDED, consult the history service; each step that
\* fails leaves the record where it is and rescues its object
InitDelivered(u) ==
    LET t  == TxOf(u)
        s0 == store[u].state
    IN
    /\ s0 \in {"downloaded", "received", "responded"}
    /\ \E fwd \in {"ok", "decode"} \cup (IF "bus" \in Faults THEN {"bus"} ELSE {}),
          recvOk \in Outcomes("storage"), ackOk \in Outcomes("ack"),
          respOk \in Outcomes("storage"),
          hist \in {"error", "absent", "read", "new"} :
       LET added   == s0 = "downloaded" /\ fwd = "ok"
           regd    == s0 = "downloaded" /\ fwd \in {"ok", "bus"}
           atRecv  == ReachesReceived(s0, added, recvOk)
           sent    == atRecv /\ ~expired[t] /\ ackOk
           atResp  == s0 = "responded" \/ (atRecv /\ (expired[t] \/ ackOk) /\ respOk)
           checkHs == ~(added /\ recvOk)
           drop    == atResp /\ checkHs /\ hist \in {"absent", "read"}
           surf    == IF regd THEN (u :> "msg") @@ surface ELSE surface
           shownUi == IF added THEN (ui \ {redlOf[u]}) \cup {u} ELSE ui
           final   == IF atResp THEN "responded" ELSE IF atRecv THEN "received" ELSE s0
       IN
       /\ store' = IF drop THEN Destroy(store, {u}) ELSE SetState(store, u, final)
       /\ registry' = IF atResp THEN [registry EXCEPT ![t] = None] ELSE Unresponded(u)
       /\ acked' = IF sent THEN acked \cup {u} ELSE acked
       /\ announced' = IF added THEN announced \cup {u} ELSE announced
       /\ IF drop
          THEN surface' = surf /\ ui' = shownUi
          ELSE Rescue(u, surf, shownUi)
    /\ UNCHANGED pc

InitStep(u) ==
    /\ phase = "init"
    /\ u \in pending /\ u \in DOMAIN store
    /\ pending' = pending \ {u}
    /\ IF TxOf(u) \in handled               \* a duplicate of the transaction
       THEN /\ store' = Destroy(store, {u})
            /\ UNCHANGED <<registry, surface, pc, handled, ui, announced, acked>>
       ELSE /\ MarkHandled(u)
            /\ InitNotification(u) \/ InitDelivered(u)
    /\ UNCHANGED <<expired, lock, phase, nextUUID, msgTx, redlOf, restarts>>

(* initializeMessages returns to the mediator loop.                        *)
InitDone ==
    /\ phase = "init" /\ pending = {}
    /\ phase' = "run"
    /\ UNCHANGED <<store, expired, registry, surface, lock, pc, pending, handled,
                   nextUUID, msgTx, redlOf, restarts, ui, announced, acked>>

-----------------------------------------------------------------------------
(* Nothing left to do within the bounds: every goroutine is idle and no    *)
(* uuid is left for a push.                                                *)
Quiescent ==
    /\ phase = "run" /\ nextUUID > MaxUUID
    /\ \A u \in UUIDs : pc[u] = "idle"
    /\ UNCHANGED vars

Handler(u) == Begin(u) \/ Fetch(u) \/ Forward(u) \/ Respond(u) \/ Supersede(u)

Next ==
    \/ \E t \in Tx : Push(t) \/ Expire(t)
    \/ \E u \in UUIDs : Handler(u) \/ UserDelete(u) \/ UserRedownload(u) \/ InitStep(u)
    \/ Restart \/ InitDone \/ Quiescent

(* Handler goroutines and the mediator loop are scheduled by the Go        *)
(* runtime; a goroutine waiting for contextLock gets it eventually         *)
(* (sync.Mutex hands it over to a waiter starved for 1ms). Pushes, user    *)
(* calls, expiry and restarts are the environment and are not fair.        *)
Fairness ==
    /\ \A u \in UUIDs : SF_vars(Begin(u))
    /\ \A u \in UUIDs : WF_vars(Fetch(u) \/ Forward(u) \/ Respond(u) \/ Supersede(u))
    /\ \A u \in UUIDs : WF_vars(InitStep(u))
    /\ WF_vars(InitDone)

Spec == Init /\ [][Next]_vars /\ Fairness

-----------------------------------------------------------------------------
(* Properties.                                                             *)

TypeOK ==
    /\ DOMAIN store \subseteq UUIDs
    /\ \A u \in DOMAIN store : store[u] \in [state : InStates, notified : BOOLEAN]
    /\ expired \in [Tx -> BOOLEAN]
    /\ registry \in [Tx -> UUIDs \cup {None}]
    /\ DOMAIN surface \subseteq UUIDs
    /\ \A u \in DOMAIN surface : surface[u] \in SurfaceKinds
    /\ lock \in UUIDs \cup {None}
    /\ pc \in [UUIDs -> PcVals]
    /\ phase \in {"init", "run"}
    /\ pending \subseteq UUIDs /\ handled \subseteq Tx
    /\ nextUUID \in 1..MaxUUID + 1
    /\ msgTx \in [UUIDs -> Tx] /\ redlOf \in [UUIDs -> UUIDs \cup {None}]
    /\ ui \subseteq UUIDs /\ announced \subseteq UUIDs /\ acked \subseteq UUIDs

(* The MMSC is told a message was retrieved (M-NotifyResp.ind, after which *)
(* the operator may delete it) only for a message telepathy was told       *)
(* about, by the handler or by startup reconciliation after a restart.     *)
NoAckWithoutAnnounce == acked \subseteq announced

(* Every stored notification is eventually shown to the user (a message or *)
(* an error object telepathy was told about) or discarded: no push is left *)
(* stored but unseen, whichever handler steps, user calls and restart      *)
(* (initializeMessages re-feeding what was never reported) intervene.      *)
EveryNotificationShown ==
    \A u \in UUIDs : (u \in DOMAIN store) ~> (u \notin DOMAIN store \/ u \in ui)

(* While telepathy shows an unexpired message or error of a transaction   *)
(* the MMSC has not been acknowledged for and whose record is stored,      *)
(* unrespondedTransactions holds the transaction and points at a stored   *)
(* uuid: this is what lets a re-push of                                    *)
(* it be dropped or made to replace the object. Checked between handler    *)
(* runs, after startup reconciliation rebuilt the registry.                *)
RegistryCoversShown ==
    \A t \in Tx :
        ( /\ phase = "run" /\ ~expired[t]
          /\ ~\E v \in UUIDs : lock = v /\ TxOf(v) = t
          /\ \A a \in acked : TxOf(a) # t
          /\ \E u \in ui \cap DOMAIN store : TxOf(u) = t )
        => registry[t] \in DOMAIN store

(* startup reconciliation leaves at most one record per transaction        *)
ReconciliationDedups ==
    [][ phase = "init" /\ phase' = "run"
        => \A t \in Tx : Cardinality({u \in DOMAIN store' : TxOf(u) = t}) <= 1 ]_vars

(* I1 of the spec: outside the window in which a handler is replacing the  *)
(* object of its transaction, telepathy shows at most one message or error *)
(* per Transaction-Id, however often the operator re-pushes it.            *)
OneArtifactPerTx ==
    \A t \in Tx :
        (~\E v \in UUIDs : pc[v] = "supersede" /\ TxOf(v) = t)
            => Cardinality({u \in ui : TxOf(u) = t}) <= 1

(* Every message object nuntium serves is backed by its stored record      *)
(* Redownload and Delete look the record up, and a record destroyed under  *)
(* a live object leaves an error the user can neither redownload nor have  *)
(* removed cleanly (handleMessageDownloadError's supersede step).          *)
SurfaceHasRecord == \A u \in DOMAIN surface : u \in DOMAIN store

(* ... and an error the user is shown keeps its record while it is shown:  *)
(* a NOTIFICATION record whose uuid telepathy shows is destroyed only in a *)
(* step that also removes it from telepathy (MessageRemoved, or the        *)
(* DeleteEvent of the message replacing it). The supersede step (387) and  *)
(* startup reconciliation's destruction of a duplicate (709) destroy such  *)
(* records; an error left behind can be neither redownloaded nor deleted.  *)
ObjectsKeepRecords ==
    [][ /\ SurfaceHasRecord'
        /\ \A u \in ui \cap DOMAIN store :
              store[u].state = "notification" /\ u \notin DOMAIN store'
                  => u \notin ui' ]_vars

=============================================================================
