--------------------------- MODULE ModemLifecycle ---------------------------
(***************************************************************************)
(* The SIM identity and the push interface as ofono/modem.go tracks them, *)
(* and what the mediator loop (cmd/nuntium/mediator.go 101-124) makes of   *)
(* them: a telepathy service per identity, a push agent registered while  *)
(* ofono offers the PushNotification interface. Modem.Init starts          *)
(* watchStatus, then calls fetchExistingStatus; both run                   *)
(* updatePushInterfaceState and handleIdentity on their own goroutine,     *)
(* without a lock, and hand PushInterfaceAvailable, IdentityAdded and      *)
(* IdentityRemoved to the loop over unbuffered channels. A send completes  *)
(* when the loop, back at its select, takes the value; the sender then     *)
(* goes on while the loop runs the case body (AddService, RemoveService,   *)
(* PushAgent.Register or Unregister), so a send and the call it causes    *)
(* are two steps.                                                          *)
(* The loop sets mediator.telepathyService, which a download handler       *)
(* (handleMNotificationInd) reads while it runs.                           *)
(***************************************************************************)
EXTENDS Naturals, Sequences, ContextActivation, ContextSettings
LOCAL INSTANCE SequencesExt

CONSTANTS
    Id,             \* the SIM's SubscriberIdentity
    MaxSimChanges,  \* SIM removals and insertions ofono reports
    MaxIfaceChanges,\* times ofono adds or removes the push interface
    MaxPushes,      \* downloads started
    StartupRace,    \* may ofono's state change before fetchExistingStatus is done
    Ctxs,           \* ofono's contexts in GetContexts order: [path, type, mc,
                    \* proxy], proxy the Proxy entry of their Settings
    Working         \* paths of the contexts ofono manages to activate

ASSUME MaxSimChanges \in Nat /\ MaxIfaceChanges \in Nat /\ MaxPushes \in Nat
ASSUME StartupRace \in BOOLEAN

\* what storage.GetPreferredContext returns when nothing is stored
NoContext == "/"

CtxPaths == {Ctxs[i].path : i \in DOMAIN Ctxs}

NoChoice == [path |-> NoContext, type |-> "none", mc |-> FALSE, active |-> FALSE,
             preferred |-> FALSE]

Empty == ""
Routines == {"fetch", "watch"}

VARIABLES
    sim,        \* ofono's SubscriberIdentity
    signals,    \* SubscriberIdentity signals (simSignal) not yet read
    changes,    \* SIM changes so far
    iface,      \* ofono's Interfaces include PushNotification
    msignals,   \* Interfaces signals (modemSignal) not yet read
    ichanges,   \* push interface changes so far
    identity,   \* modem.identity
    avail,      \* modem.pushInterfaceAvailable
    agent,      \* modem.PushAgent.Registered
    hpc,        \* where fetchExistingStatus and watchStatus are
    val,        \* the identity value each of them is handling
    ival,       \* the push interface state each of them is handling
    service,    \* mediator.telepathyService is set
    registered, \* services the MMS manager holds for the modem
    dl,         \* the download handler's progress
    pushes,     \* downloads started so far
    crashed,    \* a nil telepathyService was dereferenced
    exited,     \* the loop called log.Fatal
    loop,       \* the case body the mediator loop runs, "select" when it
                \* waits in its select
    lid,        \* the identity the loop received with IdentityAdded or
                \* IdentityRemoved
    ctx         \* ofono's Active and Preferred properties per context, the
                \* context nuntium stored, and ActivateMMSContext's progress:
                \* candidates left, tries on the head one, the context
                \* chosen and how the last activation ended

\* ofono's push interface and the modem's and loop's view of it
pushVars == <<iface, msignals, ichanges, avail, agent, ival>>

\* the mediator loop and what ends the process from it
loopVars == <<loop, lid, exited>>

vars == <<sim, signals, changes, identity, hpc, val, service, registered, dl,
          pushes, crashed, ctx, pushVars, loopVars>>

Init ==
    /\ sim \in {Empty, Id}
    /\ signals = <<>>
    /\ changes = 0
    /\ iface \in BOOLEAN
    /\ msignals = <<>>
    /\ ichanges = 0
    /\ identity = Empty
    /\ avail = FALSE
    /\ agent = FALSE
    /\ ival = [g \in Routines |-> FALSE]
    /\ hpc = [g \in Routines |-> IF g = "fetch" THEN "start" ELSE "idle"]
    /\ val = [g \in Routines |-> Empty]
    /\ service = FALSE
    /\ registered = 0
    /\ dl = "idle"
    /\ pushes = 0
    /\ crashed = FALSE
    /\ exited = FALSE
    /\ loop = "select"
    /\ lid = Empty
    /\ ctx \in [active : {a \in [CtxPaths -> BOOLEAN] :
                           \A i \in DOMAIN Ctxs : Ctxs[i].type = "mms" => ~a[Ctxs[i].path]},
               preferred : {[p \in CtxPaths |-> FALSE]},
               stored : {NoContext}, cand : {<<>>}, tries : {0},
               chosen : {NoChoice}, outcome : {"none"}]

\* the goroutine g moves on to where
Goto(g, where) == hpc' = [hpc EXCEPT ![g] = where]

\* where a handleIdentity call returns to: fetchExistingStatus ends, the
\* watchStatus loop waits for the next signal
Returned(g) == IF g = "fetch" THEN "done" ELSE "idle"

Running == ~crashed /\ ~exited

-----------------------------------------------------------------------------
(* ofono reports a SIM removal or insertion.                               *)
SimChange ==
    /\ Running
    /\ changes < MaxSimChanges
    /\ StartupRace \/ hpc["fetch"] = "done"
    /\ sim' = IF sim = Empty THEN Id ELSE Empty
    /\ signals' = Append(signals, sim')
    /\ changes' = changes + 1
    /\ UNCHANGED <<identity, hpc, val, service, registered, dl, pushes, crashed,
                   ctx, pushVars, loopVars>>

(* ofono adds or removes the PushNotification interface.                   *)
InterfacesChange ==
    /\ Running
    /\ ichanges < MaxIfaceChanges
    /\ StartupRace \/ hpc["fetch"] = "done"
    /\ iface' = ~iface
    /\ msignals' = Append(msignals, iface')
    /\ ichanges' = ichanges + 1
    /\ UNCHANGED <<sim, signals, changes, identity, hpc, val, service, registered,
                   dl, pushes, crashed, ctx, avail, agent, ival, loopVars>>

(* fetchExistingStatus reads Interfaces with getProperty and calls         *)
(* updatePushInterfaceState with it (the Online property it reads next     *)
(* only sets modem.online, which nothing reads).                           *)
FetchInterfaces ==
    /\ Running /\ hpc["fetch"] = "start"
    /\ ival' = [ival EXCEPT !["fetch"] = iface]
    /\ Goto("fetch", "checkIface")
    /\ UNCHANGED <<sim, signals, changes, identity, val, service, registered, dl,
                   pushes, crashed, ctx, iface, msignals, ichanges, avail, agent, loopVars>>

(* fetchExistingStatus reads SubscriberIdentity with getProperty and calls *)
(* handleIdentity with it.                                                 *)
FetchIdentity ==
    /\ Running /\ hpc["fetch"] = "identity"
    /\ val' = [val EXCEPT !["fetch"] = sim]
    /\ Goto("fetch", "checkRemove")
    /\ UNCHANGED <<sim, signals, changes, identity, service, registered, dl, pushes,
                   crashed, ctx, pushVars, loopVars>>

(* watchStatus reads the next Interfaces PropertyChanged signal.           *)
WatchInterfaces ==
    /\ Running /\ hpc["watch"] = "idle" /\ msignals # <<>>
    /\ ival' = [ival EXCEPT !["watch"] = Head(msignals)]
    /\ msignals' = Tail(msignals)
    /\ Goto("watch", "checkIface")
    /\ UNCHANGED <<sim, signals, changes, identity, val, service, registered, dl,
                   pushes, crashed, ctx, iface, ichanges, avail, agent, loopVars>>

(* watchStatus reads the next SubscriberIdentity PropertyChanged signal.   *)
WatchIdentity ==
    /\ Running /\ hpc["watch"] = "idle" /\ signals # <<>>
    /\ val' = [val EXCEPT !["watch"] = Head(signals)]
    /\ signals' = Tail(signals)
    /\ Goto("watch", "checkRemove")
    /\ UNCHANGED <<sim, changes, identity, service, registered, dl, pushes, crashed,
                   ctx, pushVars, loopVars>>

-----------------------------------------------------------------------------
(* updatePushInterfaceState, one step for its test and assignment of      *)
(* pushInterfaceAvailable and one for the send the loop receives.          *)

\* where the goroutine goes after updatePushInterfaceState: on to the
\* identity in fetchExistingStatus, back to the select in watchStatus
AfterIface(g) == IF g = "fetch" THEN "identity" ELSE "idle"

\* a change is sent: always when the interface appeared, when it went
\* away only while the agent is registered
SendsIface(g) == ival[g] \/ agent

(* if modem.pushInterfaceAvailable != nextState: set it, then send.       *)
CheckIface(g) ==
    /\ Running /\ hpc[g] = "checkIface"
    /\ IF avail # ival[g]
       THEN /\ avail' = ival[g]
            /\ Goto(g, IF SendsIface(g) THEN "sendIface" ELSE AfterIface(g))
       ELSE /\ UNCHANGED avail
            /\ Goto(g, AfterIface(g))
    /\ UNCHANGED <<sim, signals, changes, identity, val, service, registered, dl,
                   pushes, crashed, ctx, iface, msignals, ichanges, agent, ival, loopVars>>

(* modem.PushInterfaceAvailable <- true / false: the loop, waiting in its *)
(* select, takes the value, and updatePushInterfaceState returns.          *)
SendIface(g) ==
    /\ Running /\ hpc[g] = "sendIface" /\ loop = "select"
    /\ loop' = IF ival[g] THEN "register" ELSE "unregister"
    /\ Goto(g, AfterIface(g))
    /\ UNCHANGED <<sim, signals, changes, identity, val, service, registered, dl,
                   pushes, crashed, ctx, pushVars, lid, exited>>

\* PushAgent.Register / Unregister (ofono/push.go, outside this
\* repository): the agent's Registered flag follows the call
PushAgentCall(on) == agent' = on

(* The loop's PushInterfaceAvailable case: Register on true, Unregister on *)
(* false, then back to the select. Meanwhile the goroutine that sent the   *)
(* value handles further Interfaces changes against the Registered flag   *)
(* as it was before the call.                                              *)
LoopPushAgent ==
    /\ Running /\ loop \in {"register", "unregister"}
    /\ PushAgentCall(loop = "register")
    /\ loop' = "select"
    /\ UNCHANGED <<sim, signals, changes, identity, hpc, val, service, registered,
                   dl, pushes, crashed, ctx, iface, msignals, ichanges, avail, ival,
                   lid, exited>>

-----------------------------------------------------------------------------
(* handleIdentity, one step per statement that reads or writes shared     *)
(* state.                                                                  *)

ForgetIdentity(g) == identity' = val[g]

(* if identity == "" && modem.identity != ""                               *)
CheckRemove(g) ==
    /\ Running /\ hpc[g] = "checkRemove"
    /\ Goto(g, IF val[g] = Empty /\ identity # Empty THEN "sendRemoved" ELSE "checkAdd")
    /\ UNCHANGED <<sim, signals, changes, identity, val, service, registered, dl,
                   pushes, crashed, ctx, pushVars, loopVars>>

(* modem.IdentityRemoved <- identity: the loop takes the new, empty,       *)
(* identity.                                                               *)
SendRemoved(g) ==
    /\ Running /\ hpc[g] = "sendRemoved" /\ loop = "select"
    /\ loop' = "remove" /\ lid' = val[g]
    /\ Goto(g, "setRemoved")
    /\ UNCHANGED <<sim, signals, changes, identity, val, service, registered, dl,
                   pushes, crashed, ctx, pushVars, exited>>

SetRemoved(g) ==
    /\ Running /\ hpc[g] = "setRemoved"
    /\ ForgetIdentity(g)
    /\ Goto(g, "checkAdd")
    /\ UNCHANGED <<sim, signals, changes, val, service, registered, dl, pushes,
                   crashed, ctx, pushVars, loopVars>>

(* if identity != "" && modem.identity == ""                               *)
CheckAdd(g) ==
    /\ Running /\ hpc[g] = "checkAdd"
    /\ Goto(g, IF val[g] # Empty /\ identity = Empty THEN "setAdded" ELSE Returned(g))
    /\ UNCHANGED <<sim, signals, changes, identity, val, service, registered, dl,
                   pushes, crashed, ctx, pushVars, loopVars>>

SetAdded(g) ==
    /\ Running /\ hpc[g] = "setAdded"
    /\ identity' = val[g]
    /\ Goto(g, "sendAdded")
    /\ UNCHANGED <<sim, signals, changes, val, service, registered, dl, pushes,
                   crashed, ctx, pushVars, loopVars>>

(* modem.IdentityAdded <- identity: the loop takes the identity and        *)
(* handleIdentity returns.                                                 *)
SendAdded(g) ==
    /\ Running /\ hpc[g] = "sendAdded" /\ loop = "select"
    /\ loop' = "add" /\ lid' = val[g]
    /\ Goto(g, Returned(g))
    /\ UNCHANGED <<sim, signals, changes, identity, val, service, registered, dl,
                   pushes, crashed, ctx, pushVars, exited>>

(* The loop's IdentityAdded case: AddService registers a service for the  *)
(* identity and becomes telepathyService; initializeMessages follows.     *)
LoopIdentityAdded ==
    /\ Running /\ loop = "add"
    /\ service' = TRUE
    /\ registered' = registered + 1
    /\ loop' = "select"
    /\ UNCHANGED <<sim, signals, changes, identity, hpc, val, dl, pushes, crashed,
                   ctx, pushVars, lid, exited>>

\* MMSService.isService: the service's object path is MMS_DBUS_PATH/ and
\* its identity, so of the identities here only Id names one
isService(id) == id = Id

(* MMSManager.RemoveService(identity) (outside this repository) drops the *)
(* service isService matches. What it returns when none matches is not in *)
(* this repository: either an error or nil, the service kept either way.  *)
RemoveService(id) ==
    IF registered > 0 /\ isService(id)
    THEN {[err |-> FALSE, left |-> registered - 1]}
    ELSE {[err |-> TRUE, left |-> registered], [err |-> FALSE, left |-> registered]}

(* The loop's IdentityRemoved case: RemoveService(id); an error is         *)
(* log.Fatal, otherwise telepathyService = nil.                            *)
LoopIdentityRemoved ==
    /\ Running /\ loop = "remove"
    /\ \E r \in RemoveService(lid) :
          /\ registered' = r.left
          /\ IF r.err THEN exited' = TRUE /\ UNCHANGED service
                      ELSE service' = FALSE /\ UNCHANGED exited
    /\ loop' = "select"
    /\ UNCHANGED <<sim, signals, changes, identity, hpc, val, dl, pushes, crashed,
                   ctx, pushVars, lid>>

-----------------------------------------------------------------------------
(* A push is downloaded: handleMNotificationInd runs activateMMSContext,  *)
(* then SetPreferredContext, the download, and the deferred deactivation.  *)
(* ofono delivers a push to the registered agent while it offers the      *)
(* push interface and a SIM is present, whatever the loop has done with   *)
(* the identity; the loop takes it in its PushAgent.Push case and starts  *)
(* the handler goroutine.                                                  *)
PushOffered == agent /\ iface /\ sim = Id

Push ==
    /\ Running /\ loop = "select" /\ dl = "idle" /\ pushes < MaxPushes /\ PushOffered
    /\ dl' = "activate"
    /\ pushes' = pushes + 1
    /\ UNCHANGED <<sim, signals, changes, identity, hpc, val, service, registered,
                   crashed, ctx, pushVars, loopVars>>

\* ofono's GetContexts reply: each context with its current properties
ContextList ==
    [i \in 1..Len(Ctxs) |->
        [path |-> Ctxs[i].path, type |-> Ctxs[i].type, mc |-> Ctxs[i].mc,
         active |-> ctx.active[Ctxs[i].path],
         preferred |-> ctx.preferred[Ctxs[i].path]]]

\* a step that calls a method on telepathyService: a nil service panics
UseService(step) ==
    /\ Running
    /\ IF service THEN step ELSE crashed' = TRUE /\ UNCHANGED <<dl, ctx, loopVars>>
    /\ UNCHANGED <<sim, signals, changes, identity, hpc, val, service, registered,
                   pushes, pushVars, loopVars>>

(* activateMMSContext: telepathyService.GetPreferredContext (line 192),    *)
(* then ActivateMMSContext asks ofono for the candidate list; an empty     *)
(* list fails the download with ErrorActivateContext.                      *)
Activate ==
    /\ dl = "activate"
    /\ UseService(
         LET l == GetMMSContexts(ContextList, ctx.stored) IN
         /\ dl' = IF l = <<>> THEN "idle" ELSE "toggle"
         /\ ctx' = [ctx EXCEPT !.cand = l, !.tries = 0,
                               !.outcome = IF l = <<>> THEN "failed" ELSE @]
         /\ UNCHANGED crashed)

\* Variants of the helpers below, each a plausible slip in the code they
\* model; the mutation runs swap them in.
MarkPreferredOnFailure(c, ok) ==
    IF ~c.preferred /\ c.type = "mms"
    THEN [ctx.preferred EXCEPT ![c.path] = TRUE] ELSE ctx.preferred

\* toggleActive(true) returning ok: set ofono's Preferred on a type mms
\* context that is not yet preferred (lines 317-320)
MarkPreferred(c, ok) ==
    IF ok /\ ~c.preferred /\ c.type = "mms"
    THEN [ctx.preferred EXCEPT ![c.path] = TRUE] ELSE ctx.preferred

\* DeactivateMMSContext: a no-op for a type internet context
Deactivate(c) ==
    IF c.type = "internet" THEN ctx.active ELSE [ctx.active EXCEPT ![c.path] = FALSE]

(* One pass of ActivateMMSContext's loop body on the head candidate, as   *)
(* read by GetContexts: an active one is returned; otherwise one try of    *)
(* toggleActive(true), which succeeds for a context in Working. After      *)
(* MaxTries failures the next candidate is tried; when none is left the    *)
(* download fails with ErrorActivateContext.                               *)
ToggleActive ==
    /\ Running /\ dl = "toggle"
    /\ LET c == Head(ctx.cand)
           ok == c.path \in Working
           exhausted == ~ok /\ ctx.tries + 1 = MaxTries
       IN IF c.active \/ ok
          THEN /\ dl' = "setPreferred"
               /\ ctx' = [ctx EXCEPT !.chosen = c,
                                     !.active = [@ EXCEPT ![c.path] = TRUE],
                                     !.preferred = MarkPreferred(c, ok /\ ~c.active),
                                     !.outcome = "ok"]
          ELSE /\ dl' = IF exhausted /\ Tail(ctx.cand) = <<>> THEN "idle" ELSE "toggle"
               /\ ctx' = [ctx EXCEPT !.cand = IF exhausted THEN Tail(@) ELSE @,
                                     !.tries = IF exhausted THEN 0 ELSE @ + 1,
                                     !.preferred = MarkPreferred(c, FALSE),
                                     !.outcome = IF exhausted /\ Tail(ctx.cand) = <<>>
                                                 THEN "failed" ELSE @]
    /\ UNCHANGED <<sim, signals, changes, identity, hpc, val, service, registered,
                   pushes, crashed, pushVars, loopVars>>

\* MMSService.SetPreferredContext: storage.SetPreferredContext for the
\* account, then a PropertyChanged signal; its no-op test is inverted
\* (err != nil && context == pc), so it always stores
StorePreferred(p) == ctx' = [ctx EXCEPT !.stored = p]

(* handleMNotificationInd calls telepathyService.SetPreferredContext with *)
(* the activated context (line 256). The proxy lookup and the download     *)
(* follow; the deferred deactivation ends the handler.                     *)
SetPreferred ==
    /\ dl = "setPreferred"
    /\ UseService(/\ dl' = "download"
                  /\ StorePreferred(ctx.chosen.path)
                  /\ UNCHANGED crashed)

Deactivation ==
    /\ Running /\ dl = "download"
    /\ dl' = "idle"
    /\ ctx' = [ctx EXCEPT !.active = Deactivate(ctx.chosen)]
    /\ UNCHANGED <<sim, signals, changes, identity, hpc, val, service, registered,
                   pushes, crashed, pushVars, loopVars>>

(* A client calls SetProperty("PreferredContext", p) on the service       *)
(* object: watchDBusMethodCalls runs setProperty, which caches p in the    *)
(* service's Properties and calls SetPreferredContext. The object exists   *)
(* only while the loop holds a telepathy service.                          *)
ClientSetProperty(p) ==
    /\ Running /\ service
    /\ StorePreferred(p)
    /\ UNCHANGED <<sim, signals, changes, identity, hpc, val, service, registered,
                   dl, pushes, crashed, pushVars, loopVars>>

\* every SubscriberIdentity and Interfaces change ofono reported has been
\* handled, by both goroutines and by the loop
Settled ==
    /\ signals = <<>> /\ msignals = <<>>
    /\ hpc = [g \in Routines |-> Returned(g)]
    /\ loop = "select"

\* the process is gone, or nothing is left to happen within the bounds
Stopped ==
    /\ ~Running \/ (/\ changes = MaxSimChanges /\ ichanges = MaxIfaceChanges
                    /\ dl = "idle"
                    /\ pushes = MaxPushes \/ ~PushOffered
                    /\ Settled)
    /\ UNCHANGED vars

Next ==
    \/ SimChange \/ InterfacesChange
    \/ FetchInterfaces \/ FetchIdentity \/ WatchInterfaces \/ WatchIdentity
    \/ \E g \in Routines :
          CheckIface(g) \/ SendIface(g)
          \/ CheckRemove(g) \/ SendRemoved(g) \/ SetRemoved(g) \/ CheckAdd(g)
          \/ SetAdded(g) \/ SendAdded(g)
    \/ LoopPushAgent \/ LoopIdentityAdded \/ LoopIdentityRemoved
    \/ Push \/ Activate \/ ToggleActive \/ SetPreferred \/ Deactivation
    \/ \E p \in CtxPaths \cup {NoContext} : ClientSetProperty(p)
    \/ Stopped

(* Both goroutines, the loop's case bodies and the download handler are   *)
(* scheduled fairly: the Go runtime runs every runnable goroutine, and    *)
(* the loop, once a case body ends, is back at its select. ofono's        *)
(* changes, pushes and client calls are the environment.                   *)
Fairness ==
    /\ WF_vars(FetchInterfaces) /\ WF_vars(FetchIdentity)
    /\ WF_vars(WatchInterfaces \/ WatchIdentity)
    /\ \A g \in Routines :
          WF_vars(CheckIface(g) \/ SendIface(g)
                  \/ CheckRemove(g) \/ SendRemoved(g) \/ SetRemoved(g) \/ CheckAdd(g)
                  \/ SetAdded(g) \/ SendAdded(g))
    /\ WF_vars(LoopPushAgent \/ LoopIdentityAdded \/ LoopIdentityRemoved)
    /\ WF_vars(Activate \/ ToggleActive \/ SetPreferred \/ Deactivation)

Spec == Init /\ [][Next]_vars /\ Fairness

-----------------------------------------------------------------------------
(* Properties.                                                             *)

(* The mediator follows the modem: the daemon stays up through SIM and    *)
(* interface changes, and once every report ofono made has been handled,  *)
(* by watchStatus, fetchExistingStatus and the loop, the MMS manager holds *)
(* one service for the modem while a SIM is present and none while it is *)
(* not, and the push agent is registered exactly while ofono offers the   *)
(* push interface.                                                         *)
RegistrationsMatchModem ==
    /\ ~exited
    /\ Settled => /\ registered = IF sim = Id THEN 1 ELSE 0
                  /\ agent = iface

NoNilDereference == ~crashed

(* Context choice never locks nuntium out: a download fails to activate a  *)
(* context only when no MMS-capable context ofono offers can be activated. *)
(* toggleActive marks a context Preferred and GetMMSContexts then tries    *)
(* that context alone, so a mark on a context that cannot be activated    *)
(* would fail every later download.                                        *)
ActivationFindsWorkingContext ==
    ctx.outcome = "failed" =>
        \A i \in DOMAIN ContextList :
            MMSCapable(ContextList[i]) => ContextList[i].path \notin Working

\* the Settings ofono reports for the context with the given path
CtxProps(p) ==
    LET i == CHOOSE i \in DOMAIN Ctxs : Ctxs[i].path = p
    IN ProxyProps(Ctxs[i].proxy, Missing)

\* GetProxy agrees with the reference for every proxy of up to six port
\* characters around the 16-bit bound (a constant, evaluated once)
ProxyForAllSettings ==
    GetProxyMatchesReference({<<>>, <<"h">>}, BoundedSeq({"0", "3", "5", "6", "x"}, 6))

(* A download goes through the proxy ofono configured: GetProxy, which     *)
(* handleMNotificationInd calls on the context it activated (mediator.go  *)
(* 259), yields the host and port the Settings' Proxy denotes, 80 when    *)
(* its port is no 16-bit number, for every proxy the check ranges over    *)
(* and for the context a download is about to use.                         *)
ProxyCoordinatesDocumented ==
    /\ ProxyForAllSettings
    /\ dl = "download" =>
          GetProxy(CtxProps(ctx.chosen.path))
            = ReferenceProxy(settingsProxy(CtxProps(ctx.chosen.path)), 80)
=============================================================================
