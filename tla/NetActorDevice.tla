--------------------------- MODULE NetActorDevice ---------------------------
(***************************************************************************)
(* acting/acting.go: the two routers of a netActorDevice with one hired     *)
(* actor, and the shutdown that has to stop them.  The module is about      *)
(* blocking: every unbuffered channel and every mutex that a goroutine can  *)
(* wait for is modelled, message contents are not.                          *)
(*                                                                         *)
(* Goroutines: routeIncoming, routeOutgoing, the forwarder and the handler  *)
(* of the actor's newsletter, a hirer that sends on its own, fire(),        *)
(* shutdown(), the gatekeeper's outgoing pump and the client's writer.      *)
(* A Go RWMutex lets no new reader in while a writer waits for it.          *)
(*                                                                         *)
(* NetActor looks at the same fields of the actor one operation at a time;  *)
(* the names of the two modules differ, so that the proofs can use both.    *)
(***************************************************************************)
EXTENDS Naturals

CONSTANTS
    MaxIncoming,    \* bound: messages of the device
    MaxHirerSends,  \* bound: messages sent by the hirer on its own
    ClientBuffer,   \* capacity of the client's Send channel (256 in ws.go)
    UnknownActors,  \* may the device address an actor it does not have?
    EncodeErrors    \* may the content of a message be impossible to encode?

ASSUME RoutersConstants ==
    /\ MaxIncoming \in Nat /\ MaxHirerSends \in Nat
    /\ ClientBuffer \in Nat \ {0}
    /\ UnknownActors \in BOOLEAN /\ EncodeErrors \in BOOLEAN

VARIABLES
    incoming,       \* messages that the incoming pump has yet to hand over
    routeIncoming,  \* at its select, with a message for a handler ("known"), of a
                    \* type without subscriber ("forbidden") or for an unknown
                    \* actor, or in the handling of one
    routeOutgoing,  \* at its select, "holding" a message for device.Send, "exited"
    routerCtx,      \* is the routers' context still active?
    outgoingPump,   \* "idle" or "holding" a message for client.Send
    clientSend,     \* number of messages in client.Send
    sender,         \* where each goroutine is in netActor.Send / forceSend
    hirerSends,     \* messages sent by the hirer so far
    forwarder,      \* the forwarder of the handler's newsletter
    subscribed,     \* is the newsletter registered and its Lifetime active?
    engagement,     \* its contract: "valid", "cancelled" (Context done), "none"
    linked,         \* its isConnected
    firing,         \* fire(), called when the contract's Context is done
    stopping        \* netActorDevice.shutdown, by the lock it waits for

incomingVars == <<incoming, routeIncoming>>
outgoingVars == <<routeOutgoing, outgoingPump, clientSend>>
sendVars == <<sender, hirerSends>>
newsletterVars == <<forwarder, subscribed>>
lifeVars == <<routerCtx, engagement, linked, firing, stopping>>
routerVars == <<incomingVars, outgoingVars, sendVars, newsletterVars, lifeVars>>

\* Goroutines that send in the actor's name; "router" is routeIncoming.
Senders == {"handler", "router", "hirer", "fire"}

RoutersTypeOK ==
    /\ incoming \in 0..MaxIncoming
    /\ routeIncoming \in {"select", "known", "unknown", "forbidden", "handle",
                         "refuse", "sending", "exited"}
    /\ routeOutgoing \in {"select", "holding", "exited"}
    /\ routerCtx \in BOOLEAN
    /\ outgoingPump \in {"idle", "holding"}
    /\ clientSend \in 0..ClientBuffer
    /\ sender \in [Senders -> {"none", "contract", "connected", "channel", "error"}]
    /\ hirerSends \in 0..MaxHirerSends
    /\ forwarder \in {"receiving", "holding", "closed"}
    /\ subscribed \in BOOLEAN
    /\ engagement \in {"valid", "cancelled", "none"}
    /\ linked \in BOOLEAN
    /\ firing \in {"idle", "lock", "send", "cancelAll", "done"}
    /\ stopping \in {"running", "actors", "disconnect", "contract", "wait", "done"}

\* The device has booted, its actor is hired and its handler has subscribed.
RoutersInit ==
    /\ incoming = MaxIncoming
    /\ routeIncoming = "select" /\ routeOutgoing = "select" /\ routerCtx = TRUE
    /\ outgoingPump = "idle" /\ clientSend = 0
    /\ sender = [s \in Senders |-> "none"] /\ hirerSends = 0
    /\ forwarder = "receiving" /\ subscribed = TRUE
    /\ engagement = "valid" /\ linked = TRUE
    /\ firing = "idle" /\ stopping = "running"

----------------------------------------------------------------------------
(* The mutexes. *)

\* Send read-locks contractMutex from its first check to its end, forceSend
\* read-locks isConnectedMutex while it waits at the channel.  The answer to
\* an unknown actor's message waits there without any of them ("error").
ContractReaders == {s \in Senders \ {"fire"} : sender[s] \in {"connected", "channel"}}
ConnectedReaders == {s \in Senders : sender[s] = "channel"}

\* RLock is possible: no writer holds the mutex or waits for it.
ContractRLock == firing \notin {"lock", "send"}
ConnectedRLock == stopping # "disconnect"
ActorsRLock == stopping \notin {"actors", "disconnect", "contract"}

\* routeIncoming read-locks actorsMutex while it handles a message.
ActorsReader == routeIncoming \in {"handle", "refuse", "sending"}

----------------------------------------------------------------------------
(* netActor.Send and forceSend, by any goroutine.                           *)

GoTo(s, pc) == sender' = [sender EXCEPT ![s] = pc]

\* contractMutex.RLock, then the validity check of Send.
SendCheckContract(s) ==
    /\ sender[s] = "contract"
    /\ ContractRLock
    /\ GoTo(s, IF engagement = "none" THEN "none" ELSE "connected")
    /\ UNCHANGED <<incomingVars, outgoingVars, hirerSends, newsletterVars, lifeVars>>

\* isConnectedMutex.RLock, then the check of forceSend.
SendCheckConnected(s) ==
    /\ sender[s] = "connected"
    /\ ConnectedRLock
    /\ GoTo(s, IF linked THEN "channel" ELSE "none")
    /\ UNCHANGED <<incomingVars, outgoingVars, hirerSends, newsletterVars, lifeVars>>

\* Another goroutine that was given the actor sends a message.
HirerSend ==
    /\ sender["hirer"] = "none"
    /\ hirerSends < MaxHirerSends
    /\ hirerSends' = hirerSends + 1
    /\ GoTo("hirer", "contract")
    /\ UNCHANGED <<incomingVars, outgoingVars, newsletterVars, lifeVars>>

----------------------------------------------------------------------------
(* routeOutgoing, the gatekeeper's outgoing pump and the client's writer.   *)

\* case message := <-ad.send
RouteOutgoingReceive(s) ==
    /\ routeOutgoing = "select"
    /\ sender[s] \in {"channel", "error"}
    /\ GoTo(s, "none")
    /\ routeOutgoing' = "holding"
    /\ UNCHANGED <<incomingVars, outgoingPump, clientSend, hirerSends, newsletterVars, lifeVars>>

\* The content cannot be encoded: the error is logged and the router returns.
RouteOutgoingEncodeError(s) ==
    /\ EncodeErrors
    /\ routeOutgoing = "select"
    /\ sender[s] \in {"channel", "error"}
    /\ GoTo(s, "none")
    /\ routeOutgoing' = "exited"
    /\ UNCHANGED <<incomingVars, outgoingPump, clientSend, hirerSends, newsletterVars, lifeVars>>

\* ad.device.Send <- ..., taken by the outgoing pump.
RouteOutgoingPass ==
    /\ routeOutgoing = "holding"
    /\ outgoingPump = "idle"
    /\ routeOutgoing' = "select"
    /\ outgoingPump' = "holding"
    /\ UNCHANGED <<incomingVars, clientSend, sendVars, newsletterVars, lifeVars>>

\* case <-ctx.Done()
RouteOutgoingExit ==
    /\ routeOutgoing = "select"
    /\ ~routerCtx
    /\ routeOutgoing' = "exited"
    /\ UNCHANGED <<incomingVars, outgoingPump, clientSend, sendVars, newsletterVars, lifeVars>>

\* The pump's context is not an alternative here: the gatekeeper calls
\* ShutdownPumps only after shutdown() has returned.
OutgoingPumpSend ==
    /\ outgoingPump = "holding"
    /\ clientSend < ClientBuffer
    /\ outgoingPump' = "idle"
    /\ clientSend' = clientSend + 1
    /\ UNCHANGED <<incomingVars, routeOutgoing, sendVars, newsletterVars, lifeVars>>

\* The writer drains client.Send while the connection is up; shutdown() is
\* called because it no longer is.
WritePump ==
    /\ stopping = "running"
    /\ clientSend > 0
    /\ clientSend' = clientSend - 1
    /\ UNCHANGED <<incomingVars, routeOutgoing, outgoingPump, sendVars, newsletterVars, lifeVars>>

----------------------------------------------------------------------------
(* routeIncoming, and the newsletter of the actor's handler.                *)

\* case message := <-ad.device.Receive; the select may choose it although the
\* context is done. A device may send any type at any time, also one that the
\* actor's holder has no subscription for.
RouteIncomingReceive ==
    /\ routeIncoming = "select"
    /\ incoming > 0
    /\ incoming' = incoming - 1
    /\ \/ routeIncoming' \in {"known", "forbidden"}
       \/ UnknownActors /\ routeIncoming' = "unknown"
    /\ UNCHANGED <<outgoingVars, sendVars, newsletterVars, lifeVars>>

\* actorsMutex.RLock and the lookup of the actor.
RouteIncomingLookup ==
    /\ ActorsRLock
    /\ \/ routeIncoming = "known" /\ routeIncoming' = "handle" /\ UNCHANGED sender
       \/ routeIncoming = "forbidden" /\ routeIncoming' = "refuse" /\ UNCHANGED sender
       \/ routeIncoming = "unknown" /\ routeIncoming' = "sending" /\ GoTo("router", "error")
    /\ UNCHANGED <<incoming, outgoingVars, hirerSends, newsletterVars, lifeVars>>

\* HandleMessage: the forwarder takes the message.
HandleMessageForward ==
    /\ routeIncoming = "handle"
    /\ forwarder = "receiving"
    /\ forwarder' = "holding"
    /\ routeIncoming' = "select"
    /\ UNCHANGED <<incoming, outgoingVars, sendVars, subscribed, lifeVars>>

\* HandleMessage counts no forward, because nobody has subscribed to the type or
\* nobody has anymore: the device is told so with Send, under actorsMutex.RLock and
\* whether or not the actor is still hired.
HandleMessageForbidden ==
    /\ routeIncoming = "refuse" \/ (routeIncoming = "handle" /\ ~subscribed)
    /\ routeIncoming' = "sending"
    /\ GoTo("router", "contract")
    /\ UNCHANGED <<incoming, outgoingVars, hirerSends, newsletterVars, lifeVars>>

\* The answer has been passed on or has failed: actorsMutex.RUnlock.
RouteIncomingSent ==
    /\ routeIncoming = "sending"
    /\ sender["router"] = "none"
    /\ routeIncoming' = "select"
    /\ UNCHANGED <<incoming, outgoingVars, sendVars, newsletterVars, lifeVars>>

\* case <-ctx.Done(): shutdown has released actorsMutex before it cancels.
RouteIncomingExit ==
    /\ routeIncoming = "select"
    /\ ~routerCtx
    /\ routeIncoming' = "exited"
    /\ UNCHANGED <<incoming, outgoingVars, sendVars, newsletterVars, lifeVars>>

\* The handler reads the message and answers it with Send.
HandlerRead ==
    /\ forwarder = "holding"
    /\ sender["handler"] = "none"
    /\ forwarder' = "receiving"
    /\ GoTo("handler", "contract")
    /\ UNCHANGED <<incomingVars, outgoingVars, hirerSends, subscribed, lifeVars>>

ForwarderClose ==
    /\ forwarder # "closed"
    /\ ~subscribed
    /\ forwarder' = "closed"
    /\ UNCHANGED <<incomingVars, outgoingVars, sendVars, subscribed, lifeVars>>

----------------------------------------------------------------------------
(* The contract's goroutine: fire().                                        *)

ActorContractCancel ==
    /\ engagement = "valid"
    /\ engagement' = "cancelled"
    /\ UNCHANGED <<incomingVars, outgoingVars, sendVars, newsletterVars, routerCtx,
                   linked, firing, stopping>>

\* The Context is done: contractMutex.Lock is announced ...
FireLock ==
    /\ engagement = "cancelled"
    /\ firing = "idle"
    /\ firing' = "lock"
    /\ UNCHANGED <<incomingVars, outgoingVars, sendVars, newsletterVars, routerCtx,
                   engagement, linked, stopping>>

\* ... and granted; forceSend tells the device.
FireSend ==
    /\ firing = "lock"
    /\ ContractReaders = {}
    /\ firing' = "send"
    /\ GoTo("fire", "connected")
    /\ UNCHANGED <<incomingVars, outgoingVars, hirerSends, newsletterVars, routerCtx,
                   engagement, linked, stopping>>

FireCommit ==
    /\ firing = "send"
    /\ sender["fire"] = "none"
    /\ engagement' = "none"
    /\ firing' = "cancelAll"
    /\ UNCHANGED <<incomingVars, outgoingVars, sendVars, newsletterVars, routerCtx,
                   linked, stopping>>

\* CancelAllSubscriptions waits for HandleMessage to return.
FireCancelSubscriptions ==
    /\ firing = "cancelAll"
    /\ routeIncoming # "handle"
    /\ subscribed' = FALSE
    /\ firing' = "done"
    /\ UNCHANGED <<incomingVars, outgoingVars, sendVars, forwarder, routerCtx,
                   engagement, linked, stopping>>

----------------------------------------------------------------------------
(* netActorDevice.shutdown.                                                 *)

\* actorsMutex.Lock is announced ...
ShutdownBegin ==
    /\ stopping = "running"
    /\ stopping' = "actors"
    /\ UNCHANGED <<incomingVars, outgoingVars, sendVars, newsletterVars, routerCtx,
                   engagement, linked, firing>>

\* ... and granted; then isConnectedMutex.Lock is announced ...
ShutdownLockActors ==
    /\ stopping = "actors"
    /\ ~ActorsReader
    /\ stopping' = "disconnect"
    /\ UNCHANGED <<incomingVars, outgoingVars, sendVars, newsletterVars, routerCtx,
                   engagement, linked, firing>>

\* Mutant: isConnected is written without isConnectedMutex.
ShutdownDisconnectUnlocked ==
    /\ stopping = "disconnect"
    /\ linked' = FALSE
    /\ stopping' = "contract"
    /\ UNCHANGED <<incomingVars, outgoingVars, sendVars, newsletterVars, routerCtx,
                   engagement, firing>>

\* ... and granted when no forceSend waits at the channel anymore.
ShutdownSetDisconnected ==
    /\ stopping = "disconnect"
    /\ ConnectedReaders = {}
    /\ linked' = FALSE
    /\ stopping' = "contract"
    /\ UNCHANGED <<incomingVars, outgoingVars, sendVars, newsletterVars, routerCtx,
                   engagement, firing>>

\* Mutant: the routers are not told to stop.
ShutdownKeepsRouters ==
    /\ stopping = "contract"
    /\ ContractRLock
    /\ engagement' = IF engagement = "valid" THEN "cancelled" ELSE engagement
    /\ stopping' = "wait"
    /\ UNCHANGED <<incomingVars, outgoingVars, sendVars, newsletterVars, routerCtx,
                   linked, firing>>

\* The contract is cancelled, actorsMutex is released, the routers are stopped.
ShutdownCancelContract ==
    /\ stopping = "contract"
    /\ ContractRLock
    /\ engagement' = IF engagement = "valid" THEN "cancelled" ELSE engagement
    /\ routerCtx' = FALSE
    /\ stopping' = "wait"
    /\ UNCHANGED <<incomingVars, outgoingVars, sendVars, newsletterVars,
                   linked, firing>>

\* routers.Wait
ShutdownReturn ==
    /\ stopping = "wait"
    /\ routeIncoming = "exited" /\ routeOutgoing = "exited"
    /\ stopping' = "done"
    /\ UNCHANGED <<incomingVars, outgoingVars, sendVars, newsletterVars, routerCtx,
                   engagement, linked, firing>>

----------------------------------------------------------------------------
\* The device is gone and every goroutine that served it has ended.
Terminated ==
    /\ stopping = "done"
    /\ firing = "done"
    /\ forwarder = "closed"
    /\ hirerSends = MaxHirerSends
    /\ \A s \in Senders : sender[s] = "none"
    /\ UNCHANGED routerVars

RoutersNext ==
    \/ \E s \in Senders : \/ SendCheckContract(s) \/ SendCheckConnected(s)
                          \/ RouteOutgoingReceive(s) \/ RouteOutgoingEncodeError(s)
    \/ HirerSend
    \/ RouteOutgoingPass \/ RouteOutgoingExit \/ OutgoingPumpSend \/ WritePump
    \/ RouteIncomingReceive \/ RouteIncomingLookup \/ HandleMessageForward
    \/ HandleMessageForbidden \/ RouteIncomingSent \/ RouteIncomingExit
    \/ HandlerRead \/ ForwarderClose
    \/ ActorContractCancel \/ FireLock \/ FireSend \/ FireCommit
    \/ FireCancelSubscriptions
    \/ ShutdownBegin \/ ShutdownLockActors \/ ShutdownSetDisconnected
    \/ ShutdownCancelContract \/ ShutdownReturn
    \/ Terminated

RoutersSpec == RoutersInit /\ [][RoutersNext]_routerVars

(* Goroutines that can run do run; a select that can go on forever chooses   *)
(* its context eventually.  Messages, cancellation and the loss of the       *)
(* connection are not promised.                                              *)
RoutersFairness ==
    /\ \A s \in Senders : /\ WF_routerVars(SendCheckContract(s))
                          /\ WF_routerVars(SendCheckConnected(s))
                          /\ SF_routerVars(RouteOutgoingReceive(s) \/ RouteOutgoingEncodeError(s))
    /\ WF_routerVars(RouteOutgoingPass) /\ SF_routerVars(RouteOutgoingExit)
    /\ WF_routerVars(OutgoingPumpSend) /\ WF_routerVars(WritePump)
    /\ WF_routerVars(RouteIncomingLookup) /\ WF_routerVars(RouteIncomingSent)
    /\ WF_routerVars(HandleMessageForward \/ HandleMessageForbidden)
    /\ SF_routerVars(RouteIncomingExit)
    /\ WF_routerVars(HandlerRead) /\ WF_routerVars(ForwarderClose)
    /\ WF_routerVars(FireLock) /\ WF_routerVars(FireSend)
    /\ WF_routerVars(FireCommit) /\ WF_routerVars(FireCancelSubscriptions)
    /\ WF_routerVars(ShutdownLockActors) /\ WF_routerVars(ShutdownSetDisconnected)
    /\ WF_routerVars(ShutdownCancelContract) /\ WF_routerVars(ShutdownReturn)

RoutersFairSpec == RoutersSpec /\ RoutersFairness

----------------------------------------------------------------------------
(* Properties. *)

\* When shutdown() has returned nobody waits at the routers' channel, where
\* nobody would ever take the message: forceSend saw isConnected in time.
NobodyLeftAtChannel ==
    /\ RoutersTypeOK
    /\ stopping = "done" => \A s \in Senders : sender[s] \notin {"channel", "error"}

\* The way out to the device is blocked for good, and somebody waits there:
\* routeOutgoing is gone, and a message was offered to it before shutdown set
\* isConnected (it could not encode another one), or by routeIncoming, which does
\* not look at isConnected; or it has a message for the pump, the pump has one for
\* the client's channel, and nobody drains that anymore.
Jammed ==
    \/ /\ routeOutgoing = "exited"
       /\ \E s \in Senders :
            \/ sender[s] = "channel" /\ stopping \in {"running", "actors", "disconnect"}
            \/ sender[s] = "error"
    \/ /\ routeOutgoing = "holding" /\ outgoingPump = "holding"
       /\ clientSend = ClientBuffer /\ stopping # "running"

\* shutdown(), which the gatekeeper calls with its own and the agency's mutex
\* held, returns unless the way out is jammed: locks and channels of routers,
\* senders and fire() form no other cycle. And the actor is fired and its
\* newsletter closed, so its handler ends: "it's easy to forget firing him and
\* this leads to severe goroutine leaks".
ShutdownReturns ==
    stopping = "actors"
        ~> (stopping = "done" /\ engagement = "none" /\ forwarder = "closed") \/ Jammed

\* Whoever sends in the actor's name gets through netActor.Send: the message is
\* taken by routeOutgoing, or the contract or the connection is found to be gone.
SendReturns == \A s \in Senders : sender[s] # "none" ~> (sender[s] = "none" \/ Jammed)
=============================================================================
