----------------------------- MODULE Gatekeeper -----------------------------
(***************************************************************************)
(* The way of a connection through the server: ws/hub.go registers the      *)
(* client and spawns AcceptClient and SayGoodbyeToClient, gatekeeping/      *)
(* net.go turns a client that says hello into an online device, starts its  *)
(* pumps and hands it to the agency (acting/acting.go), which runs a        *)
(* netActorDevice for it until the goodbye.  The store knows the devices.   *)
(*                                                                         *)
(* AcceptClient and SayGoodbyeToClient of one client are independent        *)
(* goroutines.  netActorDevice.shutdown is one step that takes its time:    *)
(* NetActorDevice.tla has its steps.                                        *)
(***************************************************************************)
EXTENDS Naturals

CONSTANTS
    Clients,          \* connections
    Devices,          \* device ids
    NoClient,
    NoDevice,
    MaxHellos,        \* bound: hello messages of one connection
    \* What devices and device managers may do:
    EarlyDisconnect,  \* drop the connection while the hello is being handled
    Overlap,          \* connect anew before the server noticed the loss of the old connection
    DeleteDevices     \* delete a device from the store

ASSUME ConstantsAssumption ==
    /\ NoClient \notin Clients
    /\ NoDevice \notin Devices
    /\ MaxHellos \in Nat
    /\ {EarlyDisconnect, Overlap, DeleteDevices} \subseteq BOOLEAN

VARIABLES
    connection,     \* Hub.clients: "new", "open", "closed"
    hellos,         \* hello messages in client.Receive
    sent,           \* hello messages sent so far
    accept,         \* AcceptClient
    device,         \* newDevice.ID of AcceptClient
    onlineDevices,  \* NetGatekeeper.onlineDevices
    goodbye,        \* SayGoodbyeToClient and the close of client.Send
    abandoned,      \* history: clients whose goodbye ended with a store's error
    pumps,          \* running pump pairs of the client
    pumpMessage,    \* messages that outgoing pumps hold for client.Send
    swallowed,      \* hello messages that incoming pumps hold for nobody
    actorDevices,   \* ProtectedAgency.actorDevices, by the client of the device
    running,        \* clients whose netActorDevice has running routers
    store,          \* devices in the store
    used,           \* device ids that were assigned once
    panicked        \* something was sent on a closed channel

hubVars == <<connection, hellos, sent>>
acceptVars == <<accept, device>>
pumpVars == <<pumps, pumpMessage, swallowed>>
agencyVars == <<actorDevices, running>>
storeVars == <<store, used>>
goodbyeVars == <<goodbye, abandoned>>
vars == <<hubVars, acceptVars, onlineDevices, goodbyeVars, pumpVars, agencyVars,
          storeVars, panicked>>

TypeOK ==
    /\ connection \in [Clients -> {"new", "open", "closed"}]
    /\ hellos \in [Clients -> 0..MaxHellos]
    /\ sent \in [Clients -> 0..MaxHellos]
    /\ accept \in [Clients -> {"none", "hello", "welcome", "enter", "protect", "done"}]
    /\ device \in [Clients -> Devices \cup {NoDevice}]
    /\ onlineDevices \in [Clients -> Devices \cup {NoDevice}]
    /\ goodbye \in [Clients -> {"none", "start", "agency", "close", "done"}]
    /\ abandoned \subseteq Clients
    /\ pumps \in [Clients -> 0..MaxHellos]
    /\ pumpMessage \in [Clients -> 0..MaxHellos]
    /\ swallowed \in [Clients -> 0..MaxHellos]
    /\ actorDevices \in [Devices -> Clients \cup {NoClient}]
    /\ running \subseteq Clients
    /\ store \subseteq used
    /\ used \subseteq Devices
    /\ panicked \in BOOLEAN

Init ==
    /\ connection = [c \in Clients |-> "new"]
    /\ hellos = [c \in Clients |-> 0] /\ sent = [c \in Clients |-> 0]
    /\ accept = [c \in Clients |-> "none"]
    /\ device = [c \in Clients |-> NoDevice]
    /\ onlineDevices = [c \in Clients |-> NoDevice]
    /\ goodbye = [c \in Clients |-> "none"] /\ abandoned = {}
    /\ pumps = [c \in Clients |-> 0] /\ pumpMessage = [c \in Clients |-> 0]
    /\ swallowed = [c \in Clients |-> 0]
    /\ actorDevices = [d \in Devices |-> NoClient]
    /\ running = {}
    /\ store = {} /\ used = {}
    /\ panicked = FALSE

----------------------------------------------------------------------------
\* SayGoodbyeToClient holds gk.m, and with it the agency's m, while the agency
\* shuts the device down.
MutexesFree == \A c \in Clients : goodbye[c] # "agency"

\* client.Send <- raw.  The hub closes the channel at the end of the goodbye;
\* the panic of a send on a closed channel ends the process.
SendToClient(c) == panicked' = (panicked \/ goodbye[c] = "done")

----------------------------------------------------------------------------
(* The hub and the client.                                                  *)

Register(c) ==
    /\ ~panicked
    /\ connection[c] = "new"
    /\ connection' = [connection EXCEPT ![c] = "open"]
    /\ accept' = [accept EXCEPT ![c] = "hello"]
    /\ UNCHANGED <<hellos, sent, device, onlineDevices, goodbyeVars, pumpVars, agencyVars,
                   storeVars, panicked>>

\* readPump forwards a hello; the client repeats it when it gets an error.
SendHello(c) ==
    /\ ~panicked
    /\ connection[c] = "open"
    /\ accept[c] = "hello" /\ hellos[c] = 0
    /\ sent[c] < MaxHellos
    /\ hellos' = [hellos EXCEPT ![c] = @ + 1]
    /\ sent' = [sent EXCEPT ![c] = @ + 1]
    /\ UNCHANGED <<connection, acceptVars, onlineDevices, goodbyeVars, pumpVars, agencyVars,
                   storeVars, panicked>>

\* readPump ends and unregisters; the hub spawns the goodbye.
Unregister(c) ==
    /\ ~panicked
    /\ connection[c] = "open"
    /\ EarlyDisconnect \/ accept[c] = "done" \/ (accept[c] = "hello" /\ hellos[c] = 0)
    /\ connection' = [connection EXCEPT ![c] = "closed"]
    /\ goodbye' = [goodbye EXCEPT ![c] = "start"]
    /\ UNCHANGED <<hellos, sent, abandoned, acceptVars, onlineDevices, pumpVars, agencyVars,
                   storeVars, panicked>>

----------------------------------------------------------------------------
(* AcceptClient.                                                            *)

\* No other connection of device d is still known to the server.
NoneConnectedAs(c, d) ==
    \A o \in Clients \ {c} : device[o] = d => goodbye[o] = "done"

\* handleHelloFromNewClient: the device is known, or is created with a new id.
\* Then the pumps are started.
HandleHello(c, d) ==
    /\ ~panicked
    /\ accept[c] = "hello" /\ hellos[c] > 0
    /\ d \in store \/ d \notin used
    /\ Overlap \/ NoneConnectedAs(c, d)
    /\ hellos' = [hellos EXCEPT ![c] = @ - 1]
    /\ device' = [device EXCEPT ![c] = d]
    /\ accept' = [accept EXCEPT ![c] = "welcome"]
    /\ store' = store \cup {d} /\ used' = used \cup {d}
    /\ pumps' = [pumps EXCEPT ![c] = @ + 1]
    /\ UNCHANGED <<connection, sent, onlineDevices, goodbyeVars, pumpMessage, swallowed,
                   agencyVars, panicked>>

\* The hello is malformed or the store fails, maybe after it has created the
\* device: the client is told and may retry.
HandleHelloError(c) ==
    /\ ~panicked
    /\ accept[c] = "hello" /\ hellos[c] > 0
    /\ hellos' = [hellos EXCEPT ![c] = @ - 1]
    /\ \/ UNCHANGED storeVars
       \/ \E d \in Devices \ used : store' = store \cup {d} /\ used' = used \cup {d}
    /\ SendToClient(c)
    /\ UNCHANGED <<connection, sent, acceptVars, onlineDevices, goodbyeVars, pumpVars,
                   agencyVars>>

\* newDevice.Send <- welcome, taken by the new outgoing pump.
SendWelcome(c) ==
    /\ ~panicked
    /\ accept[c] = "welcome"
    /\ pumpMessage' = [pumpMessage EXCEPT ![c] = @ + 1]
    /\ accept' = [accept EXCEPT ![c] = "enter"]
    /\ UNCHANGED <<hubVars, device, onlineDevices, goodbyeVars, pumps, swallowed,
                   agencyVars, storeVars, panicked>>

EnterOnlineDevices(c) ==
    /\ ~panicked
    /\ accept[c] = "enter"
    /\ MutexesFree
    /\ onlineDevices' = [onlineDevices EXCEPT ![c] = device[c]]
    /\ accept' = [accept EXCEPT ![c] = "protect"]
    /\ UNCHANGED <<hubVars, device, goodbyeVars, pumpVars, agencyVars, storeVars, panicked>>

\* Mutant: the booted device is not entered.
WelcomeDeviceUnentered(c) ==
    /\ ~panicked
    /\ accept[c] = "protect"
    /\ MutexesFree
    /\ running' = running \cup {c}
    /\ accept' = [accept EXCEPT ![c] = "done"]
    /\ UNCHANGED <<hubVars, device, onlineDevices, goodbyeVars, pumpVars, actorDevices,
                   storeVars, panicked>>

\* ProtectedAgency.WelcomeDevice boots a netActorDevice and enters it, also
\* over the one of an older connection of the same device.
WelcomeDevice(c) ==
    /\ ~panicked
    /\ accept[c] = "protect"
    /\ MutexesFree
    /\ actorDevices' = [actorDevices EXCEPT ![device[c]] = c]
    /\ running' = running \cup {c}
    /\ accept' = [accept EXCEPT ![c] = "done"]
    /\ UNCHANGED <<hubVars, device, onlineDevices, goodbyeVars, pumpVars, storeVars, panicked>>

\* boot() refuses an unknown role: the client is told, AcceptClient waits for
\* the next hello, and the pumps and the entry in onlineDevices stay.
WelcomeDeviceError(c) ==
    /\ ~panicked
    /\ accept[c] = "protect"
    /\ MutexesFree
    /\ SendToClient(c)
    /\ accept' = [accept EXCEPT ![c] = "hello"]
    /\ UNCHANGED <<hubVars, device, onlineDevices, goodbyeVars, pumpVars, agencyVars, storeVars>>

----------------------------------------------------------------------------
(* The pumps.                                                               *)

\* routeOutgoing of the device hands a message to the outgoing pump.
RouteOutgoing(c) ==
    /\ ~panicked
    /\ c \in running
    /\ pumps[c] > 0 /\ pumpMessage[c] = 0
    /\ pumpMessage' = [pumpMessage EXCEPT ![c] = 1]
    /\ UNCHANGED <<hubVars, acceptVars, onlineDevices, goodbyeVars, pumps, swallowed,
                   agencyVars, storeVars, panicked>>

\* deviceOutgoingPump: case send <- raw.
OutgoingPumpSend(c) ==
    /\ ~panicked
    /\ pumpMessage[c] > 0
    /\ pumpMessage' = [pumpMessage EXCEPT ![c] = @ - 1]
    /\ SendToClient(c)
    /\ UNCHANGED <<hubVars, acceptVars, onlineDevices, goodbyeVars, pumps, swallowed,
                   agencyVars, storeVars>>

\* deviceOutgoingPump: case <-ctx.Done() of a pump that was shut down.
OutgoingPumpAbort(c) ==
    /\ ~panicked
    /\ pumpMessage[c] > 0
    /\ goodbye[c] \in {"close", "done"} /\ onlineDevices[c] = NoDevice
    /\ pumpMessage' = [pumpMessage EXCEPT ![c] = @ - 1]
    /\ UNCHANGED <<hubVars, acceptVars, onlineDevices, goodbyeVars, pumps, swallowed,
                   agencyVars, storeVars, panicked>>

\* The incoming pump of a hello that failed late competes with AcceptClient for
\* the next hello, and offers it to a device that nobody serves.
IncomingPumpTake(c) ==
    /\ ~panicked
    /\ hellos[c] > 0
    /\ c \notin running
    /\ swallowed[c] < pumps[c]
    /\ hellos' = [hellos EXCEPT ![c] = @ - 1]
    /\ swallowed' = [swallowed EXCEPT ![c] = @ + 1]
    /\ UNCHANGED <<connection, sent, acceptVars, onlineDevices, goodbyeVars, pumps,
                   pumpMessage, agencyVars, storeVars, panicked>>

----------------------------------------------------------------------------
(* SayGoodbyeToClient, then close(c.Send).                                  *)

\* "Device did not complete hello-process."
GoodbyeNotOnline(c) ==
    /\ ~panicked
    /\ goodbye[c] = "start" /\ MutexesFree
    /\ onlineDevices[c] = NoDevice
    /\ goodbye' = [goodbye EXCEPT ![c] = "close"]
    /\ UNCHANGED <<hubVars, acceptVars, onlineDevices, abandoned, pumpVars, agencyVars,
                   storeVars, panicked>>

\* RefreshLastSeenForDevice fails, because the device was deleted or the database
\* does not answer: return, with the device online, its pumps and its
\* netActorDevice running.  Then client.Send is closed all the same.
GoodbyeStoreError(c) ==
    /\ ~panicked
    /\ goodbye[c] = "start" /\ MutexesFree
    /\ onlineDevices[c] # NoDevice
    /\ goodbye' = [goodbye EXCEPT ![c] = "close"]
    /\ abandoned' = abandoned \cup {c}
    /\ UNCHANGED <<hubVars, acceptVars, onlineDevices, pumpVars, agencyVars, storeVars, panicked>>

\* The agency begins to shut down what it runs under the device's id.
GoodbyeBegin(c) ==
    /\ ~panicked
    /\ goodbye[c] = "start" /\ MutexesFree
    /\ onlineDevices[c] \in store
    /\ goodbye' = [goodbye EXCEPT ![c] = "agency"]
    /\ UNCHANGED <<hubVars, acceptVars, onlineDevices, abandoned, pumpVars, agencyVars,
                   storeVars, panicked>>

\* Mutant: SayGoodbyeToDevice forgets to delete the device.
GoodbyeFinishKeepsDevice(c) ==
    LET d == onlineDevices[c] IN
    /\ ~panicked
    /\ goodbye[c] = "agency"
    /\ running' = running \ {actorDevices[d]}
    /\ UNCHANGED actorDevices
    /\ pumps' = [pumps EXCEPT ![c] = @ - 1]
    /\ onlineDevices' = [onlineDevices EXCEPT ![c] = NoDevice]
    /\ goodbye' = [goodbye EXCEPT ![c] = "close"]
    /\ UNCHANGED <<hubVars, abandoned, acceptVars, pumpMessage, swallowed, storeVars, panicked>>

\* Mutant: SayGoodbyeToDevice forgets to shut the device down.
GoodbyeFinishWithoutShutdown(c) ==
    LET d == onlineDevices[c] IN
    /\ ~panicked
    /\ goodbye[c] = "agency"
    /\ actorDevices' = [actorDevices EXCEPT ![d] = NoClient]
    /\ UNCHANGED running
    /\ pumps' = [pumps EXCEPT ![c] = @ - 1]
    /\ onlineDevices' = [onlineDevices EXCEPT ![c] = NoDevice]
    /\ goodbye' = [goodbye EXCEPT ![c] = "close"]
    /\ UNCHANGED <<hubVars, abandoned, acceptVars, pumpMessage, swallowed, storeVars, panicked>>

\* SayGoodbyeToDevice shuts that netActorDevice down and deletes it; the pumps
\* are shut down and the device is offline.
GoodbyeFinish(c) ==
    LET d == onlineDevices[c] IN
    /\ ~panicked
    /\ goodbye[c] = "agency"
    /\ running' = running \ {actorDevices[d]}
    /\ actorDevices' = [actorDevices EXCEPT ![d] = NoClient]
    /\ pumps' = [pumps EXCEPT ![c] = @ - 1]
    /\ onlineDevices' = [onlineDevices EXCEPT ![c] = NoDevice]
    /\ goodbye' = [goodbye EXCEPT ![c] = "close"]
    /\ UNCHANGED <<hubVars, abandoned, acceptVars, pumpMessage, swallowed, storeVars, panicked>>

\* Mutant: only a client that became a device gets its channel closed.
CloseSendOfDevice(c) ==
    /\ ~panicked
    /\ goodbye[c] = "close" /\ device[c] # NoDevice
    /\ goodbye' = [goodbye EXCEPT ![c] = "done"]
    /\ UNCHANGED <<hubVars, acceptVars, onlineDevices, abandoned, pumpVars, agencyVars,
                   storeVars, panicked>>

CloseSend(c) ==
    /\ ~panicked
    /\ goodbye[c] = "close"
    /\ goodbye' = [goodbye EXCEPT ![c] = "done"]
    /\ UNCHANGED <<hubVars, acceptVars, onlineDevices, abandoned, pumpVars, agencyVars,
                   storeVars, panicked>>

\* A device manager deletes a device, online or not.
DeleteDevice(d) ==
    /\ ~panicked
    /\ DeleteDevices
    /\ d \in store
    /\ store' = store \ {d}
    /\ UNCHANGED <<hubVars, acceptVars, onlineDevices, goodbyeVars, pumpVars, agencyVars,
                   used, panicked>>

----------------------------------------------------------------------------
Next ==
    \/ \E c \in Clients :
         \/ Register(c) \/ SendHello(c) \/ Unregister(c)
         \/ \E d \in Devices : HandleHello(c, d)
         \/ HandleHelloError(c) \/ SendWelcome(c) \/ EnterOnlineDevices(c)
         \/ WelcomeDevice(c) \/ WelcomeDeviceError(c)
         \/ RouteOutgoing(c) \/ OutgoingPumpSend(c) \/ OutgoingPumpAbort(c)
         \/ IncomingPumpTake(c)
         \/ GoodbyeNotOnline(c) \/ GoodbyeStoreError(c) \/ GoodbyeBegin(c)
         \/ GoodbyeFinish(c) \/ CloseSend(c)
    \/ \E d \in Devices : DeleteDevice(d)

Spec == Init /\ [][Next]_vars

(* AcceptClient and the goodbye goroutine run.  That shutdown() returns is   *)
(* an assumption here, the subject of NetActorDevice.tla.                    *)
Fairness ==
    \A c \in Clients :
        /\ WF_vars(HandleHelloError(c) \/ \E d \in Devices : HandleHello(c, d))
        /\ WF_vars(SendWelcome(c)) /\ WF_vars(EnterOnlineDevices(c))
        /\ WF_vars(WelcomeDevice(c) \/ WelcomeDeviceError(c))
        /\ WF_vars(GoodbyeNotOnline(c) \/ GoodbyeStoreError(c) \/ GoodbyeBegin(c))
        /\ WF_vars(GoodbyeFinish(c)) /\ WF_vars(CloseSend(c))

FairSpec == Spec /\ Fairness

----------------------------------------------------------------------------
(* Properties. *)

\* The agency has no entry for a netActorDevice that was already shut down, so
\* none is shut down twice (which would close the receive channels again).
AgencyKnowsOnlyRunning ==
    /\ TypeOK
    /\ \A d \in Devices : actorDevices[d] # NoClient =>
        actorDevices[d] \in running /\ device[actorDevices[d]] = d

\* "onlineDevices holds all devices that are currently online": when the server
\* is done with a connection, the gatekeeper does not list its device any more
\* and nothing of it is left running, unless the store failed at its own goodbye.
\* What is left of such a connection never leads to another one's being kept.
GoneIsForgotten ==
    \A c \in Clients : goodbye[c] = "done" /\ c \notin abandoned =>
        onlineDevices[c] = NoDevice /\ c \notin running

\* A client that completed the handshake, is still connected, and is the only
\* connection of its device, is served by its own netActorDevice:
\* SayGoodbyeToDevice "is called when a device disconnects".
ConnectedIsServed ==
    \A c \in Clients :
        /\ accept[c] = "done" /\ connection[c] = "open"
        /\ \A o \in Clients \ {c} : device[o] = device[c] => connection[o] # "open"
        => c \in running /\ actorDevices[device[c]] = c

\* A lost connection is cleaned up, whatever else is going on.
GoodbyeCompletes ==
    \A c \in Clients : connection[c] = "closed" ~> (goodbye[c] = "done" \/ panicked)

\* Gatekeeper and agency implement the promise of DeviceService.
Service == INSTANCE DeviceService WITH
    serving <- actorDevices,
    gone <- {c \in Clients : goodbye[c] \in {"close", "done"}},
    abandoned <- abandoned

ImplementsDeviceService == Service!Spec
=============================================================================
