----------------------------- MODULE MQTTBridge -----------------------------
(***************************************************************************)
(* mqttbridge/ with stores/mqtt.go: devices that talk MQTT are bridged to   *)
(* MASC. The first message of a device boots a bridge for it: a wrapper     *)
(* that says hello to the gatekeeper and runs the device (a Shelly 1), and  *)
(* a timer that ends the bridge's lifetime when no message arrives.         *)
(*                                                                         *)
(* The library calls the message handler for one message after the other.  *)
(* The handler holds bridge.m while it boots a device, in which it waits    *)
(* for the gatekeeper, and while it resets the timer. Gatekeeper.tla has    *)
(* the steps of AcceptClient for a connection; here it is what a bridge     *)
(* sees of it. Queues between the gatekeeper's pumps and the Shelly are     *)
(* left out: a message that is dropped there is one that never was.         *)
(***************************************************************************)
EXTENDS Naturals

CONSTANTS
    MQTTDevices,  \* mqtt ids that detectDevice finds in topics
    MaxBoots,     \* bound: bridges that are booted
    MQTTBuffer    \* mqttBuffer

ASSUME ConstantsAssumption ==
    MQTTDevices # {} /\ MaxBoots \in Nat /\ MQTTBuffer \in Nat \ {0}

Boots == 1..MaxBoots
NoBoot == 0
DeviceIDs == 1..MaxBoots
NoDevice == 0

VARIABLES
    done,           \* the server's context is done
    handler,        \* defaultMessageHandler: "idle", "accept", "meow" or "forward"
    boot,           \* the bridge that the handler works with
    boots,          \* bridges booted so far
    of,             \* the MQTT device of a bridge
    alive,          \* bridges whose lifetime is not done
    activeDevices,
    removers,       \* bridges whose remove listener has not returned
    claimed,        \* the device id that the hello holds
    accept,         \* AcceptClient for the bridge's client
    reply,          \* what the gatekeeper has for the client: "none", "welcome" or "error"
    assigned,       \* the device id in the welcome
    wrapper,        \* deviceWrapper.run
    online,         \* bridges whose client is in the gatekeeper's onlineDevices
    actorDevices,   \* the agency's entries, by the bridge of the device
    running,        \* bridges whose netActorDevice has running routers
    missed,         \* history: bridges whose goodbye did not end their own actors
    fromMQTT,       \* number of messages in the wrapper's buffer
    devices,        \* devices in the gatekeeper's store
    created,        \* device ids handed out
    mqttDevices     \* table mqtt_devices

handlerVars == <<handler, boot>>
bootVars == <<boots, of, claimed>>
agencyVars == <<actorDevices, running>>
gatekeeperVars == <<accept, reply, assigned, online, agencyVars>>
storeVars == <<devices, created, mqttDevices>>
vars == <<done, handlerVars, bootVars, alive, activeDevices, removers, gatekeeperVars,
          wrapper, missed, fromMQTT, storeVars>>

Init ==
    /\ done = FALSE
    /\ handler = "idle" /\ boot = NoBoot
    /\ boots = 0
    /\ of = [i \in Boots |-> CHOOSE d \in MQTTDevices : TRUE]
    /\ claimed = [i \in Boots |-> NoDevice]
    /\ alive = {} /\ removers = {} /\ online = {} /\ missed = {}
    /\ running = {} /\ actorDevices = [id \in DeviceIDs |-> NoBoot]
    /\ activeDevices = [d \in MQTTDevices |-> NoBoot]
    /\ accept = [i \in Boots |-> "off"]
    /\ reply = [i \in Boots |-> "none"]
    /\ assigned = [i \in Boots |-> NoDevice]
    /\ wrapper = [i \in Boots |-> "off"]
    /\ fromMQTT = [i \in Boots |-> 0]
    /\ devices = {} /\ created = 0
    /\ mqttDevices = [d \in MQTTDevices |-> NoDevice]

-----------------------------------------------------------------------------
(* The message handler. It holds bridge.m at "accept" and "meow".           *)

\* createAndBootDevice up to AcceptClient, with the id that the rememberer
\* knows. An error of the store returns before anything was started. A bridge that
\* is booted while the server shuts down has no lifetime.
CreateAndBootDevice(d) ==
    LET i == boots + 1 IN
    /\ i \in Boots
    /\ boots' = i
    /\ of' = [of EXCEPT ![i] = d]
    /\ claimed' = [claimed EXCEPT ![i] = mqttDevices[d]]
    /\ alive' = IF done THEN alive ELSE alive \cup {i}
    /\ wrapper' = [wrapper EXCEPT ![i] = "hello"]
    /\ accept' = [accept EXCEPT ![i] = "waiting"]
    /\ boot' = i /\ handler' = "accept"

\* Mutant: a bridge whose lifetime is over is replaced at once.
GetDeviceOrReplace(d) ==
    /\ handler = "idle"
    /\ IF activeDevices[d] \in alive
       THEN /\ boot' = activeDevices[d] /\ handler' = "meow"
            /\ UNCHANGED <<bootVars, alive, wrapper, accept>>
       ELSE CreateAndBootDevice(d)
    /\ UNCHANGED <<done, activeDevices, removers, reply, assigned, online, agencyVars,
                   missed, fromMQTT, storeVars>>

\* Messages still arrive while Disconnect waits for the client to finish.
GetDeviceOrCreate(d) ==
    /\ handler = "idle"
    /\ IF activeDevices[d] # NoBoot
       THEN /\ boot' = activeDevices[d] /\ handler' = "meow"
            /\ UNCHANGED <<bootVars, alive, wrapper, accept>>
       ELSE CreateAndBootDevice(d)
    /\ UNCHANGED <<done, activeDevices, removers, reply, assigned, online, agencyVars,
                   missed, fromMQTT, storeVars>>

\* The timer's goroutine takes the meow as long as the lifetime is not over.
Meow ==
    /\ handler = "meow" /\ (boot \in alive \/ done)
    /\ handler' = "forward"
    /\ UNCHANGED <<done, boot, bootVars, alive, activeDevices, removers, gatekeeperVars,
                   wrapper, missed, fromMQTT, storeVars>>

\* Mutant: waits for room in the buffer of a wrapper that may be gone.
HandleMQTTMessageBlocking ==
    /\ handler = "forward"
    /\ fromMQTT[boot] < MQTTBuffer /\ wrapper[boot] \notin {"ended", "gone"}
    /\ handler' = "idle" /\ boot' = NoBoot
    /\ fromMQTT' = [fromMQTT EXCEPT ![boot] = @ + 1]
    /\ UNCHANGED <<done, bootVars, alive, activeDevices, removers, gatekeeperVars,
                   wrapper, missed, storeVars>>

\* handleMQTTMessage: forwards, or drops the message when the buffer stays full.
\* The buffer of a wrapper that has returned is never read: its content counts
\* as dropped.
HandleMQTTMessage ==
    /\ handler = "forward"
    /\ handler' = "idle" /\ boot' = NoBoot
    /\ fromMQTT' = IF fromMQTT[boot] < MQTTBuffer /\ wrapper[boot] \notin {"ended", "gone"}
                   THEN [fromMQTT EXCEPT ![boot] = @ + 1] ELSE fromMQTT
    /\ UNCHANGED <<done, bootVars, alive, activeDevices, removers, gatekeeperVars,
                   wrapper, missed, storeVars>>

-----------------------------------------------------------------------------
(* AcceptClient of the gatekeeper, called by the handler.                   *)

\* The wrapper hands its hello over.
TakeHello(i) ==
    /\ accept[i] = "waiting" /\ wrapper[i] = "hello"
    /\ accept' = [accept EXCEPT ![i] = "hello"]
    /\ wrapper' = [wrapper EXCEPT ![i] = "welcome"]
    /\ UNCHANGED <<done, handlerVars, bootVars, alive, activeDevices, removers,
                   reply, assigned, online, agencyVars, missed, fromMQTT, storeVars>>

\* handleHelloFromNewClient: the claimed device or, when it is not in the
\* store, a new one; the welcome goes to the outgoing pump.
HandleHello(i) ==
    LET isKnown == claimed[i] \in devices
        id == IF isKnown THEN claimed[i] ELSE created + 1 IN
    /\ accept[i] = "hello"
    /\ created' = IF isKnown THEN created ELSE id
    /\ devices' = devices \cup {id}
    /\ assigned' = [assigned EXCEPT ![i] = id]
    /\ reply' = [reply EXCEPT ![i] = "welcome"]
    /\ accept' = [accept EXCEPT ![i] = "welcomed"]
    /\ UNCHANGED <<done, handlerVars, bootVars, alive, activeDevices, removers,
                   wrapper, online, agencyVars, missed, fromMQTT, mqttDevices>>

\* The store fails, maybe after it has created the device. An error is sent to
\* the client and AcceptClient waits for another hello.
HelloFails(i) ==
    /\ accept[i] = "hello"
    /\ accept' = [accept EXCEPT ![i] = "refused"]
    /\ reply' = [reply EXCEPT ![i] = "error"]
    /\ \/ UNCHANGED <<devices, created>>
       \/ /\ claimed[i] \notin devices
          /\ created' = created + 1 /\ devices' = devices \cup {created'}
    /\ UNCHANGED <<done, handlerVars, bootVars, alive, activeDevices, removers,
                   wrapper, assigned, online, agencyVars, missed, fromMQTT, mqttDevices>>

PutOnline(i) ==
    /\ accept[i] = "welcomed"
    /\ accept' = [accept EXCEPT ![i] = "online"]
    /\ online' = online \cup {i}
    /\ UNCHANGED <<done, handlerVars, bootVars, alive, activeDevices, removers,
                   wrapper, reply, assigned, agencyVars, missed, fromMQTT, storeVars>>

\* The agency enters the device, also over the actors that another bridge has
\* left there, AcceptClient returns, and the handler adds the bridge to
\* activeDevices with its remove listener.
WelcomeDevice(i) ==
    /\ accept[i] = "online" /\ handler = "accept" /\ boot = i
    /\ actorDevices' = [actorDevices EXCEPT ![assigned[i]] = i]
    /\ running' = running \cup {i}
    /\ accept' = [accept EXCEPT ![i] = "returned"]
    /\ activeDevices' = [activeDevices EXCEPT ![of[i]] = i]
    /\ removers' = removers \cup {i}
    /\ handler' = "meow"
    /\ UNCHANGED <<done, boot, bootVars, alive, wrapper, reply, assigned, online,
                   missed, fromMQTT, storeVars>>

\* The error races with the welcome that the outgoing pump still holds.
WelcomeFails(i) ==
    /\ accept[i] = "online"
    /\ accept' = [accept EXCEPT ![i] = "refused"]
    /\ \E r \in {reply[i], IF reply[i] = "welcome" THEN "error" ELSE reply[i]} :
        reply' = [reply EXCEPT ![i] = r]
    /\ UNCHANGED <<done, handlerVars, bootVars, alive, activeDevices, removers,
                   wrapper, assigned, online, agencyVars, missed, fromMQTT, storeVars>>

-----------------------------------------------------------------------------
(* The goroutines of a bridge: timer, remove listener and wrapper.          *)

\* runTimeout: deviceTimeout without a meow.
Timeout(i) ==
    /\ i \in alive
    /\ alive' = alive \ {i}
    /\ UNCHANGED <<done, handlerVars, bootVars, activeDevices, removers, gatekeeperVars,
                   wrapper, missed, fromMQTT, storeVars>>

\* removeActiveDevice needs bridge.m and deletes by MQTT device.
RemoveActiveDevice(i) ==
    /\ i \in removers /\ i \notin alive
    /\ handler \notin {"accept", "meow"}
    /\ activeDevices' = [activeDevices EXCEPT ![of[i]] = NoBoot]
    /\ removers' = removers \ {i}
    /\ UNCHANGED <<done, handlerVars, bootVars, alive, gatekeeperVars,
                   wrapper, missed, fromMQTT, storeVars>>

\* With the server's context done too, the listener may leave the entry.
RemoverReturns(i) ==
    /\ i \in removers /\ done
    /\ removers' = removers \ {i}
    /\ UNCHANGED <<done, handlerVars, bootVars, alive, activeDevices, gatekeeperVars,
                   wrapper, missed, fromMQTT, storeVars>>

WrapperGoes(i, to) == wrapper' = [wrapper EXCEPT ![i] = to]

\* deviceWrapper.run returns; nobody uses the Shelly and its buffer any more.
WrapperEnds(i) ==
    /\ WrapperGoes(i, "ended")
    /\ fromMQTT' = [fromMQTT EXCEPT ![i] = 0]

\* The wrapper's context is done: authenticate or the error group returns.
Cancel(i) ==
    /\ wrapper[i] \in {"hello", "welcome", "running"} /\ i \notin alive
    /\ WrapperEnds(i)
    /\ UNCHANGED <<done, handlerVars, bootVars, alive, activeDevices, removers, gatekeeperVars,
                   missed, storeVars>>

\* authenticate returns; a device id that was not claimed is to be remembered.
ReceiveReply(i) ==
    /\ wrapper[i] = "welcome" /\ reply[i] # "none"
    /\ reply' = [reply EXCEPT ![i] = "none"]
    /\ IF reply[i] = "error"
       THEN WrapperEnds(i)
       ELSE /\ WrapperGoes(i, IF assigned[i] # claimed[i] THEN "remember" ELSE "running")
            /\ UNCHANGED fromMQTT
    /\ UNCHANGED <<done, handlerVars, bootVars, alive, activeDevices, removers, accept,
                   assigned, online, agencyVars, missed, storeVars>>

\* Mutant: runs without having remembered the device.
RunUnremembered(i) ==
    /\ wrapper[i] = "remember"
    /\ WrapperGoes(i, "running")
    /\ UNCHANGED <<done, handlerVars, bootVars, alive, activeDevices, removers, gatekeeperVars,
                   missed, fromMQTT, storeVars>>

\* RememberDevice inserts a row, which fails when the MQTT device has one.
RememberDevice(i) ==
    /\ wrapper[i] = "remember" /\ mqttDevices[of[i]] = NoDevice
    /\ mqttDevices' = [mqttDevices EXCEPT ![of[i]] = assigned[i]]
    /\ WrapperGoes(i, "running")
    /\ UNCHANGED <<done, handlerVars, bootVars, alive, activeDevices, removers, gatekeeperVars,
                   missed, fromMQTT, devices, created>>

\* An error ends the wrapper but neither the lifetime nor the timer.
RememberFails(i) ==
    /\ wrapper[i] = "remember"
    /\ WrapperEnds(i)
    /\ UNCHANGED <<done, handlerVars, bootVars, alive, activeDevices, removers, gatekeeperVars,
                   missed, storeVars>>

\* The device is looked up by its client, its actors by its id: they may be those
\* of a bridge that was booted since.
TakeOffline(i) ==
    LET id == assigned[i] IN
    /\ i \in online /\ id \in devices
    /\ online' = online \ {i}
    /\ actorDevices' = [actorDevices EXCEPT ![id] = NoBoot]
    /\ running' = running \ {actorDevices[id]}
    /\ missed' = IF actorDevices[id] = i THEN missed ELSE missed \cup {i}

\* Mutant: the goodbye is only said when the lifetime is over, not after an error.
SayGoodbyeOnTimeout(i) ==
    /\ wrapper[i] = "ended"
    /\ WrapperGoes(i, "gone")
    /\ IF i \in alive THEN UNCHANGED <<online, agencyVars, missed>>
       ELSE \/ TakeOffline(i)
            \/ missed' = missed \cup {i} /\ UNCHANGED <<online, agencyVars>>
    /\ UNCHANGED <<done, handlerVars, bootVars, alive, activeDevices, removers, accept, reply,
                   assigned, fromMQTT, storeVars>>

\* The deferred SayGoodbyeToClient. It has no effect when the device is not
\* online yet, and when RefreshLastSeenForDevice fails, because the device was
\* deleted or the database does not answer.
SayGoodbyeToClient(i) ==
    /\ wrapper[i] = "ended"
    /\ WrapperGoes(i, "gone")
    /\ \/ TakeOffline(i)
       \/ missed' = missed \cup {i} /\ UNCHANGED <<online, agencyVars>>
    /\ UNCHANGED <<done, handlerVars, bootVars, alive, activeDevices, removers, accept, reply,
                   assigned, fromMQTT, storeVars>>

-----------------------------------------------------------------------------
(* netShelliesShelly1.run: one message after the other, from either side.   *)

\* The message to MASC or to the broker is not taken within forwardTimeout.
PublishFails(i) ==
    /\ WrapperEnds(i)
    /\ UNCHANGED <<done, handlerVars, bootVars, alive, activeDevices, removers, gatekeeperVars,
                   missed, storeVars>>

\* Messages of the Shelly lead to at most one publication: its own relay state
\* when it reports another one, the state of the input, nothing without an actor.
HandleFromMQTT(i) ==
    /\ wrapper[i] = "running" /\ fromMQTT[i] > 0
    /\ \/ PublishFails(i)
       \/ /\ fromMQTT' = [fromMQTT EXCEPT ![i] = @ - 1]
          /\ UNCHANGED <<done, handlerVars, bootVars, alive, activeDevices, removers,
                         gatekeeperVars, wrapper, missed, storeVars>>

\* So do messages of MASC: the relay command for a fixture state, offers,
\* nothing for an assigned actor. Without an error the bridge is as before.
HandleFromMASC(i) ==
    /\ wrapper[i] = "running" /\ i \in online
    /\ PublishFails(i)

-----------------------------------------------------------------------------
\* A device manager deletes a device; mqtt_devices keeps its row.
DeleteDevice(id) ==
    /\ id \in devices
    /\ devices' = devices \ {id}
    /\ UNCHANGED <<done, handlerVars, bootVars, alive, activeDevices, removers, gatekeeperVars,
                   wrapper, missed, fromMQTT, created, mqttDevices>>

\* The server shuts down: every lifetime is a child of its context.
Shutdown ==
    /\ ~done
    /\ done' = TRUE
    /\ alive' = {}
    /\ UNCHANGED <<handlerVars, bootVars, activeDevices, removers, gatekeeperVars,
                   wrapper, missed, fromMQTT, storeVars>>

AcceptClient(i) ==
    \/ TakeHello(i) \/ HandleHello(i) \/ HelloFails(i) \/ PutOnline(i)
    \/ WelcomeDevice(i) \/ WelcomeFails(i)

Wrapper(i) ==
    \/ Cancel(i) \/ ReceiveReply(i) \/ RememberDevice(i) \/ RememberFails(i)
    \/ SayGoodbyeToClient(i) \/ HandleFromMQTT(i)

Next ==
    \/ \E d \in MQTTDevices : GetDeviceOrCreate(d)
    \/ Meow \/ HandleMQTTMessage
    \/ \E i \in Boots :
        \/ AcceptClient(i) \/ Timeout(i) \/ RemoveActiveDevice(i) \/ RemoverReturns(i)
        \/ Wrapper(i)
        \/ HandleFromMASC(i)
    \/ \E id \in DeviceIDs : DeleteDevice(id)
    \/ Shutdown

Spec == Init /\ [][Next]_vars

\* Goroutines that can go on do so, and Go's mutexes do not starve: the remove
\* listener gets bridge.m although messages of other devices keep coming. A select
\* that can go on forever chooses its context eventually.
Fairness ==
    /\ WF_vars(Meow \/ HandleMQTTMessage)
    /\ \A i \in Boots :
        /\ WF_vars(AcceptClient(i)) /\ SF_vars(RemoveActiveDevice(i))
        /\ WF_vars(Wrapper(i)) /\ WF_vars(Cancel(i))

FairSpec == Spec /\ Fairness

-----------------------------------------------------------------------------
TypeOK ==
    /\ done \in BOOLEAN
    /\ handler \in {"idle", "accept", "meow", "forward"}
    /\ boot \in Boots \cup {NoBoot}
    /\ boots \in 0..MaxBoots /\ of \in [Boots -> MQTTDevices]
    /\ alive \subseteq Boots /\ removers \subseteq Boots
    /\ online \subseteq Boots /\ missed \subseteq Boots /\ running \subseteq Boots
    /\ actorDevices \in [DeviceIDs -> Boots \cup {NoBoot}]
    /\ activeDevices \in [MQTTDevices -> Boots \cup {NoBoot}]
    /\ claimed \in [Boots -> DeviceIDs \cup {NoDevice}]
    /\ accept \in [Boots -> {"off", "waiting", "hello", "welcomed", "online", "returned", "refused"}]
    /\ reply \in [Boots -> {"none", "welcome", "error"}]
    /\ assigned \in [Boots -> DeviceIDs \cup {NoDevice}]
    /\ wrapper \in [Boots -> {"off", "hello", "welcome", "remember", "running", "ended", "gone"}]
    /\ fromMQTT \in [Boots -> 0..MQTTBuffer]
    /\ devices \subseteq DeviceIDs /\ created \in 0..MaxBoots
    /\ mqttDevices \in [MQTTDevices -> DeviceIDs \cup {NoDevice}]

\* An MQTT device has at most one bridge whose lifetime is not over, and
\* messages find it: it is the entry of the device, or the handler is at it.
\* removeActiveDevice deletes by device and never hits a successor.
OneBridge ==
    /\ TypeOK
    /\ \A i \in alive :
        /\ \A j \in alive : of[i] = of[j] => i = j
        /\ activeDevices[of[i]] = i \/ (handler = "accept" /\ boot = i)

\* A device that runs is remembered under the id it runs with, so all bridges
\* of an MQTT device are the same device to MASC, over timeouts, deletions of
\* the device and failed inserts.
RunsAsRemembered ==
    \A i \in Boots : wrapper[i] = "running" => assigned[i] = mqttDevices[of[i]]

\* The handler holds bridge.m and nobody will get it to go on: the gatekeeper
\* waits for a hello that the wrapper does not send, or the timer is gone that
\* took the meow.
Jammed ==
    \/ /\ handler = "accept"
       /\ \/ accept[boot] = "refused"
          \/ accept[boot] = "waiting" /\ wrapper[boot] \in {"ended", "gone"}
    \/ handler = "meow" /\ boot \notin alive /\ ~done

\* Every message is handled at last, unless the bridge is jammed.
HandlerReturns == handler # "idle" ~> handler = "idle" \/ Jammed

\* A bridge whose lifetime is over says goodbye, takes its device offline with the
\* actors that it had, and makes room for the next one, unless the bridge is
\* jammed, or the goodbye did not reach its own actors: it came before the agency
\* had welcomed the device or after it had welcomed the next bridge's, or the
\* store failed. A shutdown may leave the entry.
SilentGoesOffline ==
    \A i \in Boots :
        i <= boots /\ i \notin alive ~>
            \/ Jammed
            \/ /\ wrapper[i] = "gone"
               /\ i \notin online \cup running \/ i \in missed
               /\ \A d \in MQTTDevices : activeDevices[d] # i \/ done
=============================================================================
