-------------------------- MODULE MQTTBridgeProofs --------------------------
(***************************************************************************)
(* What TLAPS proves of MQTTBridge, for any number of MQTT devices and of   *)
(* bridges that are booted for them: a device has one bridge at a time,     *)
(* runs under the id that is remembered for it and leaves no entry behind;  *)
(* and the message handler is jammed in no other way than Jammed, for good. *)
(***************************************************************************)
EXTENDS MQTTBridge, TLAPS

\* bridge.m is held from the boot of a bridge to its entry: bridges are booted
\* one after the other, so that every bridge but the one at hand has returned
\* from AcceptClient, and each of them has created at most one device.
OneBoots ==
    /\ \A i \in Boots :
         /\ i > boots => accept[i] = "off" /\ i \notin alive \cup removers /\ wrapper[i] = "off"
         /\ i <= boots => accept[i] = "returned" \/ (handler = "accept" /\ boot = i)
    /\ handler = "accept" => boot = boots /\ boot # NoBoot /\ accept[boot] \notin {"off", "returned"}
    /\ handler \in {"meow", "forward"} => boot # NoBoot
    /\ created <= boots
    /\ handler = "accept" /\ accept[boot] \in {"waiting", "hello"} => created < boots

\* A bridge whose lifetime is not over is the entry of its device, or about to
\* become it; a remove listener removes the entry of its own bridge.
Entries ==
    /\ \A i \in alive : activeDevices[of[i]] = i \/ (handler = "accept" /\ boot = i)
    /\ \A i \in removers : activeDevices[of[i]] = i
    /\ handler = "accept" => activeDevices[of[boot]] = NoBoot

\* The id that a bridge claims is the one that is remembered, none is assigned
\* before the gatekeeper has answered, and a row is written once.
Remembered ==
    \A i \in Boots :
        /\ accept[i] \in {"off", "waiting", "hello"} =>
             wrapper[i] \notin {"remember", "running"} /\ reply[i] = "none"
        /\ reply[i] = "welcome" \/ wrapper[i] \in {"remember", "running"} => assigned[i] # NoDevice
        /\ i <= boots => claimed[i] \in {NoDevice, mqttDevices[of[i]]}
        /\ wrapper[i] = "running" => assigned[i] = mqttDevices[of[i]]

IInv == TypeOK /\ OneBoots /\ Entries /\ Remembered

\* At the start there is no bridge and no row.
LEMMA InitInvariant == Init => IInv
<1> SUFFICES ASSUME Init PROVE IInv
  OBVIOUS
<1> USE ConstantsAssumption DEF Init, NoBoot, NoDevice, Boots, DeviceIDs
<1>1. (CHOOSE d \in MQTTDevices : TRUE) \in MQTTDevices
  OBVIOUS
<1>2. TypeOK
  <2>1. of \in [Boots -> MQTTDevices]
    BY <1>1
  <2>2. boots \in 0..MaxBoots /\ created \in 0..MaxBoots /\ fromMQTT \in [Boots -> 0..MQTTBuffer]
    OBVIOUS
  <2> HIDE DEF Boots, DeviceIDs
  <2>3. QED BY <2>1, <2>2 DEF TypeOK
<1>3. OneBoots
  BY DEF OneBoots
<1>4. Entries
  BY DEF Entries
<1>5. Remembered
  BY DEF Remembered
<1>6. QED BY <1>2, <1>3, <1>4, <1>5 DEF IInv

\* The first message of a device boots a bridge, the next ones find it.
LEMMA HandlerKeepsInvariant ==
    ASSUME IInv, (\E d \in MQTTDevices : GetDeviceOrCreate(d)) \/ Meow \/ HandleMQTTMessage
    PROVE  IInv'
<1> USE DEF IInv, TypeOK, bootVars, gatekeeperVars, agencyVars, storeVars
<1>1. ASSUME NEW d \in MQTTDevices, GetDeviceOrCreate(d), activeDevices[d] # NoBoot PROVE IInv'
  <2>1. /\ UNCHANGED <<done, boots, of, claimed, alive, activeDevices, removers, accept, reply,
                       assigned, online, actorDevices, running, wrapper, missed, fromMQTT,
                       devices, created, mqttDevices>>
        /\ boot' = activeDevices[d] /\ handler' = "meow" /\ handler = "idle"
    BY <1>1 DEF GetDeviceOrCreate
  <2>2. TypeOK'
    BY <2>1
  <2>3. OneBoots' /\ Entries' /\ Remembered'
    BY <1>1, <2>1 DEF OneBoots, Entries, Remembered
  <2>4. QED BY <2>2, <2>3
<1>2. ASSUME NEW d \in MQTTDevices, GetDeviceOrCreate(d), activeDevices[d] = NoBoot PROVE IInv'
  <2> DEFINE b == boots + 1
  <2>1. /\ handler = "idle" /\ handler' = "accept"
        /\ b \in Boots /\ boots' = b /\ boot' = b
        /\ of' = [of EXCEPT ![b] = d] /\ claimed' = [claimed EXCEPT ![b] = mqttDevices[d]]
        /\ alive' \in {alive, alive \cup {b}}
        /\ wrapper' = [wrapper EXCEPT ![b] = "hello"] /\ accept' = [accept EXCEPT ![b] = "waiting"]
        /\ UNCHANGED <<done, activeDevices, removers, reply, assigned, online, actorDevices,
                       running, missed, fromMQTT, devices, created, mqttDevices>>
    BY <1>2 DEF GetDeviceOrCreate, CreateAndBootDevice
  <2>2. b \notin alive \cup removers /\ b \in 0..MaxBoots /\ b # NoBoot /\ accept[b] = "off"
    BY <2>1, ConstantsAssumption DEF OneBoots, Boots, NoBoot
  <2>3. \A i \in Boots : (i > b => i > boots) /\ (i <= b => i <= boots \/ i = b)
    BY <2>1, ConstantsAssumption DEF Boots
  <2>4. created <= b /\ created < b
    BY ConstantsAssumption DEF OneBoots
  <2> HIDE DEF b
  <2>5. TypeOK'
    BY <2>1, <2>2
  <2>6. OneBoots'
    BY <2>1, <2>2, <2>3, <2>4 DEF OneBoots
  <2>7. Entries'
    BY <1>2, <2>1, <2>2 DEF Entries
  <2>8. Remembered'
    BY <2>1, <2>2, <2>3 DEF Remembered
  <2>9. QED BY <2>5, <2>6, <2>7, <2>8
<1>3. CASE Meow
  BY <1>3 DEF Meow, OneBoots, Entries, Remembered
<1>4. CASE HandleMQTTMessage
  <2>1. boot \in Boots
    BY <1>4 DEF HandleMQTTMessage, OneBoots
  <2>2. fromMQTT' \in [Boots -> 0..MQTTBuffer]
    BY <1>4, <2>1, ConstantsAssumption DEF HandleMQTTMessage
  <2>3. QED BY <1>4, <2>2 DEF HandleMQTTMessage, OneBoots, Entries, Remembered
<1>5. QED BY <1>1, <1>2, <1>3, <1>4

\* AcceptClient of a bridge: the hello, the answer and the return.
LEMMA AcceptKeepsInvariant ==
    ASSUME IInv, NEW i \in Boots, AcceptClient(i)
    PROVE  IInv'
<1> USE DEF IInv, TypeOK, handlerVars, bootVars, agencyVars, storeVars
<1>1. CASE TakeHello(i)
  <2>1. TypeOK'
    BY <1>1 DEF TakeHello
  <2>2. OneBoots' /\ Entries'
    BY <1>1 DEF TakeHello, OneBoots, Entries
  <2>3. Remembered'
    BY <1>1 DEF TakeHello, Remembered
  <2>4. QED BY <2>1, <2>2, <2>3
<1>2. CASE HandleHello(i)
  <2>1. i <= boots /\ handler = "accept" /\ boot = i /\ created < boots
    <3>1. i <= boots
      BY <1>2 DEF HandleHello, OneBoots, Boots
    <3>2. QED BY <1>2, <3>1 DEF HandleHello, OneBoots
  <2> DEFINE id == IF claimed[i] \in devices THEN claimed[i] ELSE created + 1
  <2>2. /\ id \in DeviceIDs /\ id # NoDevice
        /\ created' \in 0..MaxBoots /\ created' <= boots
        /\ devices' = devices \cup {id} /\ assigned' = [assigned EXCEPT ![i] = id]
    <3>1. created + 1 \in DeviceIDs /\ created + 1 <= boots /\ created + 1 \in 0..MaxBoots
      BY <2>1, ConstantsAssumption DEF DeviceIDs
    <3>2. id \in DeviceIDs
      BY <3>1
    <3>3. id # NoDevice
      BY <3>2 DEF DeviceIDs, NoDevice
    <3>4. QED BY <1>2, <3>1, <3>2, <3>3 DEF HandleHello, OneBoots
  <2> HIDE DEF id
  <2>3. TypeOK'
    BY <1>2, <2>2 DEF HandleHello
  <2>4. OneBoots'
    BY <1>2, <2>1, <2>2 DEF HandleHello, OneBoots
  <2>5. Entries'
    BY <1>2 DEF HandleHello, Entries
  <2>6. Remembered'
    BY <1>2, <2>2 DEF HandleHello, Remembered
  <2>7. QED BY <2>3, <2>4, <2>5, <2>6
<1>3. CASE HelloFails(i)
  <2>1. handler = "accept" /\ boot = i /\ created < boots
    <3>1. i <= boots
      BY <1>3 DEF HelloFails, OneBoots, Boots
    <3>2. QED BY <1>3, <3>1 DEF HelloFails, OneBoots
  <2>2. created' \in 0..MaxBoots /\ created' <= boots /\ devices' \subseteq DeviceIDs
    <3>1. created + 1 \in DeviceIDs /\ created + 1 <= boots /\ created + 1 \in 0..MaxBoots
      BY <2>1, ConstantsAssumption DEF DeviceIDs
    <3>2. QED BY <1>3, <2>1, <3>1 DEF HelloFails, OneBoots
  <2>3. TypeOK'
    BY <1>3, <2>2 DEF HelloFails
  <2>4. OneBoots'
    BY <1>3, <2>1, <2>2 DEF HelloFails, OneBoots
  <2>5. Entries' /\ Remembered'
    BY <1>3 DEF HelloFails, Entries, Remembered
  <2>6. QED BY <2>3, <2>4, <2>5
<1>4. CASE PutOnline(i)
  <2>1. TypeOK'
    BY <1>4 DEF PutOnline
  <2>2. OneBoots' /\ Entries' /\ Remembered'
    BY <1>4 DEF PutOnline, OneBoots, Entries, Remembered
  <2>3. QED BY <2>1, <2>2
<1>5. CASE WelcomeDevice(i)
  <2>1. TypeOK'
    BY <1>5 DEF WelcomeDevice
  <2>2. OneBoots'
    BY <1>5 DEF WelcomeDevice, OneBoots
  <2>3. Entries'
    <3>1. NoBoot \notin Boots
      BY DEF NoBoot, Boots
    <3>2. QED BY <1>5, <3>1 DEF WelcomeDevice, Entries
  <2>4. Remembered'
    BY <1>5 DEF WelcomeDevice, Remembered
  <2>5. QED BY <2>1, <2>2, <2>3, <2>4
<1>6. CASE WelcomeFails(i)
  <2>1. PICK r \in {reply[i], "error"} : reply' = [reply EXCEPT ![i] = r]
    BY <1>6 DEF WelcomeFails
  <2>2. TypeOK'
    BY <1>6, <2>1 DEF WelcomeFails
  <2>3. OneBoots' /\ Entries'
    BY <1>6 DEF WelcomeFails, OneBoots, Entries
  <2>4. Remembered'
    BY <1>6, <2>1 DEF WelcomeFails, Remembered
  <2>5. QED BY <2>2, <2>3, <2>4
<1>7. QED BY <1>1, <1>2, <1>3, <1>4, <1>5, <1>6 DEF AcceptClient

\* removeActiveDevice finds its own bridge in the entry of the device.
LEMMA LifetimeKeepsInvariant ==
    ASSUME IInv, Shutdown \/ \E i \in Boots : Timeout(i) \/ RemoveActiveDevice(i) \/ RemoverReturns(i)
    PROVE  IInv'
<1> USE DEF IInv, TypeOK, handlerVars, bootVars, gatekeeperVars, agencyVars, storeVars
<1>1. CASE Shutdown
  BY <1>1 DEF Shutdown, OneBoots, Entries, Remembered
<1>2. ASSUME NEW i \in Boots, Timeout(i) \/ RemoverReturns(i) PROVE IInv'
  BY <1>2 DEF Timeout, RemoverReturns, OneBoots, Entries, Remembered
<1>3. ASSUME NEW i \in Boots, RemoveActiveDevice(i) PROVE IInv'
  BY <1>3 DEF RemoveActiveDevice, OneBoots, Entries, Remembered
<1>4. QED BY <1>1, <1>2, <1>3

\* The wrapper of a bridge, and the id that it remembers.
LEMMA WrapperKeepsInvariant ==
    ASSUME IInv, NEW i \in Boots, Wrapper(i) \/ HandleFromMASC(i)
    PROVE  IInv'
<1> USE ConstantsAssumption
    DEF IInv, TypeOK, handlerVars, bootVars, gatekeeperVars, agencyVars, storeVars, WrapperGoes, WrapperEnds
<1>1. CASE Cancel(i) \/ RememberFails(i) \/ HandleFromMASC(i)
  BY <1>1 DEF Cancel, RememberFails, HandleFromMASC, PublishFails, OneBoots, Entries, Remembered
<1>2. CASE ReceiveReply(i)
  <2>1. CASE reply[i] = "error"
    BY <1>2, <2>1 DEF ReceiveReply, OneBoots, Entries, Remembered
  <2>2. CASE reply[i] = "welcome"
    <3>1. assigned[i] = claimed[i] => assigned[i] = mqttDevices[of[i]]
      BY <1>2, <2>2 DEF ReceiveReply, OneBoots, Remembered, Boots
    <3>2. PICK w \in {"remember", "running"} :
            /\ wrapper' = [wrapper EXCEPT ![i] = w]
            /\ w = "running" => assigned[i] = mqttDevices[of[i]]
      BY <1>2, <2>2, <3>1 DEF ReceiveReply
    <3>3. QED BY <1>2, <2>2, <3>2 DEF ReceiveReply, OneBoots, Entries, Remembered
  <2>3. QED BY <1>2, <2>1, <2>2 DEF ReceiveReply
<1>3. CASE RememberDevice(i)
  <2>1. TypeOK' /\ OneBoots' /\ Entries'
    BY <1>3 DEF RememberDevice, OneBoots, Entries, Remembered
  <2>2. Remembered'
    BY <1>3 DEF RememberDevice, OneBoots, Remembered
  <2>3. QED BY <2>1, <2>2
<1>4. CASE SayGoodbyeToClient(i)
  <2>1. TypeOK'
    BY <1>4 DEF SayGoodbyeToClient, TakeOffline
  <2>2. OneBoots'
    BY <1>4 DEF SayGoodbyeToClient, OneBoots
  <2>3. Entries' /\ Remembered'
    BY <1>4 DEF SayGoodbyeToClient, OneBoots, Entries, Remembered
  <2>4. QED BY <2>1, <2>2, <2>3
<1>5. CASE HandleFromMQTT(i)
  BY <1>5 DEF HandleFromMQTT, PublishFails, OneBoots, Entries, Remembered
<1>6. QED BY <1>1, <1>2, <1>3, <1>4, <1>5 DEF Wrapper

\* Every step keeps the invariant.
LEMMA InductiveInvariant == IInv /\ [Next]_vars => IInv'
<1> SUFFICES ASSUME IInv, [Next]_vars PROVE IInv'
  OBVIOUS
<1>1. CASE UNCHANGED vars
  BY <1>1 DEF IInv, TypeOK, OneBoots, Entries, Remembered, vars, handlerVars, bootVars,
     gatekeeperVars, agencyVars, storeVars
<1>2. ASSUME NEW id \in DeviceIDs, DeleteDevice(id) PROVE IInv'
  BY <1>2 DEF DeleteDevice, IInv, TypeOK, OneBoots, Entries, Remembered, handlerVars, bootVars,
     gatekeeperVars, agencyVars
<1>3. QED BY <1>1, <1>2, HandlerKeepsInvariant, AcceptKeepsInvariant, LifetimeKeepsInvariant,
          WrapperKeepsInvariant DEF Next

\* Whatever times out, is deleted or fails: an MQTT device has at most one
\* living bridge and its messages find it.
THEOREM OnlyOneBridge == Spec => []OneBridge
<1>1. IInv => OneBridge
  BY DEF IInv, TypeOK, OneBoots, Entries, OneBridge, NoBoot, Boots
<1>2. QED BY <1>1, InitInvariant, InductiveInvariant, PTL DEF Spec

\* Every bridge of an MQTT device that runs is the same device to MASC, the
\* one that mqtt_devices holds.
THEOREM AlwaysRunsAsRemembered == Spec => []RunsAsRemembered
<1>1. IInv => RunsAsRemembered
  BY DEF IInv, Remembered, RunsAsRemembered
<1>2. QED BY <1>1, InitInvariant, InductiveInvariant, PTL DEF Spec

-----------------------------------------------------------------------------
(* Entries and goodbyes.                                                    *)

\* A remove listener is there for every entry of activeDevices, unless the
\* server is shutting down, and it will delete the entry of its own bridge.
ListenerForEntry ==
    \A d \in MQTTDevices :
        activeDevices[d] # NoBoot =>
            /\ of[activeDevices[d]] = d /\ activeDevices[d] <= boots
            /\ activeDevices[d] \in removers \/ done

\* A bridge that has got its goodbye through had been welcomed by the agency, so
\* AcceptClient is past the steps that put it online and start its actors.
GoodbyeIsLate ==
    \A i \in Boots :
        /\ i \in online => accept[i] \in {"online", "returned", "refused"}
        /\ wrapper[i] = "gone" /\ i \notin missed =>
             i \notin online \cup running /\ accept[i] = "returned"

\* An entry of the agency leads to actors that run, of the device with that id; a
\* bridge whose actors run has returned from AcceptClient.
AgencyEntries ==
    /\ \A id \in DeviceIDs : actorDevices[id] # NoBoot =>
         actorDevices[id] \in running /\ assigned[actorDevices[id]] = id
    /\ \A i \in running : accept[i] = "returned"

\* While AcceptClient waits the wrapper has its hello still to send, or none.
WaitingForHello ==
    \A i \in Boots : accept[i] = "waiting" => wrapper[i] \in {"hello", "ended", "gone"}

Bookkeeping == ListenerForEntry /\ GoodbyeIsLate /\ AgencyEntries /\ WaitingForHello

\* At the start there are no entries, no goodbyes and no hellos.
LEMMA BookkeepingInit == Init => Bookkeeping
<1> SUFFICES ASSUME Init PROVE Bookkeeping
  OBVIOUS
<1>1. ListenerForEntry
  BY DEF Init, ListenerForEntry
<1>2. GoodbyeIsLate /\ AgencyEntries /\ WaitingForHello
  BY DEF Init, GoodbyeIsLate, AgencyEntries, WaitingForHello
<1> QED
  BY <1>1, <1>2 DEF Bookkeeping

\* The handler boots a bridge or finds the one of the entry.
LEMMA BookkeepingHandler ==
    ASSUME IInv, Bookkeeping,
           (\E d \in MQTTDevices : GetDeviceOrCreate(d)) \/ Meow \/ HandleMQTTMessage
    PROVE  Bookkeeping'
<1> USE DEF IInv, TypeOK, Bookkeeping, bootVars, gatekeeperVars, agencyVars, storeVars
<1>1. ASSUME NEW d \in MQTTDevices, GetDeviceOrCreate(d), activeDevices[d] # NoBoot
      PROVE  Bookkeeping'
  BY <1>1 DEF GetDeviceOrCreate, ListenerForEntry, GoodbyeIsLate, AgencyEntries, WaitingForHello
<1>2. ASSUME NEW d \in MQTTDevices, GetDeviceOrCreate(d), activeDevices[d] = NoBoot
      PROVE  Bookkeeping'
  <2> DEFINE b == boots + 1
  <2>1. /\ b \in Boots /\ of' = [of EXCEPT ![b] = d]
        /\ wrapper' = [wrapper EXCEPT ![b] = "hello"]
        /\ accept' = [accept EXCEPT ![b] = "waiting"]
        /\ boots' = b
        /\ UNCHANGED <<done, activeDevices, removers, assigned, online, actorDevices, running,
                       missed>>
    BY <1>2 DEF GetDeviceOrCreate, CreateAndBootDevice
  <2>2. accept[b] = "off" /\ \A e \in MQTTDevices : activeDevices[e] # b
    <3>1. b > boots
      BY ConstantsAssumption
    <3>2. accept[b] = "off"
      BY <2>1, <3>1 DEF OneBoots
    <3>3. b # NoBoot /\ b \notin removers
      BY <2>1, <3>1 DEF OneBoots, Boots, NoBoot
    <3>4. \A e \in MQTTDevices : activeDevices[e] # b
      BY <3>1, <3>3, ConstantsAssumption DEF ListenerForEntry, Boots
    <3> QED
      BY <3>2, <3>4
  <2> HIDE DEF b
  <2>3. ListenerForEntry'
    <3>1. \A e \in MQTTDevices : activeDevices[e] # NoBoot =>
            activeDevices[e] \in Boots /\ activeDevices[e] <= b
      BY ConstantsAssumption DEF ListenerForEntry, Boots, b
    <3>2. QED BY <2>1, <2>2, <3>1 DEF ListenerForEntry
  <2>4. GoodbyeIsLate' /\ AgencyEntries' /\ WaitingForHello'
    BY <2>1, <2>2 DEF GoodbyeIsLate, AgencyEntries, WaitingForHello
  <2> QED
    BY <2>3, <2>4
<1>3. CASE Meow \/ HandleMQTTMessage
  BY <1>3 DEF Meow, HandleMQTTMessage, ListenerForEntry, GoodbyeIsLate, AgencyEntries,
     WaitingForHello
<1> QED
  BY <1>1, <1>2, <1>3

\* AcceptClient puts a client online before it returns, and only then does the
\* handler make the entry, with its listener.
LEMMA BookkeepingAccept ==
    ASSUME IInv, Bookkeeping, NEW i \in Boots, AcceptClient(i)
    PROVE  Bookkeeping'
<1> USE DEF IInv, TypeOK, Bookkeeping, handlerVars, bootVars, agencyVars, storeVars
<1>1. CASE WelcomeDevice(i)
  <2>1. ListenerForEntry'
    BY <1>1 DEF WelcomeDevice, ListenerForEntry, OneBoots, Boots
  <2>2. GoodbyeIsLate' /\ WaitingForHello'
    BY <1>1 DEF WelcomeDevice, GoodbyeIsLate, WaitingForHello
  <2>3. AgencyEntries'
    BY <1>1 DEF WelcomeDevice, AgencyEntries
  <2> QED
    BY <2>1, <2>2, <2>3
<1>2. CASE TakeHello(i) \/ HandleHello(i) \/ HelloFails(i) \/ PutOnline(i) \/ WelcomeFails(i)
  <2>1. UNCHANGED <<activeDevices, removers, of, boots, done, missed, actorDevices, running>>
    BY <1>2 DEF TakeHello, HandleHello, HelloFails, PutOnline, WelcomeFails
  <2>2. ListenerForEntry'
    BY <2>1 DEF ListenerForEntry
  <2>3. GoodbyeIsLate'
    BY <1>2
    DEF TakeHello, HandleHello, HelloFails, PutOnline, WelcomeFails, GoodbyeIsLate
  <2>4. WaitingForHello'
    BY <1>2
    DEF TakeHello, HandleHello, HelloFails, PutOnline, WelcomeFails, WaitingForHello
  <2>5. AgencyEntries'
    <3>1. i \notin running
      BY <1>2
      DEF TakeHello, HandleHello, HelloFails, PutOnline, WelcomeFails, AgencyEntries
    <3>2. \A j \in running : accept'[j] = accept[j] /\ assigned'[j] = assigned[j]
      BY <1>2, <3>1
      DEF TakeHello, HandleHello, HelloFails, PutOnline, WelcomeFails
    <3> QED
      BY <2>1, <3>2 DEF AgencyEntries
  <2> QED
    BY <2>2, <2>3, <2>4, <2>5
<1> QED
  BY <1>1, <1>2 DEF AcceptClient

\* A listener goes with its entry, or leaves it at the server's shutdown.
LEMMA BookkeepingLifetime ==
    ASSUME IInv, Bookkeeping,
           \/ Shutdown \/ \E id \in DeviceIDs : DeleteDevice(id)
           \/ \E i \in Boots : Timeout(i) \/ RemoveActiveDevice(i) \/ RemoverReturns(i)
    PROVE  Bookkeeping'
<1> USE DEF IInv, TypeOK, Bookkeeping, handlerVars, bootVars, gatekeeperVars, agencyVars
<1>1. /\ UNCHANGED <<accept, assigned, online, actorDevices, running, missed, wrapper, of, boots>>
      /\ done => done'
  BY DEF Shutdown, DeleteDevice, Timeout, RemoveActiveDevice, RemoverReturns
<1>2. GoodbyeIsLate' /\ AgencyEntries' /\ WaitingForHello'
  BY <1>1 DEF GoodbyeIsLate, AgencyEntries, WaitingForHello
<1>3. CASE \E i \in Boots : RemoveActiveDevice(i)
  BY <1>1, <1>2, <1>3 DEF RemoveActiveDevice, ListenerForEntry
<1>4. CASE ~\E i \in Boots : RemoveActiveDevice(i)
  <2>1. /\ activeDevices' = activeDevices
        /\ removers' = removers \/ done'
    BY <1>4 DEF Shutdown, DeleteDevice, Timeout, RemoverReturns
  <2> QED
    BY <1>1, <1>2, <2>1 DEF ListenerForEntry
<1> QED
  BY <1>3, <1>4

\* The wrapper ends with a goodbye; it does not begin to wait for its welcome
\* before AcceptClient has taken its hello.
LEMMA BookkeepingWrapper ==
    ASSUME IInv, Bookkeeping, NEW i \in Boots, Wrapper(i) \/ HandleFromMASC(i)
    PROVE  Bookkeeping'
<1> USE DEF IInv, TypeOK, Bookkeeping, handlerVars, bootVars, gatekeeperVars, agencyVars,
        storeVars, WrapperGoes, WrapperEnds
<1>1. UNCHANGED <<activeDevices, removers, of, boots, done, accept, assigned>>
  BY DEF Wrapper, Cancel, ReceiveReply, RememberDevice, RememberFails, SayGoodbyeToClient,
         HandleFromMQTT, HandleFromMASC, PublishFails
<1>2. ListenerForEntry'
  BY <1>1 DEF ListenerForEntry
<1>3. CASE SayGoodbyeToClient(i)
  <2>1. wrapper' = [wrapper EXCEPT ![i] = "gone"]
    BY <1>3 DEF SayGoodbyeToClient
  <2>2. WaitingForHello'
    BY <1>1, <2>1 DEF WaitingForHello
  <2>3. CASE UNCHANGED <<online, actorDevices, running>> /\ missed' = missed \cup {i}
    BY <1>1, <1>2, <2>1, <2>2, <2>3 DEF GoodbyeIsLate, AgencyEntries
  <2>4. CASE TakeOffline(i)
    <3>1. actorDevices[assigned[i]] = i => i \in running /\ accept[i] = "returned"
      <4>1. assigned[i] \in DeviceIDs /\ i # NoBoot
        BY <2>4 DEF TakeOffline, Boots, NoBoot
      <4> QED
        BY <4>1 DEF AgencyEntries
    <3>2. GoodbyeIsLate'
      BY <1>1, <2>1, <2>4, <3>1 DEF TakeOffline, GoodbyeIsLate
    <3>3. AgencyEntries'
      <4>1. \A id \in DeviceIDs : id # assigned[i] /\ actorDevices[id] # NoBoot =>
              actorDevices[id] # actorDevices[assigned[i]]
        BY <2>4 DEF TakeOffline, AgencyEntries
      <4> QED
        BY <1>1, <2>4, <4>1 DEF TakeOffline, AgencyEntries
    <3> QED
      BY <1>2, <2>2, <3>2, <3>3
  <2> QED
    BY <1>3, <2>3, <2>4 DEF SayGoodbyeToClient
<1>4. CASE ~SayGoodbyeToClient(i)
  <2>1. /\ UNCHANGED <<online, actorDevices, running, missed>>
        /\ \/ UNCHANGED wrapper
           \/ \E to \in {"remember", "running", "ended"} :
                 /\ wrapper' = [wrapper EXCEPT ![i] = to]
                 /\ to = "ended" \/ wrapper[i] \in {"welcome", "remember"}
    BY <1>4 DEF Wrapper, Cancel, ReceiveReply, RememberDevice, RememberFails,
         HandleFromMQTT, HandleFromMASC, PublishFails
  <2>2. GoodbyeIsLate' /\ AgencyEntries'
    BY <1>1, <2>1 DEF GoodbyeIsLate, AgencyEntries
  <2>3. WaitingForHello'
    BY <1>1, <2>1 DEF WaitingForHello
  <2> QED
    BY <1>2, <2>2, <2>3
<1> QED
  BY <1>3, <1>4

\* Every step keeps the books.
LEMMA BookkeepingNext == IInv /\ Bookkeeping /\ [Next]_vars => Bookkeeping'
<1> SUFFICES ASSUME IInv, Bookkeeping, [Next]_vars PROVE Bookkeeping'
  OBVIOUS
<1>1. CASE UNCHANGED vars
  BY <1>1 DEF Bookkeeping, ListenerForEntry, GoodbyeIsLate, AgencyEntries, WaitingForHello, vars,
     handlerVars, bootVars, gatekeeperVars, agencyVars
<1> QED
  BY <1>1, BookkeepingHandler, BookkeepingAccept, BookkeepingLifetime, BookkeepingWrapper
  DEF Next

\* The books are kept in every reachable state.
LEMMA BookkeepingInvariance == Spec => [](IInv /\ Bookkeeping)
<1>1. Init => IInv /\ Bookkeeping
  BY InitInvariant, BookkeepingInit
<1>2. IInv /\ Bookkeeping /\ [Next]_vars => (IInv /\ Bookkeeping)'
  BY InductiveInvariant, BookkeepingNext
<1> QED
  BY <1>1, <1>2, PTL DEF Spec

\* A bridge in activeDevices has a timer or a listener that is about to remove
\* it: no entry is left behind that swallows the messages of a device which
\* could be booted again.
NoStaleEntry ==
    ~done => \A d \in MQTTDevices :
        activeDevices[d] \notin Boots \ (alive \cup removers)

\* removeActiveDevice deletes by MQTT device, and yet leaves nothing behind.
THEOREM EntriesAreRemoved == Spec => []NoStaleEntry
<1>1. Bookkeeping => NoStaleEntry
  <2>1. NoBoot \notin Boots
    BY ConstantsAssumption DEF Boots, NoBoot
  <2> QED
    BY <2>1 DEF Bookkeeping, ListenerForEntry, NoStaleEntry
<1> QED
  BY <1>1, BookkeepingInvariance, PTL

\* A goodbye that found the bridge's own actors is final: neither does AcceptClient
\* put the device online behind its back, nor does the agency run its actors. A
\* bridge is left online, or served, after it is gone only by a goodbye that came
\* too early, that found the actors of the next bridge, or whose store failed.
GoodbyeIsFinal ==
    \A i \in Boots : wrapper[i] = "gone" /\ i \in online \cup running => i \in missed

\* So of AcceptClient and SayGoodbyeToClient, which run in goroutines of their
\* own, the goodbye has the last word whenever it had an effect.
THEOREM GoodbyesAreFinal == Spec => []GoodbyeIsFinal
<1>1. Bookkeeping => GoodbyeIsFinal
  BY DEF Bookkeeping, GoodbyeIsLate, GoodbyeIsFinal
<1> QED
  BY <1>1, BookkeepingInvariance, PTL

-----------------------------------------------------------------------------
(* Jams of the message handler.                                             *)

\* The handler can go on, by itself, by AcceptClient or by the wrapper: the
\* guards of their actions (ENABLED is beyond the provers).
HandlerCanGoOn ==
    \/ handler = "meow" /\ (boot \in alive \/ done)
    \/ handler = "forward"
    \/ handler = "accept" /\ accept[boot] \in {"hello", "welcomed", "online"}
    \/ handler = "accept" /\ accept[boot] = "waiting" /\ wrapper[boot] = "hello"

\* The ways to be jammed are the only ones in which the handler is busy, holds
\* bridge.m, and nobody can let it go on.
HandlerIsServed == handler = "idle" \/ Jammed \/ HandlerCanGoOn

\* There is no third party that the handler waits for.
THEOREM HandlerIsServedOrJammed == Spec => []HandlerIsServed
<1>1. IInv /\ Bookkeeping => HandlerIsServed
  <2> SUFFICES ASSUME IInv, Bookkeeping, handler = "accept" PROVE HandlerIsServed
    BY DEF IInv, TypeOK, HandlerIsServed, Jammed, HandlerCanGoOn
  <2>1. boot \in Boots /\ accept[boot] \in {"waiting", "hello", "welcomed", "online", "refused"}
    BY DEF IInv, TypeOK, OneBoots
  <2>2. accept[boot] = "waiting" => wrapper[boot] \in {"hello", "ended", "gone"}
    BY <2>1 DEF Bookkeeping, WaitingForHello
  <2> QED
    BY <2>1, <2>2 DEF HandlerIsServed, Jammed, HandlerCanGoOn
<1> QED
  BY <1>1, BookkeepingInvariance, PTL

\* A jam is for good: until the server shuts down the bridge handles no message
\* of any MQTT device, and boots none, because the handler that the library calls
\* for one message after the other does not return.
JamIsForGood == [][Jammed => Jammed' \/ done']_vars

\* No timer, no goodbye and no other bridge gets a jammed handler out.
THEOREM JamsAreForGood == Spec => JamIsForGood
<1>1. IInv /\ [Next]_vars => (Jammed => Jammed' \/ done')
  <2> SUFFICES ASSUME IInv, [Next]_vars, Jammed, ~done' PROVE Jammed'
    OBVIOUS
  <2> USE DEF handlerVars, bootVars, gatekeeperVars, agencyVars, storeVars, WrapperGoes, WrapperEnds
  <2>1. /\ boot \in Boots /\ handler \in {"accept", "meow"}
        /\ accept \in [Boots -> {"off", "waiting", "hello", "welcomed", "online", "returned", "refused"}]
        /\ wrapper \in [Boots -> {"off", "hello", "welcome", "remember", "running", "ended", "gone"}]
    BY DEF IInv, TypeOK, OneBoots, Jammed
  <2>2. CASE UNCHANGED vars
    BY <2>2 DEF Jammed, vars
  <2>3. CASE (\E d \in MQTTDevices : GetDeviceOrCreate(d)) \/ Meow \/ HandleMQTTMessage
    BY <2>1, <2>3 DEF GetDeviceOrCreate, Meow, HandleMQTTMessage, Jammed
  <2>4. ASSUME NEW i \in Boots, AcceptClient(i) PROVE Jammed'
    BY <2>1, <2>4
    DEF AcceptClient, TakeHello, HandleHello, HelloFails, PutOnline, WelcomeDevice,
        WelcomeFails, Jammed
  <2>5. CASE \/ Shutdown \/ \E id \in DeviceIDs : DeleteDevice(id)
             \/ \E i \in Boots : Timeout(i) \/ RemoveActiveDevice(i) \/ RemoverReturns(i)
    BY <2>5
    DEF Shutdown, DeleteDevice, Timeout, RemoveActiveDevice, RemoverReturns, Jammed
  <2>6. ASSUME NEW i \in Boots, Wrapper(i) \/ HandleFromMASC(i) PROVE Jammed'
    BY <2>1, <2>6
    DEF Wrapper, Cancel, ReceiveReply, RememberDevice, RememberFails, SayGoodbyeToClient,
        HandleFromMQTT, HandleFromMASC, PublishFails, Jammed
  <2> QED
    BY <2>2, <2>3, <2>4, <2>5, <2>6 DEF Next
<1>2. Spec => []IInv
  BY InitInvariant, InductiveInvariant, PTL DEF Spec
<1> QED
  BY <1>1, <1>2, PTL DEF Spec, JamIsForGood
=============================================================================
