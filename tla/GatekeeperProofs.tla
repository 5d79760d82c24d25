-------------------------- MODULE GatekeeperProofs --------------------------
(***************************************************************************)
(* What TLAPS proves of Gatekeeper, for any number of connections, devices  *)
(* and hello messages: what the agency knows whatever clients and device    *)
(* managers do, and that hub, gatekeeper and agency implement DeviceService *)
(* for clients that keep to the protocol.                                   *)
(***************************************************************************)
EXTENDS Gatekeeper, TLAPS

\* The hello messages of a connection account for its pumps and for what they
\* hold; a device that is online or about to be has a pump of its own.
Accounts(c) ==
    /\ hellos[c] + swallowed[c] + pumps[c] <= sent[c]
    /\ accept[c] \in {"welcome", "enter"} => pumps[c] >= 1
    /\ onlineDevices[c] # NoDevice => pumps[c] >= 1
    /\ accept[c] \in {"welcome", "enter"} /\ onlineDevices[c] # NoDevice => pumps[c] >= 2
    /\ accept[c] # "done" => pumpMessage[c] + hellos[c] + swallowed[c] <= sent[c]
    /\ accept[c] = "welcome" => pumpMessage[c] + hellos[c] + swallowed[c] < sent[c]

\* Where the two goroutines of a connection are tells what they have set.
Stages(c) ==
    /\ connection[c] = "new" => accept[c] = "none"
    /\ accept[c] \notin {"none", "hello"} => device[c] \in Devices
    /\ goodbye[c] = "agency" => onlineDevices[c] \in Devices
    /\ c \in running => accept[c] = "done"
    /\ goodbye[c] # "none" => connection[c] = "closed"
    /\ c \in abandoned => goodbye[c] \in {"close", "done"}

\* An entry of the agency leads to the device that it was made for.
Entries ==
    \A d \in Devices : actorDevices[d] # NoClient =>
        actorDevices[d] \in running /\ device[actorDevices[d]] = d

IInv ==
    /\ TypeOK
    /\ \A c \in Clients : Accounts(c) /\ Stages(c)
    /\ Entries

\* At the start nobody is connected.
LEMMA InitInvariant == Init => IInv
<1> SUFFICES ASSUME Init PROVE IInv
  OBVIOUS
<1>1. MaxHellos \in Nat /\ 0 \in 0..MaxHellos
  BY ConstantsAssumption
<1>2. TypeOK
  BY <1>1 DEF Init, TypeOK
<1>3. ASSUME NEW c \in Clients PROVE Accounts(c) /\ Stages(c)
  <2>1. /\ hellos[c] = 0 /\ swallowed[c] = 0 /\ pumps[c] = 0 /\ sent[c] = 0 /\ pumpMessage[c] = 0
        /\ accept[c] = "none" /\ goodbye[c] = "none" /\ onlineDevices[c] = NoDevice /\ running = {}
        /\ abandoned = {}
    BY DEF Init
  <2>2. QED BY <2>1 DEF Accounts, Stages
<1>4. Entries
  BY DEF Init, Entries
<1>5. QED BY <1>2, <1>3, <1>4 DEF IInv

\* The hub's steps.
LEMMA HubKeepsInvariant ==
    ASSUME IInv, NEW c \in Clients, Register(c) \/ SendHello(c) \/ Unregister(c)
    PROVE  IInv'
<1> USE ConstantsAssumption DEF IInv, TypeOK, pumpVars, acceptVars, agencyVars, storeVars, goodbyeVars
<1>1. CASE Register(c)
  <2>1. TypeOK' /\ Entries'
    BY <1>1 DEF Register, Entries
  <2>2. \A o \in Clients : Accounts(o)'
    BY <1>1 DEF Register, Accounts, Stages
  <2>3. \A o \in Clients : Stages(o)'
    BY <1>1 DEF Register, Stages
  <2>4. QED BY <2>1, <2>2, <2>3
<1>2. CASE SendHello(c)
  BY <1>2 DEF SendHello, Accounts, Stages, Entries
<1>3. CASE Unregister(c)
  BY <1>3 DEF Unregister, Accounts, Stages, Entries
<1>4. QED BY <1>1, <1>2, <1>3

\* AcceptClient: the hello, the device it leads to, the pumps and the welcome.
LEMMA AcceptKeepsInvariant ==
    ASSUME IInv, NEW c \in Clients,
           \/ \E d \in Devices : HandleHello(c, d)
           \/ HandleHelloError(c) \/ SendWelcome(c) \/ EnterOnlineDevices(c)
           \/ WelcomeDevice(c) \/ WelcomeDeviceError(c)
    PROVE  IInv'
<1> USE ConstantsAssumption
    DEF IInv, TypeOK, hubVars, pumpVars, acceptVars, agencyVars, storeVars, goodbyeVars
<1>1. ASSUME NEW d \in Devices, HandleHello(c, d) PROVE IInv'
  <2>1. TypeOK'
    BY <1>1 DEF HandleHello, Accounts
  <2>2. \A o \in Clients : Accounts(o)' /\ Stages(o)'
    BY <1>1 DEF HandleHello, Accounts, Stages
  <2>3. Entries'
    BY <1>1 DEF HandleHello, Stages, Entries
  <2>4. QED BY <2>1, <2>2, <2>3
<1>2. CASE HandleHelloError(c)
  BY <1>2 DEF HandleHelloError, SendToClient, Accounts, Stages, Entries
<1>3. CASE SendWelcome(c)
  BY <1>3 DEF SendWelcome, Accounts, Stages, Entries
<1>4. CASE EnterOnlineDevices(c)
  BY <1>4 DEF EnterOnlineDevices, MutexesFree, Accounts, Stages, Entries
<1>5. CASE WelcomeDevice(c)
  BY <1>5 DEF WelcomeDevice, Accounts, Stages, Entries
<1>6. CASE WelcomeDeviceError(c)
  BY <1>6 DEF WelcomeDeviceError, SendToClient, Accounts, Stages, Entries
<1>7. QED BY <1>1, <1>2, <1>3, <1>4, <1>5, <1>6

\* The router and the pumps of a connection.
LEMMA PumpKeepsInvariant ==
    ASSUME IInv, NEW c \in Clients,
           RouteOutgoing(c) \/ OutgoingPumpSend(c) \/ OutgoingPumpAbort(c) \/ IncomingPumpTake(c)
    PROVE  IInv'
<1> USE ConstantsAssumption
    DEF IInv, TypeOK, hubVars, acceptVars, agencyVars, storeVars, goodbyeVars
<1>1. CASE RouteOutgoing(c)
  BY <1>1 DEF RouteOutgoing, Accounts, Stages, Entries
<1>2. CASE OutgoingPumpSend(c)
  BY <1>2 DEF OutgoingPumpSend, SendToClient, Accounts, Stages, Entries
<1>3. CASE OutgoingPumpAbort(c)
  BY <1>3 DEF OutgoingPumpAbort, Accounts, Stages, Entries
<1>4. CASE IncomingPumpTake(c)
  BY <1>4 DEF IncomingPumpTake, Accounts, Stages, Entries
<1>5. QED BY <1>1, <1>2, <1>3, <1>4

\* The goodbye takes the pump and the entry of the device that is online.
LEMMA GoodbyeKeepsInvariant ==
    ASSUME IInv, NEW c \in Clients,
           \/ GoodbyeNotOnline(c) \/ GoodbyeStoreError(c) \/ GoodbyeBegin(c)
           \/ GoodbyeFinish(c) \/ CloseSend(c)
    PROVE  IInv'
<1> USE ConstantsAssumption
    DEF IInv, TypeOK, hubVars, pumpVars, acceptVars, agencyVars, storeVars, goodbyeVars
<1>1. CASE GoodbyeNotOnline(c) \/ CloseSend(c)
  BY <1>1 DEF GoodbyeNotOnline, CloseSend, Accounts, Stages, Entries
<1>5. CASE GoodbyeStoreError(c)
  BY <1>5 DEF GoodbyeStoreError, Accounts, Stages, Entries
<1>2. CASE GoodbyeBegin(c)
  BY <1>2 DEF GoodbyeBegin, Accounts, Stages, Entries
<1>3. CASE GoodbyeFinish(c)
  <2>1. onlineDevices[c] \in Devices /\ onlineDevices[c] # NoDevice /\ pumps[c] >= 1
    BY <1>3 DEF GoodbyeFinish, Stages, Accounts
  <2>2. TypeOK'
    BY <1>3, <2>1 DEF GoodbyeFinish
  <2>3. \A o \in Clients : Accounts(o)' /\ Stages(o)'
    BY <1>3, <2>1 DEF GoodbyeFinish, Accounts, Stages
  <2>4. Entries'
    BY <1>3, <2>1 DEF GoodbyeFinish, Entries
  <2>5. QED BY <2>2, <2>3, <2>4
<1>4. QED BY <1>1, <1>2, <1>3, <1>5

\* Every step keeps the invariant.
LEMMA InductiveInvariant == IInv /\ [Next]_vars => IInv'
<1> SUFFICES ASSUME IInv, [Next]_vars PROVE IInv'
  OBVIOUS
<1>1. CASE UNCHANGED vars
  BY <1>1 DEF IInv, TypeOK, Accounts, Stages, Entries, vars, hubVars, pumpVars, acceptVars,
     agencyVars, storeVars, goodbyeVars
<1>2. ASSUME NEW d \in Devices, DeleteDevice(d) PROVE IInv'
  BY <1>2 DEF DeleteDevice, IInv, TypeOK, Accounts, Stages, Entries, hubVars, pumpVars,
     acceptVars, agencyVars, goodbyeVars
<1>3. QED BY <1>1, <1>2, HubKeepsInvariant, AcceptKeepsInvariant, PumpKeepsInvariant,
          GoodbyeKeepsInvariant DEF Next

\* Whatever clients and device managers do, the agency never keeps an entry
\* for a netActorDevice that was shut down, so SayGoodbyeToDevice shuts none
\* down twice.
THEOREM AgencyAlwaysKnowsOnlyRunning == Spec => []AgencyKnowsOnlyRunning
<1>1. IInv => AgencyKnowsOnlyRunning
  BY DEF IInv, Entries, AgencyKnowsOnlyRunning
<1>2. QED BY <1>1, InitInvariant, InductiveInvariant, PTL DEF Spec

-----------------------------------------------------------------------------
(* Clients that keep to the protocol.                                        *)

\* They wait for the answer to a hello before they disconnect and connect anew
\* only after the server noticed the loss.  The store may fail, and devices may be
\* deleted.
Orderly == EarlyDisconnect = FALSE /\ Overlap = FALSE

\* The two goroutines of an orderly connection do not overlap, and what is
\* online at the goodbye is the device of the last hello.
Course(c) ==
    /\ goodbye[c] # "none" <=> connection[c] = "closed"
    /\ goodbye[c] # "none" => accept[c] = "done" \/ (accept[c] = "hello" /\ hellos[c] = 0)
    /\ accept[c] \notin {"welcome", "enter"} => onlineDevices[c] \in {NoDevice, device[c]}
    /\ accept[c] = "protect" => onlineDevices[c] = device[c]

\* The agency serves a connection from the end of its handshake to the end of
\* its goodbye, and never after, unless the store failed at the goodbye.
IsServed(c) ==
    accept[c] = "done" /\ goodbye[c] \notin {"close", "done"} =>
        c \in running /\ actorDevices[device[c]] = c /\ onlineDevices[c] = device[c]
IsGone(c) ==
    goodbye[c] \in {"close", "done"} /\ c \notin abandoned =>
        /\ onlineDevices[c] = NoDevice /\ c \notin running
        /\ \A d \in Devices : actorDevices[d] # c

\* A device has one connection at a time.
Exclusive ==
    \A c, o \in Clients :
        c # o /\ device[c] = device[o] /\ device[c] # NoDevice =>
            goodbye[c] = "done" \/ goodbye[o] = "done"

OrderlyInv == (\A c \in Clients : Course(c) /\ IsServed(c) /\ IsGone(c)) /\ Exclusive

\* At the start no connection has a device.
LEMMA OrderlyInit == Init => OrderlyInv
BY ConstantsAssumption DEF Init, OrderlyInv, Course, IsServed, IsGone, Exclusive

\* A connection begins, sends a hello, and is lost after it was answered.
LEMMA OrderlyHub ==
    ASSUME Orderly, IInv, OrderlyInv, NEW c \in Clients, Register(c) \/ SendHello(c) \/ Unregister(c)
    PROVE  OrderlyInv'
<1> USE DEF IInv, TypeOK, pumpVars, acceptVars, agencyVars, storeVars, goodbyeVars, OrderlyInv
<1>1. CASE Register(c)
  BY <1>1 DEF Register, Stages, Course, IsServed, IsGone, Exclusive
<1>2. CASE SendHello(c)
  BY <1>2 DEF SendHello, Course, IsServed, IsGone, Exclusive
<1>3. CASE Unregister(c)
  BY <1>3 DEF Unregister, Orderly, Course, IsServed, IsGone, Exclusive
<1>4. QED BY <1>1, <1>2, <1>3

\* AcceptClient is at work only before the goodbye.
LEMMA AcceptBeforeGoodbye ==
    ASSUME IInv, OrderlyInv, NEW c \in Clients,
           accept[c] \in {"welcome", "enter", "protect"} \/ (accept[c] = "hello" /\ hellos[c] > 0)
    PROVE  goodbye[c] = "none"
BY ConstantsAssumption DEF IInv, TypeOK, OrderlyInv, Course

\* Nobody serves the device of a connection whose handshake is about to end, but
\* for what an abandoned connection has left behind.
LEMMA DeviceIsFree ==
    ASSUME IInv, OrderlyInv, NEW c \in Clients, accept[c] = "protect"
    PROVE  /\ goodbye[c] = "none" /\ c \notin running
           /\ device[c] \in Devices /\ actorDevices[device[c]] \in abandoned \cup {NoClient}
<1> USE DEF IInv, TypeOK, OrderlyInv
<1>1. goodbye[c] = "none" /\ device[c] \in Devices /\ c \notin running
  BY AcceptBeforeGoodbye DEF Stages
<1>2. ASSUME actorDevices[device[c]] \notin abandoned \cup {NoClient} PROVE FALSE
  <2> DEFINE o == actorDevices[device[c]]
  <2>1. o \in Clients /\ o \in running /\ device[o] = device[c] /\ o # c
    BY <1>1, <1>2 DEF Entries
  <2>2. goodbye[o] = "done"
    BY <1>1, <2>1, ConstantsAssumption DEF Exclusive
  <2>3. QED BY <1>2, <2>1, <2>2 DEF IsGone
<1>3. QED BY <1>1, <1>2

\* AcceptClient for a device that no other connection has.
LEMMA OrderlyAccept ==
    ASSUME Orderly, IInv, OrderlyInv, NEW c \in Clients,
           \/ \E d \in Devices : HandleHello(c, d)
           \/ HandleHelloError(c) \/ SendWelcome(c) \/ EnterOnlineDevices(c)
           \/ WelcomeDevice(c) \/ WelcomeDeviceError(c)
    PROVE  OrderlyInv'
<1> USE DEF IInv, TypeOK, OrderlyInv
<1>1. ASSUME NEW d \in Devices, HandleHello(c, d) PROVE OrderlyInv'
  <2>1. goodbye[c] = "none" /\ connection[c] # "closed"
    BY <1>1, AcceptBeforeGoodbye DEF HandleHello, Course
  <2>2. \A o \in Clients : Course(o)'
    BY <1>1, <2>1 DEF HandleHello, Course, goodbyeVars
  <2>3. \A o \in Clients : IsServed(o)' /\ IsGone(o)'
    BY <1>1, <2>1 DEF HandleHello, IsServed, IsGone, agencyVars, goodbyeVars
  <2>4. Exclusive'
    BY <1>1, ConstantsAssumption DEF HandleHello, Exclusive, NoneConnectedAs, Orderly, goodbyeVars
  <2>5. QED BY <2>2, <2>3, <2>4
<1>2. CASE HandleHelloError(c)
  <2>1. goodbye[c] = "none"
    BY <1>2, AcceptBeforeGoodbye DEF HandleHelloError
  <2>2. QED BY <1>2, <2>1 DEF HandleHelloError, Course, IsServed, IsGone, Exclusive,
            acceptVars, agencyVars, storeVars, goodbyeVars
<1>3. CASE SendWelcome(c)
  <2>1. goodbye[c] = "none"
    BY <1>3, AcceptBeforeGoodbye DEF SendWelcome
  <2>2. QED BY <1>3, <2>1 DEF SendWelcome, Course, IsServed, IsGone, Exclusive, hubVars,
            agencyVars, storeVars, goodbyeVars
<1>4. CASE EnterOnlineDevices(c)
  <2>1. goodbye[c] = "none"
    BY <1>4, AcceptBeforeGoodbye DEF EnterOnlineDevices
  <2>2. QED BY <1>4, <2>1 DEF EnterOnlineDevices, Course, IsServed, IsGone, Exclusive, hubVars,
            agencyVars, storeVars, goodbyeVars
<1>5. CASE WelcomeDevice(c)
  <2>1. goodbye[c] = "none" /\ device[c] \in Devices
    BY <1>5, DeviceIsFree DEF WelcomeDevice
  <2>2. actorDevices[device[c]] \in abandoned \cup {NoClient}
    BY <1>5, DeviceIsFree DEF WelcomeDevice
  <2>3. \A o \in Clients : Course(o)'
    BY <1>5, <2>1 DEF WelcomeDevice, Course, hubVars, storeVars, goodbyeVars
  <2>4. \A o \in Clients : IsServed(o)'
    BY <1>5, <2>1, <2>2, ConstantsAssumption DEF WelcomeDevice, IsServed, Course, Stages, goodbyeVars
  <2>5. \A o \in Clients : IsGone(o)'
    BY <1>5, <2>1 DEF WelcomeDevice, IsGone, goodbyeVars
  <2>6. Exclusive'
    BY <1>5 DEF WelcomeDevice, Exclusive, goodbyeVars
  <2>7. QED BY <2>3, <2>4, <2>5, <2>6
<1>6. CASE WelcomeDeviceError(c)
  <2>1. goodbye[c] = "none"
    BY <1>6, AcceptBeforeGoodbye DEF WelcomeDeviceError
  <2>2. QED BY <1>6, <2>1 DEF WelcomeDeviceError, Course, IsServed, IsGone, Exclusive, hubVars,
            agencyVars, storeVars, goodbyeVars
<1>7. QED BY <1>1, <1>2, <1>3, <1>4, <1>5, <1>6

\* The pumps change nothing that the orderly invariant is about.
LEMMA OrderlyPump ==
    ASSUME IInv, OrderlyInv, NEW c \in Clients,
           RouteOutgoing(c) \/ OutgoingPumpSend(c) \/ OutgoingPumpAbort(c) \/ IncomingPumpTake(c)
    PROVE  OrderlyInv'
<1>1. /\ UNCHANGED <<connection, accept, device, onlineDevices, goodbye, abandoned,
                     actorDevices, running>>
      /\ hellos' = hellos \/ (hellos[c] > 0 /\ hellos' = [hellos EXCEPT ![c] = @ - 1])
  BY DEF RouteOutgoing, OutgoingPumpSend, OutgoingPumpAbort, IncomingPumpTake, hubVars,
     acceptVars, agencyVars, storeVars, goodbyeVars
<1>2. \A o \in Clients : hellos[o] = 0 => hellos'[o] = 0
  BY <1>1 DEF IInv, TypeOK
<1>3. QED BY <1>1, <1>2 DEF OrderlyInv, Course, IsServed, IsGone, Exclusive

\* What the agency shuts down at a goodbye is the connection's own, nothing, or
\* what an abandoned connection has left behind.
LEMMA GoodbyeTakesOwn ==
    ASSUME IInv, OrderlyInv, NEW c \in Clients, goodbye[c] = "agency"
    PROVE  /\ onlineDevices[c] \in Devices /\ onlineDevices[c] = device[c]
           /\ actorDevices[onlineDevices[c]] \in abandoned \cup {c, NoClient}
           /\ \A d \in Devices : actorDevices[d] = c => d = onlineDevices[c]
           /\ c \in running => actorDevices[onlineDevices[c]] = c
<1> USE DEF IInv, TypeOK, OrderlyInv
<1>1. onlineDevices[c] \in Devices /\ onlineDevices[c] # NoDevice
  BY ConstantsAssumption DEF Stages
<1>2. onlineDevices[c] = device[c]
  BY <1>1 DEF Course
<1>3. ASSUME NEW o \in Clients, actorDevices[device[c]] = o, o # c PROVE o \in abandoned
  <2>1. o \in running /\ device[o] = device[c]
    BY <1>1, <1>2, <1>3, ConstantsAssumption DEF Entries
  <2>2. goodbye[o] = "done"
    BY <1>1, <1>2, <1>3, <2>1 DEF Exclusive
  <2>3. QED BY <2>1, <2>2 DEF IsGone
<1>4. \A d \in Devices : actorDevices[d] = c => d = device[c]
  BY ConstantsAssumption DEF Entries
<1>5. c \in running => actorDevices[device[c]] = c
  BY DEF Stages, IsServed
<1>6. QED BY <1>1, <1>2, <1>3, <1>4, <1>5

\* SayGoodbyeToClient takes offline what the connection has brought online.
LEMMA OrderlyGoodbye ==
    ASSUME IInv, OrderlyInv, NEW c \in Clients,
           \/ GoodbyeNotOnline(c) \/ GoodbyeStoreError(c) \/ GoodbyeBegin(c)
           \/ GoodbyeFinish(c) \/ CloseSend(c)
    PROVE  OrderlyInv'
<1> USE DEF IInv, TypeOK, OrderlyInv
<1>1. CASE GoodbyeNotOnline(c)
  <2>1. accept[c] # "done"
    BY <1>1, ConstantsAssumption DEF GoodbyeNotOnline, IsServed, Stages
  <2>2. c \notin running /\ \A d \in Devices : actorDevices[d] # c
    BY <2>1, ConstantsAssumption DEF Stages, Entries
  <2>3. QED BY <1>1, <2>1, <2>2 DEF GoodbyeNotOnline, Course, IsServed, IsGone, Exclusive, hubVars,
            acceptVars, agencyVars, storeVars, goodbyeVars
<1>2. CASE GoodbyeStoreError(c)
  BY <1>2 DEF GoodbyeStoreError, Course, IsServed, IsGone, Exclusive, hubVars, acceptVars,
     agencyVars, storeVars, goodbyeVars
<1>3. CASE GoodbyeBegin(c)
  BY <1>3 DEF GoodbyeBegin, Course, IsServed, IsGone, Exclusive, hubVars, acceptVars, agencyVars,
     storeVars, goodbyeVars
<1>4. CASE GoodbyeFinish(c)
  <2>1. /\ onlineDevices[c] \in Devices /\ onlineDevices[c] = device[c]
        /\ actorDevices[onlineDevices[c]] \in abandoned \cup {c, NoClient}
        /\ \A d \in Devices : actorDevices[d] = c => d = onlineDevices[c]
        /\ c \in running => actorDevices[onlineDevices[c]] = c
    BY <1>4, GoodbyeTakesOwn DEF GoodbyeFinish
  <2>2. \A o \in Clients : Course(o)'
    BY <1>4 DEF GoodbyeFinish, Course, hubVars, acceptVars, storeVars, goodbyeVars
  <2>3. /\ \A o \in Clients : o \notin abandoned \cup {c} => (o \in running' <=> o \in running)
        /\ c \notin running' /\ running' \subseteq running
        /\ \A o \in Clients : o \notin abandoned \cup {c} => actorDevices[device[c]] # o
    BY <1>4, <2>1, ConstantsAssumption DEF GoodbyeFinish
  <2>4. actorDevices' = [actorDevices EXCEPT ![device[c]] = NoClient]
    BY <1>4, <2>1 DEF GoodbyeFinish
  <2>5. \A o \in Clients : IsServed(o)'
    BY <1>4, <2>1, <2>3, <2>4, ConstantsAssumption DEF GoodbyeFinish, IsServed, Stages, acceptVars
  <2>6. \A o \in Clients : IsGone(o)'
    BY <1>4, <2>1, <2>3, <2>4, ConstantsAssumption DEF GoodbyeFinish, IsGone
  <2>7. Exclusive'
    BY <1>4 DEF GoodbyeFinish, Exclusive, acceptVars
  <2>8. QED BY <2>2, <2>5, <2>6, <2>7
<1>5. CASE CloseSend(c)
  BY <1>5 DEF CloseSend, Course, IsServed, IsGone, Exclusive, hubVars, acceptVars, agencyVars,
     storeVars, goodbyeVars
<1>6. QED BY <1>1, <1>2, <1>3, <1>4, <1>5

\* Every step of orderly clients keeps the orderly invariant.
LEMMA OrderlyStep ==
    ASSUME Orderly PROVE IInv /\ OrderlyInv /\ [Next]_vars => OrderlyInv'
<1> SUFFICES ASSUME IInv, OrderlyInv, [Next]_vars PROVE OrderlyInv'
  OBVIOUS
<1>1. CASE UNCHANGED vars
  BY <1>1 DEF OrderlyInv, Course, IsServed, IsGone, Exclusive, vars, hubVars, acceptVars,
     agencyVars, storeVars, goodbyeVars
<1>2. ASSUME NEW d \in Devices, DeleteDevice(d) PROVE OrderlyInv'
  BY <1>2 DEF DeleteDevice, OrderlyInv, Course, IsServed, IsGone, Exclusive, hubVars,
     acceptVars, agencyVars, goodbyeVars
<1>3. QED BY <1>1, <1>2, OrderlyHub, OrderlyAccept, OrderlyPump, OrderlyGoodbye DEF Next

\* Both invariants hold of all behaviours with orderly clients.
LEMMA OrderlyInvariant == ASSUME Orderly PROVE Spec => [](IInv /\ OrderlyInv)
<1>1. IInv /\ OrderlyInv /\ [Next]_vars => (IInv /\ OrderlyInv)'
  BY InductiveInvariant, OrderlyStep
<1>2. QED BY <1>1, InitInvariant, OrderlyInit, PTL DEF Spec

\* When the server is done with a connection of an orderly client, the
\* gatekeeper does not list it and nothing of it runs, unless the store failed at
\* its own goodbye.
THEOREM GoneIsAlwaysForgotten == ASSUME Orderly PROVE Spec => []GoneIsForgotten
<1>1. OrderlyInv => GoneIsForgotten
  BY DEF OrderlyInv, IsGone, GoneIsForgotten
<1>2. QED BY <1>1, OrderlyInvariant, PTL

\* An orderly client that completed the handshake is served by its own
\* netActorDevice as long as it is connected.
THEOREM ConnectedIsAlwaysServed == ASSUME Orderly PROVE Spec => []ConnectedIsServed
<1>1. OrderlyInv => ConnectedIsServed
  BY DEF OrderlyInv, Course, IsServed, ConnectedIsServed
<1>2. QED BY <1>1, OrderlyInvariant, PTL

-----------------------------------------------------------------------------
(* The refinement of DeviceService.                                          *)

Gone == {c \in Clients : goodbye[c] \in {"close", "done"}}

\* The end of the handshake is the arrival ...
LEMMA WelcomeArrives ==
    ASSUME IInv, OrderlyInv, NEW c \in Clients, WelcomeDevice(c)
    PROVE  Service!Arrive(c, device[c]) /\ device[c] \in Devices
<1>1. /\ goodbye[c] = "none" /\ c \notin running
      /\ device[c] \in Devices /\ actorDevices[device[c]] \in abandoned \cup {NoClient}
  BY DeviceIsFree DEF WelcomeDevice
<1>2. \A d \in Devices : actorDevices[d] # c
  BY <1>1, ConstantsAssumption DEF IInv, Entries
<1>3. c \notin Gone /\ Gone' = Gone
  BY <1>1 DEF Gone, WelcomeDevice, goodbyeVars
<1>4. actorDevices' = [actorDevices EXCEPT ![device[c]] = c] /\ abandoned' = abandoned
  BY DEF WelcomeDevice, goodbyeVars
<1>5. QED BY <1>1, <1>2, <1>3, <1>4 DEF Service!Arrive, Gone

\* ... the end of the goodbye is the departure ...
LEMMA GoodbyeLeaves ==
    ASSUME IInv, OrderlyInv, NEW c \in Clients, GoodbyeNotOnline(c) \/ GoodbyeFinish(c)
    PROVE  Service!Leave(c)
<1> USE DEF IInv, TypeOK, OrderlyInv
<1>1. c \notin Gone /\ Gone' = Gone \cup {c} /\ abandoned' = abandoned
  BY DEF Gone, GoodbyeNotOnline, GoodbyeFinish
<1>2. \E left \in SUBSET abandoned : actorDevices' =
        [d \in Devices |-> IF actorDevices[d] \in left \cup {c} THEN NoClient ELSE actorDevices[d]]
  <2>1. CASE GoodbyeNotOnline(c)
    <3>1. accept[c] # "done"
      BY <2>1, ConstantsAssumption DEF GoodbyeNotOnline, IsServed, Stages
    <3>2. \A d \in Devices : actorDevices[d] # c
      BY <3>1, ConstantsAssumption DEF Stages, Entries
    <3>3. actorDevices' =
            [d \in Devices |-> IF actorDevices[d] \in {} \cup {c} THEN NoClient ELSE actorDevices[d]]
      BY <2>1, <3>2 DEF GoodbyeNotOnline, agencyVars
    <3>4. QED BY <3>3
  <2>2. CASE GoodbyeFinish(c)
    <3> DEFINE left == {actorDevices[onlineDevices[c]]} \ {c, NoClient}
    <3>1. /\ onlineDevices[c] \in Devices
          /\ actorDevices[onlineDevices[c]] \in abandoned \cup {c, NoClient}
          /\ \A d \in Devices : actorDevices[d] = c => d = onlineDevices[c]
      BY <2>2, GoodbyeTakesOwn DEF GoodbyeFinish
    <3>2. actorDevices' = [actorDevices EXCEPT ![onlineDevices[c]] = NoClient]
      BY <2>2 DEF GoodbyeFinish
    <3>3. \A d \in Devices : actorDevices[d] \in left => d = onlineDevices[c]
      <4>1. \A o \in left : o \in Clients /\ o = actorDevices[onlineDevices[c]]
        BY <3>1
      <4>2. \A o \in left : device[o] = onlineDevices[c]
        BY <3>1, <4>1, ConstantsAssumption DEF Entries
      <4>3. QED BY <4>1, <4>2, ConstantsAssumption DEF Entries
    <3>4. actorDevices' =
            [d \in Devices |-> IF actorDevices[d] \in left \cup {c} THEN NoClient ELSE actorDevices[d]]
      BY <3>1, <3>2, <3>3
    <3>5. left \in SUBSET abandoned
      BY <3>1
    <3>6. QED BY <3>4, <3>5
  <2>3. QED BY <2>1, <2>2
<1>3. QED BY <1>1, <1>2 DEF Service!Leave, Gone

\* ... and a goodbye that fails leaves everything behind.
LEMMA GoodbyeAbandons ==
    ASSUME IInv, NEW c \in Clients, GoodbyeStoreError(c)
    PROVE  Service!Abandon(c)
<1>1. c \notin Gone /\ Gone' = Gone \cup {c}
  BY DEF Gone, GoodbyeStoreError, IInv, TypeOK
<1>2. abandoned' = abandoned \cup {c} /\ actorDevices' = actorDevices
  BY DEF GoodbyeStoreError, agencyVars
<1>3. QED BY <1>1, <1>2 DEF Service!Abandon, Gone

\* Every step of an orderly system is a step of DeviceService or leaves what it
\* promises about unchanged.
LEMMA ServiceStep ==
    ASSUME Orderly
    PROVE  IInv /\ OrderlyInv /\ [Next]_vars => [Service!Next]_<<actorDevices, Gone, abandoned>>
<1> SUFFICES ASSUME IInv, OrderlyInv, [Next]_vars
             PROVE  Service!Next \/ UNCHANGED <<actorDevices, Gone, abandoned>>
  OBVIOUS
<1> USE DEF Gone
<1>1. CASE UNCHANGED vars
  BY <1>1 DEF vars, agencyVars, goodbyeVars
<1>2. ASSUME NEW c \in Clients, WelcomeDevice(c) PROVE Service!Next
  BY <1>2, WelcomeArrives DEF Service!Next
<1>3. ASSUME NEW c \in Clients, GoodbyeNotOnline(c) \/ GoodbyeFinish(c) PROVE Service!Next
  BY <1>3, GoodbyeLeaves DEF Service!Next
<1>4. ASSUME NEW c \in Clients, GoodbyeStoreError(c) PROVE Service!Next
  BY <1>4, GoodbyeAbandons DEF Service!Next
<1>5. ASSUME NEW d \in Devices, DeleteDevice(d) PROVE UNCHANGED <<actorDevices, Gone, abandoned>>
  BY <1>5 DEF DeleteDevice, agencyVars, goodbyeVars
<1>6. ASSUME NEW c \in Clients,
             \/ Register(c) \/ SendHello(c) \/ \E d \in Devices : HandleHello(c, d)
             \/ HandleHelloError(c) \/ SendWelcome(c) \/ EnterOnlineDevices(c)
             \/ WelcomeDeviceError(c) \/ RouteOutgoing(c) \/ OutgoingPumpSend(c)
             \/ OutgoingPumpAbort(c) \/ IncomingPumpTake(c)
      PROVE  UNCHANGED <<actorDevices, Gone, abandoned>>
  <2>1. UNCHANGED <<actorDevices, goodbye, abandoned>>
    BY <1>6 DEF Register, SendHello, HandleHello, HandleHelloError, SendWelcome,
       EnterOnlineDevices, WelcomeDeviceError, RouteOutgoing, OutgoingPumpSend,
       OutgoingPumpAbort, IncomingPumpTake, agencyVars, goodbyeVars
  <2>2. QED BY <2>1
<1>7. ASSUME NEW c \in Clients, Unregister(c) \/ GoodbyeBegin(c) \/ CloseSend(c)
      PROVE  UNCHANGED <<actorDevices, Gone, abandoned>>
  <2>1. UNCHANGED <<actorDevices, abandoned>>
    BY <1>7 DEF Unregister, GoodbyeBegin, CloseSend, agencyVars
  <2>2. goodbye[c] \notin {"close", "done"} \/ (goodbye[c] = "close" /\ CloseSend(c))
    BY <1>7 DEF Unregister, GoodbyeBegin, CloseSend, OrderlyInv, Course
  <2>3. Gone' = Gone
    BY <1>7, <2>2 DEF Unregister, GoodbyeBegin, CloseSend, IInv, TypeOK
  <2>4. QED BY <2>1, <2>3
<1>8. QED BY <1>1, <1>2, <1>3, <1>4, <1>5, <1>6, <1>7 DEF Next

\* Hub, gatekeeper and agency implement DeviceService: an orderly device is
\* served by one connection at a time, and a connection that is gone never, unless
\* the store failed at its goodbye.
THEOREM DeviceServiceIsImplemented == ASSUME Orderly PROVE Spec => ImplementsDeviceService
<1>1. Init => Service!Init
  BY DEF Init, Service!Init
<1>2. IInv /\ OrderlyInv /\ [Next]_vars
      => [Service!Next]_<<actorDevices, {c \in Clients : goodbye[c] \in {"close", "done"}}, abandoned>>
  BY ServiceStep DEF Gone
<1>3. QED BY <1>1, <1>2, OrderlyInvariant, PTL DEF Spec, ImplementsDeviceService, Service!Spec
=============================================================================
