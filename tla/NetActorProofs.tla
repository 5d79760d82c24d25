--------------------------- MODULE NetActorProofs ---------------------------
(***************************************************************************)
(* Proofs about NetActor, for every number of hires, subscriptions, sends   *)
(* and callers of FireAllActors, and about the routers of its device        *)
(* (NetActorDevice, whose names all differ), for every buffer and number of *)
(* messages.                                                                *)
(***************************************************************************)
EXTENDS NetActor, NetActorDevice, TLAPS

\* isConnected and the phase of shutdown say the same.
ConnectedUntilShutdown == isConnected <=> shutdown = "running"

\* Hire is under way only for an actor without a contract, and with the manager
\* it has just created.
HiringIsUncontracted == hiring => contract = 0 /\ manager \in Managers

\* The inductive invariant.
IInv ==
    /\ TypeOK
    /\ ConnectedUntilShutdown
    /\ HiringIsUncontracted
    /\ DisconnectedIsCancelled
    /\ DeviceAgrees
    /\ DeviceSeesEngagements

\* A contract whose fire() has not yet taken contractMutex is still the valid
\* one.  This needs that nobody calls FireAllActors.
PendingFire ==
    /\ \A k \in Managers : fire[k] # "idle" => k \in cancelled
    /\ \A k \in cancelled : fire[k] \in {"idle", "lock"} => k = contract

----------------------------------------------------------------------------
\* The initial state has the types that TypeOK gives it.
LEMMA TypeOKInit == Init => TypeOK
<1> SUFFICES ASSUME Init PROVE TypeOK
  OBVIOUS
<1> USE ConstantsAssumption DEF Init, ConstantsAssumption
<1>1. /\ contract \in 0..MaxHires /\ manager \in 0..MaxHires /\ sends \in 0..MaxSends
      /\ cancelled \subseteq Managers /\ fireManager \in [Fires -> 0..MaxHires]
      /\ created \subseteq Subs /\ registered \subseteq Subs /\ live \subseteq Subs
      /\ unsubscribed \subseteq Subs
  OBVIOUS
<1>2. hiring \in BOOLEAN /\ isConnected \in BOOLEAN
  OBVIOUS
<1>3. /\ shutdown \in {"running", "disconnected", "done"}
      /\ fire \in [Fires -> {"idle", "lock", "cancelAll", "done"}]
      /\ deviceLog \in Seq({"you-are-in", "fired", "message"})
  OBVIOUS
<1>4. subType \in [Subs -> Types]
  OBVIOUS
<1> QED
  BY <1>1, <1>2, <1>3, <1>4 DEF TypeOK

\* Every step keeps the types.
LEMMA TypeOKNext == IInv /\ [Next]_vars => TypeOK'
<1> SUFFICES ASSUME IInv, [Next]_vars PROVE TypeOK'
  OBVIOUS
<1> USE ConstantsAssumption
        DEF ConstantsAssumption, IInv, TypeOK, subVars, fireVars, deviceVars
<1>1. CASE HireBegin
  <2>1. hiring' \in BOOLEAN
    BY <1>1 DEF HireBegin
  <2>2. deviceLog' \in Seq({"you-are-in", "fired", "message"})
    BY <1>1 DEF HireBegin, ForceSend
  <2> QED
    BY <1>1, <2>1, <2>2 DEF HireBegin
<1>2. CASE HireCommit
  BY <1>2 DEF HireCommit
<1>3. ASSUME NEW k \in Managers, ContractCancel(k) PROVE TypeOK'
  BY <1>3 DEF ContractCancel
<1>4. ASSUME NEW f \in Fires, FireStart(f) PROVE TypeOK'
  BY <1>4 DEF FireStart
<1>5. ASSUME NEW f \in Fires, FireLocked(f) PROVE TypeOK'
  <2>1. /\ deviceLog' \in Seq({"you-are-in", "fired", "message"})
        /\ contract' \in 0..MaxHires
        /\ cancelled' \subseteq Managers
    <3>1. CASE contract = 0
      BY <1>5, <3>1 DEF FireLocked
    <3>2. CASE contract # 0
      <4>1. cancelled' = cancelled \cup {contract} /\ contract' = 0 /\ contract \in Managers
        BY <1>5, <3>2 DEF FireLocked, Managers
      <4>2. deviceLog' \in Seq({"you-are-in", "fired", "message"})
        <5>1. deviceLog' = Append(deviceLog, "fired") \/ deviceLog' = deviceLog
          BY <1>5, <3>2, Zenon DEF FireLocked, ForceSend
        <5> QED
          BY <5>1
      <4> QED
        BY <4>1, <4>2
    <3> QED
      BY <3>1, <3>2
  <2> QED
    BY <1>5, <2>1 DEF FireLocked
<1>6. ASSUME NEW f \in Fires, FireCancelAll(f) PROVE TypeOK'
  BY <1>6 DEF FireCancelAll
<1>7. CASE Send
  BY <1>7 DEF Send, ForceSend
<1>8. ASSUME NEW s \in Subs, NEW t \in Types, SubscribeMessageType(s, t) PROVE TypeOK'
  BY <1>8 DEF SubscribeMessageType
<1>9. ASSUME NEW s \in Subs, Unsubscribe(s) PROVE TypeOK'
  <2>1. registered' \subseteq Subs
    BY <1>9 DEF Unsubscribe
  <2> QED
    BY <1>9, <2>1 DEF Unsubscribe
<1>10. CASE ShutdownDisconnect
  BY <1>10 DEF ShutdownDisconnect
<1>11. CASE ShutdownCancel
  BY <1>11 DEF ShutdownCancel, Managers
<1>12. CASE UNCHANGED vars
  BY <1>12 DEF vars
<1> HIDE DEF ConstantsAssumption, IInv, TypeOK, subVars, fireVars, deviceVars
<1> QED
  BY <1>1, <1>2, <1>3, <1>4, <1>5, <1>6, <1>7, <1>8, <1>9, <1>10, <1>11, <1>12
  DEF Next

----------------------------------------------------------------------------
\* Sending one more message in its turn keeps the device's log well-formed.
LEMMA LogAppend ==
    ASSUME TypeOK, DeviceSeesEngagements, NEW m \in {"you-are-in", "fired", "message"},
           deviceLog' = Append(deviceLog, m),
           Engaged <=> m # "you-are-in"
    PROVE  DeviceSeesEngagements' /\ (Engaged' <=> m # "fired")
<1> DEFINE n == Len(deviceLog)
<1>1. /\ n \in Nat /\ Len(deviceLog') = n + 1 /\ deviceLog' # <<>>
      /\ deviceLog'[n + 1] = m
      /\ \A i \in 1..n : deviceLog'[i] = deviceLog[i]
      /\ n # 0 => deviceLog # <<>>
      /\ n = 0 => deviceLog = <<>>
  BY DEF TypeOK
<1> HIDE DEF n
<1>2. Engaged' <=> m # "fired"
  BY <1>1 DEF Engaged
<1>3. Engaged <=> n # 0 /\ deviceLog[n] # "fired"
  BY <1>1 DEF Engaged, n
<1>4. DeviceSeesEngagements'
  <2> SUFFICES ASSUME NEW i \in 1..(n + 1)
               PROVE  IF i = 1 \/ deviceLog'[i - 1] = "fired"
                      THEN deviceLog'[i] = "you-are-in"
                      ELSE deviceLog'[i] # "you-are-in"
    BY <1>1 DEF DeviceSeesEngagements
  <2>1. CASE i = n + 1
    <3>1. CASE n = 0
      BY <1>1, <1>3, <2>1, <3>1
    <3>2. CASE n # 0
      <4>1. n \in 1..n /\ deviceLog'[i - 1] = deviceLog[n] /\ i # 1
        BY <1>1, <2>1, <3>2
      <4> QED
        BY <1>1, <1>3, <2>1, <3>2, <4>1
    <3> QED
      BY <3>1, <3>2
  <2>2. CASE i \in 1..n
    <3>1. deviceLog'[i] = deviceLog[i] /\ (i # 1 => deviceLog'[i - 1] = deviceLog[i - 1])
      BY <1>1, <2>2
    <3> QED
      BY <1>1, <2>2, <3>1 DEF DeviceSeesEngagements, n
  <2> QED
    BY <1>1, <2>1, <2>2
<1> QED
  BY <1>2, <1>4

\* The conjuncts of IInv that relate the contract to the connection and to what
\* the device was told.
Engagement ==
    /\ ConnectedUntilShutdown
    /\ HiringIsUncontracted
    /\ DisconnectedIsCancelled
    /\ DeviceAgrees
    /\ DeviceSeesEngagements

engagementVars == <<contract, hiring, cancelled, manager, isConnected, shutdown, deviceLog>>

\* Hire tells the device first; without a connection it changes nothing that
\* anybody else can see.
LEMMA EngagementHireBegin == ASSUME IInv, HireBegin PROVE Engagement'
<1>1. /\ ~hiring /\ contract = 0 /\ manager' = manager + 1 /\ manager < MaxHires
      /\ hiring' = isConnected
      /\ UNCHANGED <<contract, cancelled, isConnected, shutdown>>
  BY DEF HireBegin, ContractUnlocked
<1>2. manager' \in Managers
  BY <1>1, ConstantsAssumption DEF ConstantsAssumption, IInv, TypeOK, Managers
<1>3. isConnected \in BOOLEAN
  BY DEF IInv, TypeOK
<1>4. ConnectedUntilShutdown' /\ HiringIsUncontracted' /\ DisconnectedIsCancelled'
  BY <1>1, <1>2, <1>3
  DEF IInv, ConnectedUntilShutdown, HiringIsUncontracted, DisconnectedIsCancelled
<1>5. CASE isConnected
  <2>1. ~Engaged
    BY <1>1, <1>5 DEF IInv, DeviceAgrees
  <2>2. deviceLog' = Append(deviceLog, "you-are-in")
    BY <1>5 DEF HireBegin, ForceSend
  <2>3. DeviceSeesEngagements' /\ (Engaged' <=> "you-are-in" # "fired")
    BY <2>1, <2>2, LogAppend DEF IInv
  <2> QED
    BY <1>1, <1>4, <1>5, <2>3 DEF Engagement, DeviceAgrees
<1>6. CASE ~isConnected
  <2>1. deviceLog' = deviceLog
    BY <1>6 DEF HireBegin, ForceSend
  <2> QED
    BY <1>1, <1>4, <1>6, <2>1
    DEF IInv, Engagement, DeviceAgrees, DeviceSeesEngagements
<1> QED
  BY <1>5, <1>6

\* The contract becomes valid; shutdown has not passed the actor meanwhile,
\* because Hire holds contractMutex.
LEMMA EngagementHireCommit == ASSUME IInv, HireCommit PROVE Engagement'
<1>1. /\ hiring /\ contract' = manager /\ hiring' = FALSE
      /\ UNCHANGED <<cancelled, manager, isConnected, shutdown, deviceLog>>
  BY DEF HireCommit, deviceVars
<1>2. shutdown # "done"
  BY <1>1 DEF IInv, DisconnectedIsCancelled
<1>3. contract' # 0
  BY <1>1, ConstantsAssumption
  DEF ConstantsAssumption, IInv, HiringIsUncontracted, Managers
<1>4. ConnectedUntilShutdown' /\ HiringIsUncontracted' /\ DisconnectedIsCancelled'
  BY <1>1, <1>2
  DEF IInv, ConnectedUntilShutdown, HiringIsUncontracted, DisconnectedIsCancelled
<1>5. DeviceAgrees' /\ DeviceSeesEngagements'
  BY <1>1, <1>3 DEF IInv, DeviceAgrees, Engaged, DeviceSeesEngagements
<1> QED
  BY <1>4, <1>5 DEF Engagement

\* Cancelling a contract changes nothing but the set of cancelled contracts.
LEMMA EngagementCancel ==
    ASSUME IInv, NEW k \in Managers, ContractCancel(k) PROVE Engagement'
<1>1. /\ cancelled' = cancelled \cup {k}
      /\ UNCHANGED <<contract, hiring, manager, isConnected, shutdown, deviceLog>>
  BY DEF ContractCancel, deviceVars
<1>2. ConnectedUntilShutdown' /\ HiringIsUncontracted' /\ DisconnectedIsCancelled'
  BY <1>1
  DEF IInv, ConnectedUntilShutdown, HiringIsUncontracted, DisconnectedIsCancelled
<1>3. DeviceAgrees' /\ DeviceSeesEngagements'
  BY <1>1 DEF IInv, DeviceAgrees, Engaged, DeviceSeesEngagements
<1> QED
  BY <1>2, <1>3 DEF Engagement

\* fire() tells the device and ends the contract in one critical section.
LEMMA EngagementFireLocked ==
    ASSUME IInv, NEW f \in Fires, FireLocked(f) PROVE Engagement'
<1>1. ~hiring /\ UNCHANGED <<hiring, manager, isConnected, shutdown>>
  BY DEF FireLocked, ContractUnlocked
<1>2. CASE contract = 0
  <2>1. UNCHANGED <<cancelled, contract, deviceLog>>
    BY <1>2 DEF FireLocked
  <2>2. ConnectedUntilShutdown' /\ HiringIsUncontracted' /\ DisconnectedIsCancelled'
    BY <1>1, <2>1
    DEF IInv, ConnectedUntilShutdown, HiringIsUncontracted, DisconnectedIsCancelled
  <2>3. DeviceAgrees' /\ DeviceSeesEngagements'
    BY <1>1, <2>1 DEF IInv, DeviceAgrees, Engaged, DeviceSeesEngagements
  <2> QED
    BY <2>2, <2>3 DEF Engagement
<1>3. CASE contract # 0
  <2>1. contract' = 0
    BY <1>3 DEF FireLocked
  <2>2. ConnectedUntilShutdown' /\ HiringIsUncontracted' /\ DisconnectedIsCancelled'
    BY <1>1, <2>1
    DEF IInv, ConnectedUntilShutdown, HiringIsUncontracted, DisconnectedIsCancelled
  <2>3. CASE isConnected
    <3>1. deviceLog' = Append(deviceLog, "fired")
      BY <1>3, <2>3 DEF FireLocked, ForceSend
    <3>2. Engaged
      BY <1>3, <2>3 DEF IInv, DeviceAgrees
    <3>3. DeviceSeesEngagements' /\ ~Engaged'
      BY <3>1, <3>2, LogAppend DEF IInv
    <3> QED
      BY <1>1, <2>1, <2>2, <3>3 DEF Engagement, DeviceAgrees
  <2>4. CASE ~isConnected
    <3>1. deviceLog' = deviceLog
      BY <1>3, <2>4 DEF FireLocked, ForceSend
    <3> QED
      BY <1>1, <2>2, <2>4, <3>1
      DEF IInv, Engagement, DeviceAgrees, DeviceSeesEngagements
  <2> QED
    BY <2>3, <2>4
<1> QED
  BY <1>2, <1>3

\* Send reaches the device only in an engagement.
LEMMA EngagementSend == ASSUME IInv, Send PROVE Engagement'
<1>1. contract # 0
      /\ UNCHANGED <<contract, hiring, cancelled, manager, isConnected, shutdown>>
  BY DEF Send
<1>2. ConnectedUntilShutdown' /\ HiringIsUncontracted' /\ DisconnectedIsCancelled'
  BY <1>1
  DEF IInv, ConnectedUntilShutdown, HiringIsUncontracted, DisconnectedIsCancelled
<1>3. CASE isConnected
  <2>1. deviceLog' = Append(deviceLog, "message") /\ Engaged
    BY <1>1, <1>3 DEF Send, ForceSend, IInv, DeviceAgrees
  <2>2. DeviceSeesEngagements' /\ Engaged'
    BY <2>1, LogAppend DEF IInv
  <2> QED
    BY <1>1, <1>2, <2>2 DEF Engagement, DeviceAgrees
<1>4. CASE ~isConnected
  <2>1. deviceLog' = deviceLog
    BY <1>4 DEF Send, ForceSend
  <2> QED
    BY <1>1, <1>2, <1>4, <2>1
    DEF IInv, Engagement, DeviceAgrees, DeviceSeesEngagements
<1> QED
  BY <1>3, <1>4

\* shutdown disconnects the actor before it looks at the contract.
LEMMA EngagementShutdown ==
    ASSUME IInv, ShutdownDisconnect \/ ShutdownCancel PROVE Engagement'
<1>1. CASE ShutdownDisconnect
  <2>1. /\ isConnected' = FALSE /\ shutdown' = "disconnected"
        /\ UNCHANGED <<contract, hiring, cancelled, manager, deviceLog>>
    BY <1>1 DEF ShutdownDisconnect, deviceVars
  <2> QED
    BY <2>1
    DEF IInv, Engagement, ConnectedUntilShutdown, HiringIsUncontracted,
        DisconnectedIsCancelled, DeviceAgrees, DeviceSeesEngagements
<1>2. CASE ShutdownCancel
  <2>1. /\ shutdown = "disconnected" /\ shutdown' = "done" /\ ~hiring
        /\ cancelled' = cancelled \cup ({contract} \ {0})
        /\ UNCHANGED <<contract, hiring, manager, isConnected, deviceLog>>
    BY <1>2 DEF ShutdownCancel, ContractUnlocked, deviceVars
  <2>2. ConnectedUntilShutdown' /\ HiringIsUncontracted' /\ DisconnectedIsCancelled'
    BY <2>1
    DEF IInv, ConnectedUntilShutdown, HiringIsUncontracted, DisconnectedIsCancelled
  <2>3. DeviceAgrees' /\ DeviceSeesEngagements'
    BY <2>1 DEF IInv, DeviceAgrees, Engaged, DeviceSeesEngagements
  <2> QED
    BY <2>2, <2>3 DEF Engagement
<1> QED
  BY <1>1, <1>2

\* The other steps do not touch the engagement.
LEMMA EngagementUnchanged ==
    ASSUME IInv, UNCHANGED engagementVars PROVE Engagement'
<1> USE DEF IInv, engagementVars
<1>1. ConnectedUntilShutdown' /\ HiringIsUncontracted' /\ DisconnectedIsCancelled'
  BY DEF ConnectedUntilShutdown, HiringIsUncontracted, DisconnectedIsCancelled
<1>2. DeviceAgrees' /\ DeviceSeesEngagements'
  BY DEF DeviceAgrees, Engaged, DeviceSeesEngagements
<1> QED
  BY <1>1, <1>2 DEF Engagement

\* Every step keeps the engagement sound.
LEMMA EngagementNext == IInv /\ [Next]_vars => Engagement'
<1> SUFFICES ASSUME IInv, [Next]_vars PROVE Engagement'
  OBVIOUS
<1>1. ASSUME \/ \E f \in Fires : FireStart(f) \/ FireCancelAll(f)
             \/ \E s \in Subs, t \in Types : SubscribeMessageType(s, t)
             \/ \E s \in Subs : Unsubscribe(s)
             \/ UNCHANGED vars
      PROVE  UNCHANGED engagementVars
  BY <1>1, Zenon
  DEF FireStart, FireCancelAll, SubscribeMessageType, Unsubscribe, vars, engagementVars,
      deviceVars
<1> QED
  BY <1>1, EngagementUnchanged, EngagementHireBegin, EngagementHireCommit,
     EngagementCancel, EngagementFireLocked, EngagementSend, EngagementShutdown
  DEF Next

----------------------------------------------------------------------------
\* The invariant holds in every reachable state.
THEOREM Invariance == Spec => []IInv
<1>1. Init => IInv
  <2> SUFFICES ASSUME Init PROVE IInv
    OBVIOUS
  <2>1. ConnectedUntilShutdown /\ HiringIsUncontracted /\ DisconnectedIsCancelled
    BY DEF Init, ConnectedUntilShutdown, HiringIsUncontracted, DisconnectedIsCancelled
  <2>2. DeviceAgrees /\ DeviceSeesEngagements
    BY DEF Init, DeviceAgrees, Engaged, DeviceSeesEngagements
  <2> QED
    BY <2>1, <2>2, TypeOKInit DEF IInv
<1>2. IInv /\ [Next]_vars => IInv'
  BY TypeOKNext, EngagementNext DEF IInv, Engagement
<1> QED
  BY <1>1, <1>2, PTL DEF Spec

\* Type correctness of the actor and its contract.
THEOREM TypeCorrect == Spec => []TypeOK
<1>1. IInv => TypeOK
  BY DEF IInv
<1> QED
  BY Invariance, <1>1, PTL

\* shutdown leaves no contract behind that nobody will end, whatever Hire does
\* at the same time.
THEOREM ShutdownCancelsContract == Spec => []DisconnectedIsCancelled
<1>1. IInv => DisconnectedIsCancelled
  BY DEF IInv
<1> QED
  BY Invariance, <1>1, PTL

\* The device always sees well-formed engagements.
THEOREM EngagementsWellFormed == Spec => []DeviceSeesEngagements
<1>1. IInv => DeviceSeesEngagements
  BY DEF IInv
<1> QED
  BY Invariance, <1>1, PTL

\* A connected device and the server agree on whether the actor is hired.
THEOREM DeviceAndServerAgree == Spec => []DeviceAgrees
<1>1. IInv => DeviceAgrees
  BY DEF IInv
<1> QED
  BY Invariance, <1>1, PTL

----------------------------------------------------------------------------
\* Without callers of FireAllActors only a contract's own goroutine fires.
LEMMA PendingFireNext ==
    ASSUME Firers = {}, IInv, PendingFire, [Next]_vars PROVE PendingFire'
<1> USE DEF PendingFire
<1>1. Fires = Managers /\ cancelled \subseteq Managers
      /\ fire \in [Managers -> {"idle", "lock", "cancelAll", "done"}]
  BY DEF Fires, IInv, TypeOK
<1>2. CASE HireBegin
  BY <1>2 DEF HireBegin, fireVars
<1>3. CASE HireCommit
  <2>1. /\ contract' = manager /\ UNCHANGED <<fire, cancelled>> /\ hiring
    BY <1>3 DEF HireCommit, fireVars
  <2>2. contract = 0 /\ 0 \notin Managers
    BY <2>1, ConstantsAssumption
    DEF IInv, HiringIsUncontracted, Managers, ConstantsAssumption
  <2> QED
    BY <1>1, <2>1, <2>2
<1>4. ASSUME NEW k \in Managers, ContractCancel(k) PROVE PendingFire'
  BY <1>1, <1>4 DEF ContractCancel, fireVars
<1>5. ASSUME NEW f \in Fires, FireStart(f) PROVE PendingFire'
  <2>1. /\ f \in cancelled /\ fire[f] = "idle" /\ fire' = [fire EXCEPT ![f] = "lock"]
        /\ UNCHANGED <<cancelled, contract>>
    BY <1>5 DEF FireStart
  <2> QED
    BY <1>1, <1>5, <2>1
<1>6. ASSUME NEW f \in Fires, FireLocked(f) PROVE PendingFire'
  <2>1. fire[f] = "lock" /\ fire' = [fire EXCEPT ![f] = "cancelAll"]
    BY <1>6 DEF FireLocked
  <2>2. f \in cancelled /\ f = contract /\ f # 0
    BY <1>1, <1>6, <2>1, ConstantsAssumption DEF Managers, ConstantsAssumption
  <2>3. cancelled' = cancelled
    BY <1>6, <2>2 DEF FireLocked
  <2> QED
    BY <1>1, <1>6, <2>1, <2>2, <2>3
<1>7. ASSUME NEW f \in Fires, FireCancelAll(f) PROVE PendingFire'
  <2>1. /\ fire[f] = "cancelAll" /\ fire' = [fire EXCEPT ![f] = "done"]
        /\ UNCHANGED <<cancelled, contract>>
    BY <1>7 DEF FireCancelAll
  <2> QED
    BY <1>1, <1>7, <2>1
<1>8. CASE ShutdownCancel
  BY <1>1, <1>8 DEF ShutdownCancel, fireVars
<1>9. ASSUME \/ Send \/ ShutdownDisconnect
             \/ \E s \in Subs, t \in Types : SubscribeMessageType(s, t)
             \/ \E s \in Subs : Unsubscribe(s)
             \/ UNCHANGED vars
      PROVE  UNCHANGED <<fire, cancelled, contract>>
  BY <1>9, Zenon
  DEF Send, ShutdownDisconnect, SubscribeMessageType, Unsubscribe, vars, fireVars
<1>10. ASSUME UNCHANGED <<fire, cancelled, contract>> PROVE PendingFire'
  BY <1>10
<1> HIDE DEF PendingFire
<1> QED
  BY <1>2, <1>3, <1>4, <1>5, <1>6, <1>7, <1>8, <1>9, <1>10 DEF Next

\* If nobody calls FireAllActors, a contract ends only after it was cancelled,
\* by its holder or by the shutdown of the device.
THEOREM ContractIsKept == ASSUME Firers = {} PROVE Spec => ContractEndsOnRequest
<1> DEFINE OnRequest == contract # 0 /\ contract' = 0
                          => \/ contract \in cancelled
                             \/ \E f \in Firers : fire[f] = "lock" /\ fire'[f] # "lock"
<1>1. Init => PendingFire
  BY ConstantsAssumption DEF Init, PendingFire, Fires
<1>2. IInv /\ PendingFire /\ [Next]_vars => PendingFire'
  BY PendingFireNext
<1>3. IInv /\ PendingFire /\ [Next]_vars => [OnRequest]_vars
  <2> SUFFICES ASSUME IInv, PendingFire, Next, contract # 0, contract' = 0
               PROVE  contract \in cancelled
    OBVIOUS
  <2>1. ASSUME NEW f \in Fires, FireLocked(f) PROVE contract \in cancelled
    BY <2>1 DEF FireLocked, PendingFire, Fires
  <2>2. CASE HireCommit
    BY <2>2 DEF HireCommit, IInv, HiringIsUncontracted
  <2>3. ASSUME \/ HireBegin \/ Send \/ ShutdownDisconnect \/ ShutdownCancel
               \/ \E k \in Managers : ContractCancel(k)
               \/ \E f \in Fires : FireStart(f) \/ FireCancelAll(f)
               \/ \E s \in Subs, t \in Types : SubscribeMessageType(s, t)
               \/ \E s \in Subs : Unsubscribe(s)
        PROVE  UNCHANGED contract
    BY <2>3, Zenon
    DEF HireBegin, Send, ShutdownDisconnect, ShutdownCancel, ContractCancel, FireStart,
        FireCancelAll, SubscribeMessageType, Unsubscribe
  <2> QED
    BY <2>1, <2>2, <2>3 DEF Next
<1>4. Spec => []PendingFire
  BY Invariance, <1>1, <1>2, PTL DEF Spec
<1> QED
  BY Invariance, <1>3, <1>4, PTL DEF Spec, ContractEndsOnRequest

----------------------------------------------------------------------------
(* What the end of a contract leaves behind.                                 *)

\* When a device is gone and the goroutines of the cancelled contracts have had
\* their turn, its actor has no contract.
DisconnectedIsFired ==
    shutdown = "done" /\ (\A k \in cancelled : fire[k] \in {"cancelAll", "done"}) => contract = 0

\* An actor of a device that is gone is not hired again.
FiredStaysFired ==
    [][shutdown # "running" /\ contract = 0 /\ ~hiring => contract' = 0 /\ ~hiring']_vars

\* The goroutine of a contract leaves none of its subscriptions behind.
FireTakesSubscriptions ==
    [][\A k \in Managers : fire[k] # "done" /\ fire'[k] = "done" => \A s \in registered' : s[1] # k]_vars

\* A contract is cancelled when it is valid, and its goroutine, which fires whoever
\* is hired then, comes after that: a contract does not become valid again.
ContractsPass ==
    /\ contract # 0 => contract = manager
    /\ \A k \in cancelled : k <= manager /\ (hiring => k # manager)
    /\ \A k \in Managers : fire[k] # "idle" => k \in cancelled
    /\ \A k \in Managers : fire[k] \in {"cancelAll", "done"} => contract # k

\* fire() has read the manager of its own contract.
FiresOwn == \A k \in Managers : fire[k] # "idle" => fireManager[k] = k

\* Every step keeps ContractsPass.
LEMMA ContractsPassNext == IInv /\ ContractsPass /\ [Next]_vars => ContractsPass'
<1> SUFFICES ASSUME IInv, ContractsPass, [Next]_vars PROVE ContractsPass'
  OBVIOUS
<1>1. /\ contract \in Nat /\ manager \in Nat /\ cancelled \subseteq Managers
      /\ \A k \in Managers : k \in Nat /\ k # 0
      /\ Managers \subseteq Fires /\ fire \in [Fires -> {"idle", "lock", "cancelAll", "done"}]
  BY ConstantsAssumption DEF ConstantsAssumption, IInv, TypeOK, Managers, Fires
<1>2. CASE HireBegin
  <2>1. /\ UNCHANGED <<contract, cancelled, fire>> /\ contract = 0 /\ manager' = manager + 1
    BY <1>2 DEF HireBegin, fireVars
  <2>2. \A k \in cancelled : k <= manager' /\ k # manager'
    BY <1>1, <2>1 DEF ContractsPass
  <2> QED
    BY <2>1, <2>2 DEF ContractsPass
<1>3. CASE HireCommit
  BY <1>3 DEF HireCommit, fireVars, ContractsPass
<1>4. ASSUME NEW k \in Managers, ContractCancel(k) PROVE ContractsPass'
  <2>1. k = contract /\ ~hiring /\ k <= manager
    BY <1>1, <1>4 DEF ContractCancel, IInv, HiringIsUncontracted, ContractsPass
  <2> QED
    BY <1>4, <2>1 DEF ContractCancel, fireVars, ContractsPass
<1>5. ASSUME NEW f \in Fires, FireStart(f) PROVE ContractsPass'
  <2>1. /\ fire' = [fire EXCEPT ![f] = "lock"] /\ UNCHANGED <<contract, manager, cancelled, hiring>>
        /\ f \in Managers => f \in cancelled
    BY <1>5, ConstantsAssumption DEF FireStart, ConstantsAssumption, Managers
  <2>2. \A k \in Managers : fire'[k] # "idle" => k \in cancelled
    BY <1>1, <2>1 DEF ContractsPass
  <2>3. \A k \in Managers : fire'[k] \in {"cancelAll", "done"} => contract # k
    BY <1>1, <2>1 DEF ContractsPass
  <2> QED
    BY <2>1, <2>2, <2>3 DEF ContractsPass
<1>6. ASSUME NEW f \in Fires, FireLocked(f) PROVE ContractsPass'
  <2>1. /\ fire[f] = "lock" /\ fire' = [fire EXCEPT ![f] = "cancelAll"] /\ UNCHANGED <<manager, hiring>>
        /\ contract' = 0 /\ ~hiring
        /\ \A k \in cancelled' : k \in cancelled \/ k = contract
        /\ cancelled \subseteq cancelled'
        /\ \A k \in cancelled' : k \in cancelled \/ contract # 0
    BY <1>6 DEF FireLocked, ContractUnlocked
  <2>2. \A k \in cancelled' : k <= manager
    BY <1>1, <2>1 DEF ContractsPass
  <2>3. \A k \in Managers : fire'[k] # "idle" => k \in cancelled'
    BY <1>1, <2>1 DEF ContractsPass
  <2> QED
    BY <1>1, <2>1, <2>2, <2>3 DEF ContractsPass
<1>7. ASSUME NEW f \in Fires, FireCancelAll(f) PROVE ContractsPass'
  <2>1. /\ fire[f] = "cancelAll" /\ fire' = [fire EXCEPT ![f] = "done"]
        /\ UNCHANGED <<contract, manager, cancelled, hiring>>
    BY <1>7 DEF FireCancelAll
  <2> QED
    BY <1>1, <2>1 DEF ContractsPass
<1>8. CASE ShutdownCancel
  <2>1. /\ UNCHANGED <<contract, manager, fire, hiring>> /\ ~hiring
        /\ \A k \in cancelled' : k \in cancelled \/ (k = contract /\ contract # 0)
        /\ cancelled \subseteq cancelled'
    BY <1>8 DEF ShutdownCancel, ContractUnlocked, fireVars
  <2>2. \A k \in cancelled' : k <= manager
    BY <1>1, <2>1 DEF ContractsPass
  <2> QED
    BY <2>1, <2>2 DEF ContractsPass
<1>9. ASSUME \/ Send \/ ShutdownDisconnect
             \/ \E s \in Subs, t \in Types : SubscribeMessageType(s, t)
             \/ \E s \in Subs : Unsubscribe(s)
             \/ UNCHANGED vars
      PROVE  UNCHANGED <<contract, manager, cancelled, hiring, fire>>
  BY <1>9, Zenon
  DEF Send, ShutdownDisconnect, SubscribeMessageType, Unsubscribe, vars, fireVars
<1>10. ASSUME UNCHANGED <<contract, manager, cancelled, hiring, fire>> PROVE ContractsPass'
  BY <1>10 DEF ContractsPass
<1> QED
  BY <1>2, <1>3, <1>4, <1>5, <1>6, <1>7, <1>8, <1>9, <1>10 DEF Next

\* ContractsPass holds in every reachable state.
LEMMA ContractsPassInvariance == Spec => []ContractsPass
<1>1. Init => ContractsPass
  BY ConstantsAssumption DEF Init, ContractsPass, Managers, Fires
<1> QED
  BY <1>1, ContractsPassNext, Invariance, PTL DEF Spec

\* After a disconnect the actor is fired and stays so, whoever hires, fires or
\* cancels meanwhile: the Hire that is under way when the device goes is ended by
\* shutdown, and every later one fails.
THEOREM DisconnectedIsFiredForGood == Spec => []DisconnectedIsFired /\ FiredStaysFired
<1>1. IInv /\ ContractsPass => DisconnectedIsFired
  <2> SUFFICES ASSUME IInv, ContractsPass, shutdown = "done", contract # 0,
                      \A k \in cancelled : fire[k] \in {"cancelAll", "done"}
               PROVE  FALSE
    BY DEF DisconnectedIsFired
  <2>1. contract \in cancelled /\ contract \in Managers
    BY DEF IInv, TypeOK, DisconnectedIsCancelled
  <2> QED
    BY <2>1 DEF ContractsPass
<1>2. IInv /\ [Next]_vars => (shutdown # "running" /\ contract = 0 /\ ~hiring => contract' = 0 /\ ~hiring')
  <2> SUFFICES ASSUME IInv, [Next]_vars, shutdown # "running", contract = 0, ~hiring
               PROVE  contract' = 0 /\ ~hiring'
    OBVIOUS
  <2>1. CASE HireBegin \/ HireCommit
    BY <2>1 DEF HireBegin, HireCommit, IInv, ConnectedUntilShutdown
  <2>2. ASSUME NEW f \in Fires, FireLocked(f) PROVE contract' = 0 /\ ~hiring'
    BY <2>2 DEF FireLocked
  <2>3. ASSUME \/ Send \/ ShutdownDisconnect \/ ShutdownCancel
               \/ \E k \in Managers : ContractCancel(k)
               \/ \E f \in Fires : FireStart(f) \/ FireCancelAll(f)
               \/ \E s \in Subs, t \in Types : SubscribeMessageType(s, t)
               \/ \E s \in Subs : Unsubscribe(s)
               \/ UNCHANGED vars
        PROVE  UNCHANGED <<contract, hiring>>
    BY <2>3, Zenon DEF Send, ShutdownDisconnect, ShutdownCancel, ContractCancel, FireStart,
       FireCancelAll, SubscribeMessageType, Unsubscribe, vars
  <2> QED
    BY <2>1, <2>2, <2>3 DEF Next
<1> QED
  BY <1>1, <1>2, Invariance, ContractsPassInvariance, PTL DEF Spec, FiredStaysFired

\* Without callers of FireAllActors the goroutine of a contract is there before
\* the next Hire.
LEMMA FiresOwnNext ==
    ASSUME Firers = {}, IInv, PendingFire, ContractsPass, FiresOwn, [Next]_vars PROVE FiresOwn'
<1>1. /\ Fires = Managers /\ fireManager \in [Managers -> 0..MaxHires]
      /\ fire \in [Managers -> {"idle", "lock", "cancelAll", "done"}]
      /\ \A k \in Managers : k # 0
  BY ConstantsAssumption DEF ConstantsAssumption, Fires, IInv, TypeOK, Managers
<1>2. ASSUME NEW f \in Fires, FireStart(f) PROVE FiresOwn'
  <2>1. /\ f \in cancelled /\ fire[f] = "idle"
        /\ fire' = [fire EXCEPT ![f] = "lock"] /\ fireManager' = [fireManager EXCEPT ![f] = manager]
    BY <1>2 DEF FireStart
  <2>2. f = manager
    BY <1>1, <1>2, <2>1 DEF PendingFire, ContractsPass
  <2> QED
    BY <1>1, <2>1, <2>2 DEF FiresOwn
<1>3. ASSUME NEW f \in Fires, FireLocked(f) \/ FireCancelAll(f) PROVE FiresOwn'
  <2>1. fire[f] # "idle" /\ UNCHANGED fireManager /\ \E to \in {"cancelAll", "done"} : fire' = [fire EXCEPT ![f] = to]
    BY <1>3 DEF FireLocked, FireCancelAll
  <2> QED
    BY <1>1, <1>3, <2>1 DEF FiresOwn
<1>4. ASSUME UNCHANGED fireVars PROVE FiresOwn'
  BY <1>4 DEF fireVars, FiresOwn
<1>5. ASSUME \/ HireBegin \/ HireCommit \/ Send \/ ShutdownDisconnect \/ ShutdownCancel
             \/ \E k \in Managers : ContractCancel(k)
             \/ \E s \in Subs, t \in Types : SubscribeMessageType(s, t)
             \/ \E s \in Subs : Unsubscribe(s)
             \/ UNCHANGED vars
      PROVE  UNCHANGED fireVars
  BY <1>5, Zenon DEF HireBegin, HireCommit, Send, ShutdownDisconnect, ShutdownCancel, ContractCancel,
     SubscribeMessageType, Unsubscribe, vars
<1> QED
  BY <1>2, <1>3, <1>4, <1>5 DEF Next

\* "We do not need to unsubscribe because this will be done when the actor is
\* fired" (device management): if nobody calls FireAllActors, fire() cancels the
\* subscriptions of the contract that it is for, also when the actor is hired
\* again before it gets to them. Only who subscribes later is left.
THEOREM FireIsThorough == ASSUME Firers = {} PROVE Spec => FireTakesSubscriptions
<1> DEFINE Thorough == \A k \in Managers :
                          fire[k] # "done" /\ fire'[k] = "done" => \A s \in registered' : s[1] # k
<1>1. Init => PendingFire /\ FiresOwn
  BY ConstantsAssumption DEF Init, PendingFire, FiresOwn, Fires
<1>2. IInv /\ ContractsPass /\ PendingFire /\ FiresOwn /\ [Next]_vars => PendingFire' /\ FiresOwn'
  BY PendingFireNext, FiresOwnNext
<1>3. IInv /\ FiresOwn /\ [Next]_vars => [Thorough]_vars
  <2> SUFFICES ASSUME IInv, FiresOwn, Next, NEW k \in Managers, fire[k] # "done", fire'[k] = "done"
               PROVE  \A s \in registered' : s[1] # k
    OBVIOUS
  <2>1. k \in Fires /\ fire \in [Fires -> {"idle", "lock", "cancelAll", "done"}]
    BY DEF Fires, IInv, TypeOK
  <2>2. ASSUME NEW f \in Fires, FireCancelAll(f) PROVE \A s \in registered' : s[1] # k
    <3>1. f = k /\ fire[f] = "cancelAll"
      BY <2>1, <2>2 DEF FireCancelAll
    <3>2. fireManager[f] = k
      BY <3>1 DEF FiresOwn
    <3> QED
      BY <2>2, <3>2 DEF FireCancelAll
  <2>3. ASSUME NEW f \in Fires, FireStart(f) \/ FireLocked(f) PROVE FALSE
    <3>1. \E to \in {"lock", "cancelAll"} : fire' = [fire EXCEPT ![f] = to]
      BY <2>3 DEF FireStart, FireLocked
    <3> QED
      BY <2>1, <3>1
  <2>4. ASSUME \/ HireBegin \/ HireCommit \/ Send \/ ShutdownDisconnect \/ ShutdownCancel
               \/ \E c \in Managers : ContractCancel(c)
               \/ \E s \in Subs, t \in Types : SubscribeMessageType(s, t)
               \/ \E s \in Subs : Unsubscribe(s)
        PROVE  UNCHANGED fire
    BY <2>4, Zenon DEF HireBegin, HireCommit, Send, ShutdownDisconnect, ShutdownCancel, ContractCancel,
       SubscribeMessageType, Unsubscribe, fireVars
  <2> QED
    BY <2>2, <2>3, <2>4 DEF Next
<1> QED
  BY <1>1, <1>2, <1>3, Invariance, ContractsPassInvariance, PTL DEF Spec, FireTakesSubscriptions

----------------------------------------------------------------------------
(* NetActorDevice: the same actor, seen from its locks and channels.         *)

\* Once shutdown has got isConnectedMutex nobody is at the channel, and nobody
\* gets there anymore: forceSend finds the connection gone.
ChannelIsLeft ==
    stopping \in {"contract", "wait", "done"}
        => ~linked /\ \A s \in Senders : sender[s] # "channel"

\* The answer to an unknown actor, which no mutex protects, is a matter of
\* routeIncoming alone: it waits for the answer, and shutdown waits for it.
ErrorIsRouters ==
    /\ \A s \in Senders : sender[s] = "error" => s = "router"
    /\ sender["router"] = "error" => routeIncoming = "sending"
    /\ stopping = "done" => routeIncoming = "exited"

\* The inductive invariant of the routers.
RoutersInv == RoutersTypeOK /\ ChannelIsLeft /\ ErrorIsRouters

\* At the start nobody sends and the device is connected.
LEMMA RoutersInvInit == ASSUME RoutersInit PROVE RoutersInv
<1>1. RoutersTypeOK
  BY RoutersConstants
  DEF RoutersConstants, RoutersInit, RoutersTypeOK, Senders
<1>2. ChannelIsLeft /\ ErrorIsRouters
  BY DEF RoutersInit, ChannelIsLeft, ErrorIsRouters, Senders
<1> QED
  BY <1>1, <1>2 DEF RoutersInv

\* A goroutine in netActor.Send: its two checks, and the router that takes its
\* message.  Only a connected device lets it through to the channel.
LEMMA RoutersSend ==
    ASSUME RoutersInv, NEW s \in Senders,
           \/ SendCheckContract(s) \/ SendCheckConnected(s)
           \/ RouteOutgoingReceive(s) \/ RouteOutgoingEncodeError(s)
    PROVE  RoutersInv'
<1> USE DEF RoutersInv, Senders, GoTo, incomingVars,
        outgoingVars, newsletterVars, lifeVars
<1>1. PICK pc \in {"none", "connected", "channel"} :
        /\ sender' = [sender EXCEPT ![s] = pc]
        /\ pc = "channel" => linked
  BY DEF SendCheckContract, SendCheckConnected,
         RouteOutgoingReceive, RouteOutgoingEncodeError
<1>2. /\ routeOutgoing' \in {"select", "holding", "exited"}
      /\ UNCHANGED <<incoming, routeIncoming, outgoingPump, clientSend, hirerSends,
                     forwarder, subscribed, routerCtx, engagement, linked, firing, stopping>>
  BY DEF RoutersTypeOK, SendCheckContract, SendCheckConnected,
         RouteOutgoingReceive, RouteOutgoingEncodeError
<1>3. RoutersTypeOK'
  BY <1>1, <1>2 DEF RoutersTypeOK
<1>4. ChannelIsLeft'
  BY <1>1, <1>2 DEF RoutersTypeOK, ChannelIsLeft
<1>5. ErrorIsRouters'
  BY <1>1, <1>2 DEF RoutersTypeOK, ErrorIsRouters
<1> QED
  BY <1>3, <1>4, <1>5

\* The hirer begins to send, the handler answers, the incoming router looks up
\* the actor or answers that it has none.
LEMMA RoutersBegin ==
    ASSUME RoutersInv,
           \/ HirerSend \/ HandlerRead
           \/ RouteIncomingLookup \/ HandleMessageForbidden
    PROVE  RoutersInv'
<1> USE DEF RoutersInv, Senders, GoTo, incomingVars,
        outgoingVars, newsletterVars, lifeVars
<1>1. CASE HirerSend
  <2>1. RoutersTypeOK'
    BY <1>1, RoutersConstants
    DEF RoutersConstants, HirerSend, RoutersTypeOK
  <2>2. ChannelIsLeft' /\ ErrorIsRouters'
    BY <1>1 DEF HirerSend, RoutersTypeOK, ChannelIsLeft, ErrorIsRouters
  <2> QED
    BY <2>1, <2>2
<1>2. CASE HandlerRead
  <2>1. RoutersTypeOK'
    BY <1>2 DEF HandlerRead, RoutersTypeOK
  <2>2. ChannelIsLeft' /\ ErrorIsRouters'
    BY <1>2 DEF HandlerRead, RoutersTypeOK, ChannelIsLeft, ErrorIsRouters
  <2> QED
    BY <2>1, <2>2
<1>3. CASE RouteIncomingLookup
  <2>1. RoutersTypeOK'
    BY <1>3 DEF RouteIncomingLookup, RoutersTypeOK
  <2>2. ChannelIsLeft' /\ ErrorIsRouters'
    BY <1>3 DEF RouteIncomingLookup, RoutersTypeOK, ChannelIsLeft, ErrorIsRouters
  <2> QED
    BY <2>1, <2>2
<1>4. CASE HandleMessageForbidden
  <2>1. RoutersTypeOK'
    BY <1>4 DEF HandleMessageForbidden, RoutersTypeOK
  <2>2. ChannelIsLeft' /\ ErrorIsRouters'
    BY <1>4 DEF HandleMessageForbidden, RoutersTypeOK, ChannelIsLeft, ErrorIsRouters
  <2> QED
    BY <2>1, <2>2
<1> QED
  BY <1>1, <1>2, <1>3, <1>4

\* The other steps of the routers, the pump, the writer and the forwarder leave
\* every sender where it is.
LEMMA RoutersRoute ==
    ASSUME RoutersInv,
           \/ RouteOutgoingPass \/ RouteOutgoingExit
           \/ OutgoingPumpSend \/ WritePump
           \/ RouteIncomingReceive \/ HandleMessageForward
           \/ RouteIncomingSent \/ RouteIncomingExit
           \/ ForwarderClose
    PROVE  RoutersInv'
<1> USE DEF RoutersInv, incomingVars, outgoingVars, sendVars,
        newsletterVars, lifeVars
<1>1. UNCHANGED <<sender, hirerSends, linked, stopping, routerCtx, engagement, firing, subscribed>>
  BY DEF RouteOutgoingPass, RouteOutgoingExit, OutgoingPumpSend,
         WritePump, RouteIncomingReceive, HandleMessageForward,
         RouteIncomingSent, RouteIncomingExit, ForwarderClose
<1>2. clientSend' \in 0..ClientBuffer /\ incoming' \in 0..MaxIncoming
  BY RoutersConstants
  DEF RoutersConstants, RoutersTypeOK, RouteOutgoingPass,
      RouteOutgoingExit, OutgoingPumpSend, WritePump,
      RouteIncomingReceive, HandleMessageForward,
      RouteIncomingSent, RouteIncomingExit, ForwarderClose
<1>3. /\ routeOutgoing' \in {"select", "holding", "exited"}
      /\ outgoingPump' \in {"idle", "holding"}
      /\ forwarder' \in {"receiving", "holding", "closed"}
  BY DEF RoutersTypeOK, RouteOutgoingPass,
      RouteOutgoingExit, OutgoingPumpSend, WritePump,
      RouteIncomingReceive, HandleMessageForward,
      RouteIncomingSent, RouteIncomingExit, ForwarderClose
<1>4. \/ UNCHANGED routeIncoming
      \/ /\ routeIncoming \in {"select", "handle"} \/ sender["router"] = "none"
         /\ routeIncoming # "exited"
         /\ routeIncoming' \in {"select", "known", "unknown", "forbidden", "exited"}
  BY DEF RouteOutgoingPass, RouteOutgoingExit, OutgoingPumpSend,
         WritePump, RouteIncomingReceive, HandleMessageForward,
         RouteIncomingSent, RouteIncomingExit, ForwarderClose
<1>5. RoutersTypeOK'
  BY <1>1, <1>2, <1>3, <1>4 DEF RoutersTypeOK, Senders
<1>6. ChannelIsLeft'
  BY <1>1 DEF ChannelIsLeft
<1>7. ErrorIsRouters'
  BY <1>1, <1>4 DEF ErrorIsRouters
<1> QED
  BY <1>5, <1>6, <1>7

\* The contract's end and fire(), which waits to send like everybody else.
LEMMA RoutersFire ==
    ASSUME RoutersInv,
           \/ ActorContractCancel \/ FireLock \/ FireSend
           \/ FireCommit \/ FireCancelSubscriptions
    PROVE  RoutersInv'
<1> USE DEF RoutersInv, incomingVars, outgoingVars, sendVars,
        newsletterVars, GoTo
<1>1. /\ UNCHANGED <<incoming, routeIncoming, routeOutgoing, outgoingPump, clientSend,
                     hirerSends, forwarder, routerCtx, linked, stopping>>
      /\ sender' \in {sender, [sender EXCEPT !["fire"] = "connected"]}
  BY DEF ActorContractCancel, FireLock, FireSend,
         FireCommit, FireCancelSubscriptions
<1>2. /\ engagement' \in {"valid", "cancelled", "none"}
      /\ subscribed' \in BOOLEAN
      /\ firing' \in {"idle", "lock", "send", "cancelAll", "done"}
  BY DEF RoutersTypeOK, ActorContractCancel, FireLock, FireSend,
         FireCommit, FireCancelSubscriptions
<1>3. RoutersTypeOK'
  BY <1>1, <1>2 DEF RoutersTypeOK, Senders
<1>4. ChannelIsLeft' /\ ErrorIsRouters'
  BY <1>1 DEF RoutersTypeOK, Senders, ChannelIsLeft, ErrorIsRouters
<1> QED
  BY <1>3, <1>4

\* shutdown: it gets isConnectedMutex when nobody is at the channel, and returns
\* when both routers have.
LEMMA RoutersShutdown ==
    ASSUME RoutersInv,
           \/ ShutdownBegin \/ ShutdownLockActors
           \/ ShutdownSetDisconnected \/ ShutdownCancelContract
           \/ ShutdownReturn
    PROVE  RoutersInv'
<1> USE DEF RoutersInv, incomingVars, outgoingVars, sendVars,
        newsletterVars
<1>1. UNCHANGED <<incoming, routeIncoming, routeOutgoing, outgoingPump, clientSend,
                  sender, hirerSends, forwarder, subscribed, firing>>
  BY DEF ShutdownBegin, ShutdownLockActors, ShutdownSetDisconnected,
         ShutdownCancelContract, ShutdownReturn
<1>2. /\ engagement' \in {"valid", "cancelled", "none"}
      /\ routerCtx' \in BOOLEAN /\ linked' \in BOOLEAN
      /\ stopping' \in {"running", "actors", "disconnect", "contract", "wait", "done"}
  BY DEF RoutersTypeOK, ShutdownBegin, ShutdownLockActors,
         ShutdownSetDisconnected, ShutdownCancelContract, ShutdownReturn
<1>3. RoutersTypeOK'
  BY <1>1, <1>2 DEF RoutersTypeOK, Senders
<1>4. ChannelIsLeft'
  BY <1>1 DEF ChannelIsLeft, ConnectedReaders, ShutdownBegin,
         ShutdownLockActors, ShutdownSetDisconnected, ShutdownCancelContract,
         ShutdownReturn
<1>5. ErrorIsRouters'
  BY <1>1 DEF ErrorIsRouters, ShutdownBegin, ShutdownLockActors,
         ShutdownSetDisconnected, ShutdownCancelContract, ShutdownReturn
<1> QED
  BY <1>3, <1>4, <1>5

\* Every step of the routers' module keeps the invariant.
LEMMA RoutersInvNext ==
    ASSUME RoutersInv, [RoutersNext]_routerVars
    PROVE  RoutersInv'
<1>1. CASE UNCHANGED routerVars
  BY <1>1 DEF RoutersInv, RoutersTypeOK, ChannelIsLeft, ErrorIsRouters, routerVars,
       incomingVars, outgoingVars, sendVars,
       newsletterVars, lifeVars
<1>2. CASE Terminated
  BY <1>1, <1>2 DEF Terminated
<1> QED
  BY <1>1, <1>2, RoutersSend, RoutersBegin, RoutersRoute, RoutersFire, RoutersShutdown
  DEF RoutersNext

\* When netActorDevice.shutdown has returned, no goroutine waits at the channel
\* of a router that is gone: whatever the bounds, the client's buffer, messages
\* to unknown actors and contents that cannot be encoded.
THEOREM NobodyIsLeftAtChannel ==
    RoutersSpec => []NobodyLeftAtChannel
<1>1. RoutersInv => NobodyLeftAtChannel
  BY DEF RoutersInv, ChannelIsLeft, ErrorIsRouters, NobodyLeftAtChannel, Senders
<1>2. RoutersInit => RoutersInv
  BY RoutersInvInit
<1>3. RoutersInv /\ [RoutersNext]_routerVars => RoutersInv'
  BY RoutersInvNext
<1> QED
  BY <1>1, <1>2, <1>3, PTL DEF RoutersSpec

----------------------------------------------------------------------------
(* No deadlock.  ENABLED is beyond the provers: the goroutines that can move *)
(* are told by the guards of their actions, those that need nothing from     *)
(* outside (a message, a cancellation, a lost connection) to happen.         *)

\* A sender gets its read lock, or a router that takes its message.
SenderCanMove ==
    \E s \in Senders :
        \/ sender[s] = "contract" /\ ContractRLock
        \/ sender[s] = "connected" /\ ConnectedRLock
        \/ sender[s] \in {"channel", "error"} /\ routeOutgoing = "select"

\* The way out: routeOutgoing, the outgoing pump or the client's writer.
OutgoingCanMove ==
    \/ routeOutgoing = "holding" /\ outgoingPump = "idle"
    \/ routeOutgoing = "select" /\ ~routerCtx
    \/ outgoingPump = "holding" /\ clientSend < ClientBuffer
    \/ stopping = "running" /\ clientSend > 0

\* The way in: routeIncoming, the forwarder or the handler.
IncomingCanMove ==
    \/ routeIncoming \in {"known", "unknown", "forbidden"} /\ ActorsRLock
    \/ routeIncoming = "refuse"
    \/ routeIncoming = "handle" /\ (forwarder = "receiving" \/ ~subscribed)
    \/ routeIncoming = "sending" /\ sender["router"] = "none"
    \/ routeIncoming = "select" /\ ~routerCtx
    \/ forwarder = "holding" /\ sender["handler"] = "none"
    \/ forwarder # "closed" /\ ~subscribed

\* The goroutine that fires the actor.
FireCanMove ==
    \/ engagement = "cancelled" /\ firing = "idle"
    \/ firing = "lock" /\ ContractReaders = {}
    \/ firing = "send" /\ sender["fire"] = "none"
    \/ firing = "cancelAll" /\ routeIncoming # "handle"

\* shutdown, once it has begun.
ShutdownCanMove ==
    \/ stopping = "actors" /\ ~ActorsReader
    \/ stopping = "disconnect" /\ ConnectedReaders = {}
    \/ stopping = "contract" /\ ContractRLock
    \/ stopping = "wait" /\ routeIncoming = "exited" /\ routeOutgoing = "exited"

SomeoneCanMove ==
    \/ SenderCanMove \/ OutgoingCanMove \/ IncomingCanMove
    \/ FireCanMove \/ ShutdownCanMove

\* Where the device comes to rest: nobody sends, no message is being handled,
\* shutdown has not begun or has returned, and a contract that is over has been
\* dealt with to the end.
AtRest ==
    /\ \A s \in Senders : sender[s] = "none"
    /\ routeIncoming \in {"select", "exited"}
    /\ forwarder # "holding"
    /\ stopping \in {"running", "done"}
    /\ engagement # "valid" => engagement = "none" /\ firing = "done" /\ forwarder = "closed"
    /\ stopping = "done" => engagement = "none"

\* The mutexes and channels of routers, senders, fire() and shutdown form no
\* cycle: as long as the way out is not jammed, somebody can go on until the
\* device is at rest.
NoDeadlock == Jammed \/ SomeoneCanMove \/ AtRest

\* What the goroutines know of each other: fire() does not ask for
\* contractMutex, it has it; the forwarder closes its channel, and fire() ends,
\* only when the subscription is gone; shutdown stops the routers after it has
\* cancelled the contract; and only fire() ends it.
WaitsInv ==
    /\ sender["fire"] # "contract"
    /\ forwarder = "closed" => ~subscribed
    /\ firing = "done" => ~subscribed
    /\ ~routerCtx <=> stopping \in {"wait", "done"}
    /\ ~routerCtx => engagement # "valid"
    /\ firing \in {"cancelAll", "done"} <=> engagement = "none"
    /\ engagement = "valid" => firing = "idle"
    /\ routeIncoming = "exited" => ~routerCtx

\* It holds at the start: nothing is over yet.
LEMMA WaitsInvInit == RoutersInit => WaitsInv
  BY DEF RoutersInit, WaitsInv, Senders

\* The sending goroutines: fire() is never one that asks for contractMutex.
LEMMA WaitsInvSend ==
    ASSUME RoutersInv, WaitsInv, NEW s \in Senders,
           \/ SendCheckContract(s) \/ SendCheckConnected(s)
           \/ RouteOutgoingReceive(s) \/ RouteOutgoingEncodeError(s)
    PROVE  WaitsInv'
<1>1. PICK pc \in {"none", "connected", "channel"} : sender' = [sender EXCEPT ![s] = pc]
  BY DEF SendCheckContract, SendCheckConnected, RouteOutgoingReceive,
         RouteOutgoingEncodeError, GoTo
<1>2. sender'["fire"] # "contract"
  <2>1. sender \in [Senders -> {"none", "contract", "connected", "channel", "error"}]
    BY DEF RoutersInv, RoutersTypeOK
  <2> QED
    BY <1>1, <2>1 DEF WaitsInv, Senders
<1>3. UNCHANGED <<routeIncoming, forwarder, subscribed, routerCtx, engagement, firing, stopping>>
  BY DEF SendCheckContract, SendCheckConnected, RouteOutgoingReceive,
         RouteOutgoingEncodeError, incomingVars, newsletterVars, lifeVars
<1> QED
  BY <1>2, <1>3 DEF WaitsInv

\* The routers, the pump, the writer, the newsletter and the hirer: they know
\* of the end of context and subscription, and do not bring it about.
LEMMA WaitsInvRoute ==
    ASSUME RoutersInv, WaitsInv,
           \/ HirerSend \/ HandlerRead \/ ForwarderClose
           \/ RouteOutgoingPass \/ RouteOutgoingExit \/ OutgoingPumpSend \/ WritePump
           \/ RouteIncomingReceive \/ RouteIncomingLookup \/ HandleMessageForward
           \/ HandleMessageForbidden \/ RouteIncomingSent \/ RouteIncomingExit
    PROVE  WaitsInv'
<1> USE DEF incomingVars, outgoingVars, sendVars, newsletterVars, lifeVars, GoTo
<1>1. UNCHANGED <<subscribed, routerCtx, engagement, firing, stopping>>
  BY DEF HirerSend, HandlerRead, ForwarderClose, RouteOutgoingPass, RouteOutgoingExit,
         OutgoingPumpSend, WritePump, RouteIncomingReceive, RouteIncomingLookup,
         HandleMessageForward, HandleMessageForbidden, RouteIncomingSent, RouteIncomingExit
<1>2. \/ UNCHANGED sender
      \/ \E s \in Senders \ {"fire"}, pc \in {"contract", "error"} :
            sender' = [sender EXCEPT ![s] = pc]
  BY DEF HirerSend, HandlerRead, ForwarderClose, RouteOutgoingPass, RouteOutgoingExit,
         OutgoingPumpSend, WritePump, RouteIncomingReceive, RouteIncomingLookup,
         HandleMessageForward, HandleMessageForbidden, RouteIncomingSent, RouteIncomingExit,
         Senders
<1>3. sender'["fire"] # "contract"
  BY <1>2 DEF RoutersInv, RoutersTypeOK, WaitsInv, Senders
<1>4. forwarder' = "closed" => forwarder = "closed" \/ ~subscribed
  BY DEF HirerSend, HandlerRead, ForwarderClose, RouteOutgoingPass, RouteOutgoingExit,
         OutgoingPumpSend, WritePump, RouteIncomingReceive, RouteIncomingLookup,
         HandleMessageForward, HandleMessageForbidden, RouteIncomingSent, RouteIncomingExit
<1>5. routeIncoming' = "exited" => routeIncoming = "exited" \/ ~routerCtx
  BY DEF HirerSend, HandlerRead, ForwarderClose, RouteOutgoingPass, RouteOutgoingExit,
         OutgoingPumpSend, WritePump, RouteIncomingReceive, RouteIncomingLookup,
         HandleMessageForward, HandleMessageForbidden, RouteIncomingSent, RouteIncomingExit
<1> QED
  BY <1>1, <1>3, <1>4, <1>5 DEF WaitsInv

\* The end of the contract, by its own cancellation and fire(), and by shutdown.
LEMMA WaitsInvEnd ==
    ASSUME RoutersInv, WaitsInv,
           \/ ActorContractCancel \/ FireLock \/ FireSend \/ FireCommit
           \/ FireCancelSubscriptions
           \/ ShutdownBegin \/ ShutdownLockActors \/ ShutdownSetDisconnected
           \/ ShutdownCancelContract \/ ShutdownReturn
    PROVE  WaitsInv'
<1> USE DEF incomingVars, outgoingVars, sendVars, newsletterVars, GoTo
<1>1. UNCHANGED <<routeIncoming, forwarder>> /\ (subscribed' => subscribed)
  BY DEF ActorContractCancel, FireLock, FireSend, FireCommit, FireCancelSubscriptions,
         ShutdownBegin, ShutdownLockActors, ShutdownSetDisconnected,
         ShutdownCancelContract, ShutdownReturn
<1>2. sender' = sender \/ sender' = [sender EXCEPT !["fire"] = "connected"]
  BY DEF ActorContractCancel, FireLock, FireSend, FireCommit, FireCancelSubscriptions,
         ShutdownBegin, ShutdownLockActors, ShutdownSetDisconnected,
         ShutdownCancelContract, ShutdownReturn
<1>3. sender'["fire"] # "contract"
  BY <1>2 DEF RoutersInv, RoutersTypeOK, WaitsInv, Senders
<1>4. CASE ActorContractCancel \/ FireLock \/ FireSend \/ FireCommit \/ FireCancelSubscriptions
  BY <1>1, <1>3, <1>4
  DEF WaitsInv, ActorContractCancel, FireLock, FireSend, FireCommit, FireCancelSubscriptions
<1>5. CASE \/ ShutdownBegin \/ ShutdownLockActors \/ ShutdownSetDisconnected
           \/ ShutdownCancelContract \/ ShutdownReturn
  BY <1>1, <1>3, <1>5
  DEF WaitsInv, ShutdownBegin, ShutdownLockActors, ShutdownSetDisconnected,
      ShutdownCancelContract, ShutdownReturn
<1> QED
  BY <1>4, <1>5

\* Every step keeps what the goroutines know of each other.
LEMMA WaitsInvNext ==
    ASSUME RoutersInv, WaitsInv, [RoutersNext]_routerVars
    PROVE  WaitsInv'
<1>1. CASE UNCHANGED routerVars
  BY <1>1 DEF WaitsInv, routerVars, incomingVars, sendVars, newsletterVars, lifeVars
<1>2. CASE Terminated
  BY <1>1, <1>2 DEF Terminated
<1> QED
  BY <1>1, <1>2, WaitsInvSend, WaitsInvRoute, WaitsInvEnd DEF RoutersNext

\* Shutdown sets isConnected, and goes on, when nobody is at the channel.
LEMMA WhoIsJammed ==
    ASSUME RoutersInv
    PROVE  Jammed <=>
             \/ routeOutgoing = "exited" /\ \E s \in Senders : sender[s] \in {"channel", "error"}
             \/ /\ routeOutgoing = "holding" /\ outgoingPump = "holding"
                /\ clientSend = ClientBuffer /\ stopping # "running"
<1>1. \A s \in Senders : sender[s] = "channel" => stopping \in {"running", "actors", "disconnect"}
  BY DEF RoutersInv, RoutersTypeOK, ChannelIsLeft
<1> QED
  BY <1>1 DEF Jammed

\* Unless the way out is jammed or can go on, no sender waits at the channel and
\* routeOutgoing is at its select, or gone as it must be after its context.
LEMMA WayOutIsFree ==
    ASSUME RoutersInv, ~Jammed, ~SenderCanMove, ~OutgoingCanMove
    PROVE  /\ \A s \in Senders : sender[s] \notin {"channel", "error"}
           /\ routeOutgoing \in {"select", "exited"} /\ (~routerCtx => routeOutgoing = "exited")
<1>1. routeOutgoing # "holding"
  <2> SUFFICES ASSUME routeOutgoing = "holding" PROVE FALSE
    OBVIOUS
  <2>1. clientSend \in 0..ClientBuffer /\ ClientBuffer \in Nat \ {0}
    BY RoutersConstants DEF RoutersInv, RoutersTypeOK, RoutersConstants
  <2>2. outgoingPump = "holding"
    BY DEF OutgoingCanMove, RoutersInv, RoutersTypeOK
  <2>3. clientSend = ClientBuffer
    BY <2>1, <2>2 DEF OutgoingCanMove
  <2>4. stopping = "running"
    BY <2>2, <2>3, WhoIsJammed
  <2> QED
    BY <2>1, <2>3, <2>4 DEF OutgoingCanMove
<1>2. routeOutgoing \in {"select", "exited"} /\ (~routerCtx => routeOutgoing = "exited")
  BY <1>1 DEF OutgoingCanMove, RoutersInv, RoutersTypeOK
<1>3. \A s \in Senders : sender[s] \notin {"channel", "error"}
  BY <1>2, WhoIsJammed DEF SenderCanMove
<1> QED
  BY <1>2, <1>3

\* Then nobody waits for isConnectedMutex or contractMutex either: their writers
\* could have them.
LEMMA SendersAreFree ==
    ASSUME RoutersInv, WaitsInv, ~SenderCanMove, ~FireCanMove, ~ShutdownCanMove,
           \A s \in Senders : sender[s] \notin {"channel", "error"}
    PROVE  (\A s \in Senders : sender[s] = "none") /\ firing \notin {"lock", "send"}
<1>1. sender \in [Senders -> {"none", "contract", "connected", "channel", "error"}]
  BY DEF RoutersInv, RoutersTypeOK
<1>2. \A s \in Senders : sender[s] # "connected"
  <2>1. stopping # "disconnect"
    BY DEF ShutdownCanMove, ConnectedReaders
  <2> QED
    BY <2>1 DEF SenderCanMove, ConnectedRLock
<1>3. firing # "lock"
  BY <1>2 DEF FireCanMove, ContractReaders
<1>4. sender["fire"] = "none"
  BY <1>1, <1>2 DEF WaitsInv, Senders
<1>5. firing # "send"
  BY <1>4 DEF FireCanMove
<1>6. \A s \in Senders : sender[s] # "contract"
  BY <1>3, <1>5 DEF SenderCanMove, ContractRLock
<1> QED
  BY <1>1, <1>2, <1>3, <1>5, <1>6

\* With all senders back, nothing keeps a message, fire() or shutdown.
LEMMA RestIsReached ==
    ASSUME RoutersInv, WaitsInv, ~IncomingCanMove, ~FireCanMove, ~ShutdownCanMove,
           \A s \in Senders : sender[s] = "none", firing \notin {"lock", "send"},
           ~routerCtx => routeOutgoing = "exited"
    PROVE  AtRest
<1> USE DEF RoutersInv
<1>1. sender["handler"] = "none" /\ sender["router"] = "none"
  BY DEF Senders
<1>2. forwarder # "holding" /\ (forwarder # "closed" => subscribed)
  BY <1>1 DEF IncomingCanMove
<1>3. routeIncoming \notin {"handle", "refuse", "sending"}
  BY <1>1, <1>2 DEF IncomingCanMove, RoutersTypeOK, WaitsInv
<1>4. firing \in {"idle", "done"}
  BY <1>3 DEF FireCanMove, RoutersTypeOK
<1>5. stopping \in {"running", "wait", "done"}
  <2>1. stopping # "actors" /\ stopping # "disconnect"
    BY <1>3 DEF ShutdownCanMove, ActorsReader, ConnectedReaders
  <2>2. stopping # "contract"
    BY DEF ShutdownCanMove, ContractRLock
  <2> QED
    BY <2>1, <2>2 DEF RoutersTypeOK
<1>6. routeIncoming \in {"select", "exited"} /\ (~routerCtx => routeIncoming = "exited")
  <2>1. ActorsRLock
    BY <1>5 DEF ActorsRLock
  <2> QED
    BY <1>3, <2>1 DEF IncomingCanMove, RoutersTypeOK
<1>7. stopping \in {"running", "done"}
  BY <1>5, <1>6 DEF ShutdownCanMove, WaitsInv
<1>8. ASSUME engagement # "valid"
      PROVE  engagement = "none" /\ firing = "done" /\ forwarder = "closed"
  <2>1. engagement = "none" /\ firing = "done"
    BY <1>4, <1>8 DEF FireCanMove, WaitsInv, RoutersTypeOK
  <2> QED
    BY <1>2, <2>1 DEF WaitsInv
<1>9. stopping = "done" => engagement = "none"
  BY <1>8 DEF WaitsInv
<1> QED
  BY <1>2, <1>6, <1>7, <1>8, <1>9 DEF AtRest

\* The mutexes and channels of a netActorDevice and its actor form no cycle: in
\* every state somebody can go on, somebody waits at a way out that is jammed (a
\* full client.Send after the loss of the connection, or a router that is gone), or
\* everything is at rest; in particular shutdown, for which gatekeeper and agency
\* wait, is never the one that nobody lets go on.
THEOREM RoutersDoNotDeadlock == RoutersSpec => []NoDeadlock
<1>1. RoutersInv /\ WaitsInv => NoDeadlock
  <2> SUFFICES ASSUME RoutersInv, WaitsInv, ~Jammed, ~SomeoneCanMove
               PROVE  AtRest
    BY DEF NoDeadlock
  <2>1. /\ ~SenderCanMove /\ ~OutgoingCanMove /\ ~IncomingCanMove
        /\ ~FireCanMove /\ ~ShutdownCanMove
    BY DEF SomeoneCanMove
  <2>2. /\ \A s \in Senders : sender[s] \notin {"channel", "error"}
        /\ ~routerCtx => routeOutgoing = "exited"
    BY <2>1, WayOutIsFree
  <2>3. (\A s \in Senders : sender[s] = "none") /\ firing \notin {"lock", "send"}
    BY <2>1, <2>2, SendersAreFree
  <2> QED
    BY <2>1, <2>2, <2>3, RestIsReached
<1>2. RoutersInit => RoutersInv /\ WaitsInv
  BY RoutersInvInit, WaitsInvInit
<1>3. RoutersInv /\ WaitsInv /\ [RoutersNext]_routerVars => (RoutersInv /\ WaitsInv)'
  BY RoutersInvNext, WaitsInvNext
<1> QED
  BY <1>1, <1>2, <1>3, PTL DEF RoutersSpec

\* routeIncoming and fire() send one message at a time and wait until it has been
\* passed on.
OneAtATime ==
    /\ sender["router"] # "none" => routeIncoming = "sending"
    /\ sender["fire"] # "none" => firing = "send"

\* Every step keeps that.
LEMMA OneAtATimeNext ==
    ASSUME RoutersInv, OneAtATime, [RoutersNext]_routerVars
    PROVE  OneAtATime'
<1> USE DEF incomingVars, outgoingVars, sendVars, newsletterVars, lifeVars
<1>1. DOMAIN sender = Senders
  BY DEF RoutersInv, RoutersTypeOK
<1>2. ASSUME NEW s \in Senders,
             \/ SendCheckContract(s) \/ SendCheckConnected(s)
             \/ RouteOutgoingReceive(s) \/ RouteOutgoingEncodeError(s)
      PROVE  OneAtATime'
  <2>1. sender[s] # "none" /\ UNCHANGED <<routeIncoming, firing>>
    BY <1>2 DEF SendCheckContract, SendCheckConnected, RouteOutgoingReceive,
       RouteOutgoingEncodeError
  <2>2. \A r \in Senders \ {s} : sender'[r] = sender[r]
    BY <1>1, <1>2 DEF SendCheckContract, SendCheckConnected, RouteOutgoingReceive,
       RouteOutgoingEncodeError, GoTo
  <2> QED
    BY <2>1, <2>2 DEF OneAtATime, Senders
<1>3. CASE \/ UNCHANGED routerVars \/ Terminated
           \/ RouteOutgoingPass \/ RouteOutgoingExit \/ OutgoingPumpSend \/ WritePump
           \/ ForwarderClose \/ ActorContractCancel \/ FireCancelSubscriptions
           \/ ShutdownBegin \/ ShutdownLockActors \/ ShutdownSetDisconnected
           \/ ShutdownCancelContract \/ ShutdownReturn
  <2>1. UNCHANGED <<routeIncoming, sender>> /\ (firing = "send" => firing' = "send")
    BY <1>3 DEF Terminated, routerVars, RouteOutgoingPass, RouteOutgoingExit, OutgoingPumpSend,
       WritePump, ForwarderClose, ActorContractCancel, FireCancelSubscriptions, ShutdownBegin,
       ShutdownLockActors, ShutdownSetDisconnected, ShutdownCancelContract, ShutdownReturn
  <2> QED
    BY <2>1 DEF OneAtATime
<1>4. CASE \/ RouteIncomingReceive \/ RouteIncomingLookup \/ HandleMessageForward
           \/ HandleMessageForbidden \/ RouteIncomingSent \/ RouteIncomingExit
  <2>1. firing' = firing /\ sender'["fire"] = sender["fire"]
    BY <1>1, <1>4 DEF RouteIncomingReceive, RouteIncomingLookup, HandleMessageForward,
       HandleMessageForbidden, RouteIncomingSent, RouteIncomingExit, GoTo, Senders
  <2>2. sender'["router"] # "none" => routeIncoming' = "sending"
    BY <1>1, <1>4 DEF RouteIncomingReceive, RouteIncomingLookup, HandleMessageForward,
       HandleMessageForbidden, RouteIncomingSent, RouteIncomingExit, OneAtATime
  <2> QED
    BY <2>1, <2>2 DEF OneAtATime
<1>5. CASE HirerSend \/ HandlerRead
  BY <1>1, <1>5 DEF HirerSend, HandlerRead, GoTo, OneAtATime, Senders
<1>6. CASE FireLock \/ FireSend \/ FireCommit
  BY <1>1, <1>6 DEF FireLock, FireSend, FireCommit, GoTo, OneAtATime, Senders
<1> QED
  BY <1>2, <1>3, <1>4, <1>5, <1>6 DEF RoutersNext

\* Only routeOutgoing takes a message from the channel.
LEMMA OnlyTheRouterTakes ==
    ASSUME RoutersInv, OneAtATime, RoutersNext, routeOutgoing = "exited",
           NEW s \in Senders, sender[s] \in {"channel", "error"}
    PROVE  sender'[s] \in {"channel", "error"}
<1> USE DEF incomingVars, outgoingVars, sendVars, newsletterVars, lifeVars
<1>1. DOMAIN sender = Senders
  BY DEF RoutersInv, RoutersTypeOK
<1>2. ASSUME NEW r \in Senders,
             \/ SendCheckContract(r) \/ SendCheckConnected(r)
             \/ RouteOutgoingReceive(r) \/ RouteOutgoingEncodeError(r)
      PROVE  sender'[s] = sender[s]
  BY <1>1, <1>2 DEF SendCheckContract, SendCheckConnected, RouteOutgoingReceive,
     RouteOutgoingEncodeError, GoTo
<1>3. CASE HirerSend \/ HandlerRead
  BY <1>1, <1>3 DEF HirerSend, HandlerRead, GoTo
<1>4. CASE RouteIncomingLookup \/ HandleMessageForbidden \/ FireSend
  BY <1>1, <1>4 DEF RouteIncomingLookup, HandleMessageForbidden, FireSend, GoTo, OneAtATime
<1>5. ASSUME UNCHANGED sender PROVE sender'[s] = sender[s]
  BY <1>5
<1>6. CASE \/ RouteOutgoingPass \/ RouteOutgoingExit \/ OutgoingPumpSend \/ WritePump
           \/ RouteIncomingReceive \/ HandleMessageForward \/ RouteIncomingSent
           \/ RouteIncomingExit \/ ForwarderClose
           \/ ActorContractCancel \/ FireLock \/ FireCommit \/ FireCancelSubscriptions
           \/ ShutdownBegin \/ ShutdownLockActors \/ ShutdownSetDisconnected
           \/ ShutdownCancelContract \/ ShutdownReturn \/ Terminated
  BY <1>6 DEF RouteOutgoingPass, RouteOutgoingExit, OutgoingPumpSend, WritePump,
     RouteIncomingReceive, HandleMessageForward, RouteIncomingSent, RouteIncomingExit,
     ForwarderClose, ActorContractCancel, FireLock, FireCommit, FireCancelSubscriptions,
     ShutdownBegin, ShutdownLockActors, ShutdownSetDisconnected, ShutdownCancelContract,
     ShutdownReturn, Terminated, routerVars
<1> QED
  BY <1>2, <1>3, <1>4, <1>6 DEF RoutersNext

\* routeOutgoing does not come back, and what it holds for a pump that is stuck
\* stays there.
LEMMA JammedRouterStays ==
    ASSUME RoutersInv, RoutersNext
    PROVE  /\ routeOutgoing = "exited" => routeOutgoing' = "exited"
           /\ (/\ routeOutgoing = "holding" /\ outgoingPump = "holding"
               /\ clientSend = ClientBuffer /\ stopping # "running")
                => UNCHANGED <<routeOutgoing, outgoingPump, clientSend>> /\ stopping' # "running"
<1> USE DEF incomingVars, outgoingVars, sendVars, newsletterVars, lifeVars
<1>1. ClientBuffer \in Nat
  BY RoutersConstants DEF RoutersConstants
<1>2. CASE \/ RouteOutgoingPass \/ RouteOutgoingExit \/ OutgoingPumpSend \/ WritePump
           \/ \E s \in Senders : RouteOutgoingReceive(s) \/ RouteOutgoingEncodeError(s)
  BY <1>1, <1>2 DEF RouteOutgoingPass, RouteOutgoingExit, OutgoingPumpSend, WritePump,
     RouteOutgoingReceive, RouteOutgoingEncodeError
<1>3. CASE \/ \E s \in Senders : SendCheckContract(s) \/ SendCheckConnected(s)
           \/ HirerSend \/ HandlerRead \/ ForwarderClose
           \/ RouteIncomingReceive \/ RouteIncomingLookup \/ HandleMessageForward
           \/ HandleMessageForbidden \/ RouteIncomingSent \/ RouteIncomingExit
           \/ ActorContractCancel \/ FireLock \/ FireSend \/ FireCommit
           \/ FireCancelSubscriptions \/ Terminated
  BY <1>3 DEF SendCheckContract, SendCheckConnected, HirerSend, HandlerRead, ForwarderClose,
     RouteIncomingReceive, RouteIncomingLookup, HandleMessageForward, HandleMessageForbidden,
     RouteIncomingSent, RouteIncomingExit, ActorContractCancel, FireLock, FireSend, FireCommit,
     FireCancelSubscriptions, Terminated, routerVars
<1>4. CASE \/ ShutdownBegin \/ ShutdownLockActors \/ ShutdownSetDisconnected
           \/ ShutdownCancelContract \/ ShutdownReturn
  BY <1>4 DEF ShutdownBegin, ShutdownLockActors, ShutdownSetDisconnected,
     ShutdownCancelContract, ShutdownReturn
<1> QED
  BY <1>2, <1>3, <1>4 DEF RoutersNext

\* Whoever waits at a jammed way out waits for good.
RoutersJamIsForGood == [][Jammed => Jammed']_routerVars

\* Neither the end of the router's context nor shutdown gets anybody out of a jam:
\* a message has no way out but routeOutgoing, which is gone, or which waits for
\* a pump that waits for a connection that was lost.
THEOREM RoutersJamsAreForGood == RoutersSpec => RoutersJamIsForGood
<1>1. RoutersInit => RoutersInv /\ OneAtATime
  <2>1. RoutersInit => OneAtATime
    BY DEF RoutersInit, OneAtATime, Senders
  <2> QED
    BY <2>1, RoutersInvInit
<1>2. RoutersInv /\ OneAtATime /\ [RoutersNext]_routerVars => (RoutersInv /\ OneAtATime)'
  BY RoutersInvNext, OneAtATimeNext
<1>3. RoutersInv /\ OneAtATime /\ [RoutersNext]_routerVars => (Jammed => Jammed')
  <2> SUFFICES ASSUME RoutersInv, OneAtATime, [RoutersNext]_routerVars, Jammed PROVE Jammed'
    OBVIOUS
  <2>1. CASE UNCHANGED routerVars
    BY <2>1 DEF routerVars, outgoingVars, sendVars, lifeVars, Jammed
  <2>2. CASE RoutersNext
    <3>1. RoutersInv'
      BY <2>2, RoutersInvNext
    <3>2. Jammed' <=>
             \/ routeOutgoing' = "exited" /\ \E s \in Senders : sender'[s] \in {"channel", "error"}
             \/ /\ routeOutgoing' = "holding" /\ outgoingPump' = "holding"
                /\ clientSend' = ClientBuffer /\ stopping' # "running"
      <4>1. \A s \in Senders :
              sender'[s] = "channel" => stopping' \in {"running", "actors", "disconnect"}
        BY <3>1 DEF RoutersInv, RoutersTypeOK, ChannelIsLeft
      <4> QED
        BY <4>1 DEF Jammed
    <3> QED
      BY <2>2, <3>2, OnlyTheRouterTakes, JammedRouterStays, WhoIsJammed
  <2> QED
    BY <2>1, <2>2
<1> QED
  BY <1>1, <1>2, <1>3, PTL DEF RoutersSpec, RoutersJamIsForGood
=============================================================================
