------------------------ MODULE LightSwitchesProofs ------------------------
(***************************************************************************)
(* What TLAPS proves of LightSwitches, for any number of providers, offers, *)
(* rows, managers and fixtures: the registry of active switches is exact,   *)
(* its switches agree with the store but for deleted fixtures and two       *)
(* races, a press toggles what is assigned, and nobody deadlocks unless the  *)
(* lighting manager does not answer.                                        *)
(***************************************************************************)
EXTENDS LightSwitches, TLAPS

Made == [id : IDs, assignments : SUBSET Fixtures]

\* Providers that have made switches and not registered them.
IsPending(p) == pc[p] \in {"lookup", "insert", "created", "lock"}

\* Ids come from the store, which assigns no fixture that is deleted, and
\* nothing of a provider runs before the registration.
Stages ==
    /\ \A i \in rows : i <= created
    /\ \A i \in IDs : stored[i] \cap deleted = {}
    /\ \A p \in Providers :
         /\ pc[p] \in {"idle", "offers"} => made[p] = <<>>
         /\ pc[p] \in {"lookup", "insert"} => offered[p] # <<>>
         /\ \A i \in MadeIDs(p) : i <= created
         /\ \A i \in IDs : <<p, i>> \in running => pc[p] \in {"accepted", "remove", "removing", "gone", "failed"}
         /\ \A i \in IDs : toggling[p][i] # {} => <<p, i>> \in running

\* The second part of RegistryIsExact, and a provider that removes its switches
\* meets nobody else's.
Registry ==
    /\ \A p \in Providers : pc[p] \in {"accepted", "remove"} => \A i \in MadeIDs(p) : active[i] = p
    /\ \A p \in Providers :
         pc[p] = "removing" => \A i \in MadeIDs(p) : active[i] \in {p, NoProvider}
    /\ \A i \in IDs, p \in Providers :
         active[i] = p => i \in MadeIDs(p) /\ pc[p] \in {"accepted", "remove", "removing", "failed"}

\* What a manager's handler is about to set is what it has stored and what is
\* left of it, unless another one has stored something since.
Updating ==
    \A h \in Handlers : handler[h] = "set" =>
        /\ target[h] \in IDs /\ active[target[h]] \in Providers
        /\ target[h] \notin raced => payload[h] \ deleted = stored[target[h]]

\* So is what a switch was made with, before its registration.
Fresh ==
    \A p \in Providers : IsPending(p) => \A n \in DOMAIN made[p] :
        made[p][n].id \notin raced =>
            /\ made[p][n].id \in rows
            /\ made[p][n].assignments \ deleted = stored[made[p][n].id]

\* Whoever removes switches is alone with activeLightSwitches.
Exclusive ==
    \A p \in Providers : pc[p] = "removing" =>
        /\ \A h \in Handlers : handler[h] # "set"
        /\ \A q \in Providers \ {p} : pc[q] \notin {"lookup", "insert", "removing"}

IInv ==
    /\ TypeOK /\ Stages /\ Registry /\ Exclusive
    /\ TogglesAssigned /\ Updating /\ Fresh /\ ActiveAgreesWithStore

\* What the list of made switches is after another one.
LEMMA AppendMade ==
    ASSUME TypeOK, NEW p \in Providers, NEW id \in IDs, NEW a \in SUBSET Fixtures, Make(p, id, a)
    PROVE  /\ made' \in [Providers -> Seq(Made)]
           /\ \A q \in Providers \ {p} : made'[q] = made[q]
           /\ MadeIDs(p)' = MadeIDs(p) \cup {id}
           /\ \A n \in DOMAIN made'[p] :
                \/ n \in DOMAIN made[p] /\ made'[p][n] = made[p][n]
                \/ made'[p][n] = [id |-> id, assignments |-> a]
<1> DEFINE m == [id |-> id, assignments |-> a]
<1>1. m \in Made /\ m.id = id
  BY DEF Made
<1>2. /\ made' = [made EXCEPT ![p] = Append(@, m)]
      /\ made[p] \in Seq(Made) /\ made'[p] = Append(made[p], m)
  BY DEF TypeOK, Made, Make
<1> HIDE DEF m, Made
<1>3. made' \in [Providers -> Seq(Made)] /\ \A q \in Providers \ {p} : made'[q] = made[q]
  <2>1. Append(made[p], m) \in Seq(Made)
    BY <1>1, <1>2
  <2>2. QED BY <1>2, <2>1 DEF TypeOK, Made
<1>4. /\ DOMAIN made[p] \subseteq DOMAIN made'[p]
      /\ \A n \in DOMAIN made[p] : made'[p][n] = made[p][n]
      /\ \E n \in DOMAIN made'[p] : made'[p][n] = m
      /\ \A n \in DOMAIN made'[p] : n \in DOMAIN made[p] \/ made'[p][n] = m
  BY <1>1, <1>2
<1>5. MadeIDs(p)' = MadeIDs(p) \cup {id}
  BY <1>1, <1>4 DEF MadeIDs
<1>6. QED BY <1>3, <1>4, <1>5 DEF m

\* What was made has an id.
LEMMA MadeHasID ==
    ASSUME TypeOK, NEW p \in Providers
    PROVE  /\ MadeIDs(p) \subseteq IDs
           /\ \A n \in DOMAIN made[p] :
                made[p][n].id \in MadeIDs(p) /\ made[p][n].id \in IDs /\ made[p][n].assignments \in SUBSET Fixtures
<1>1. made[p] \in Seq(Made)
  BY DEF TypeOK, Made
<1>2. \A n \in DOMAIN made[p] : made[p][n] \in Made
  BY <1>1
<1>3. \A n \in DOMAIN made[p] : made[p][n].id \in IDs /\ made[p][n].assignments \in SUBSET Fixtures
  BY <1>2 DEF Made
<1>4. QED BY <1>3 DEF MadeIDs

\* The initial states satisfy the invariant.
LEMMA InitInvariant == Init => IInv
<1> SUFFICES ASSUME Init PROVE IInv
  OBVIOUS
<1>1. (CHOOSE k \in Keys : TRUE) \in Keys
  BY ConstantsAssumption
<1>2. created \in 0..MaxRows /\ updates \in 0..MaxUpdates
  BY ConstantsAssumption DEF Init
<1>3. TypeOK
  BY <1>1, <1>2 DEF Init, TypeOK
<1>4. \A p \in Providers : MadeIDs(p) = {}
  BY DEF Init, MadeIDs
<1>5. Stages /\ Registry /\ Exclusive /\ TogglesAssigned
  BY <1>4, ConstantsAssumption DEF Init, Stages, Registry, Exclusive, TogglesAssigned
<1>6. Updating /\ Fresh /\ ActiveAgreesWithStore
  BY ConstantsAssumption DEF Init, Updating, Fresh, IsPending, ActiveAgreesWithStore
<1>7. QED BY <1>3, <1>5, <1>6 DEF IInv

-----------------------------------------------------------------------------
\* A step that changes neither the store, nor what was made or registered, nor
\* assignments, nor what handlers do.
LEMMA AwayFromStore ==
    ASSUME IInv, UNCHANGED <<storeVars, made, active, assigned, handlerVars, raced>>,
           \A p \in Providers : IsPending(p)' => IsPending(p) \/ made[p] = <<>>
    PROVE  Updating' /\ Fresh' /\ ActiveAgreesWithStore'
BY DEF IInv, Updating, Fresh, ActiveAgreesWithStore, storeVars, handlerVars

\* The steps between which a provider only moves on.
LEMMA MovingOn ==
    ASSUME IInv, NEW p \in Providers,
           \/ Hire(p) \/ ContractEnds(p) \/ NoOffers(p) \/ ReceiveOffers(p)
           \/ LockForRegistration(p) \/ LockForRemoval(p) \/ StartRemoval(p)
    PROVE  IInv'
<1>1. UNCHANGED <<storeVars, made, active, assigned, switchVars, handlerVars, raced>>
  BY DEF Hire, ContractEnds, NoOffers, ReceiveOffers, LockForRegistration, LockForRemoval, StartRemoval
<1>2. \A q \in Providers : MadeIDs(q)' = MadeIDs(q)
  BY <1>1 DEF MadeIDs
<1>3. \A o \in Offers(p) : o \in Seq(Keys)
  BY DEF Offers
<1>4. TypeOK'
  <2>1. hired' \subseteq Providers
    BY <1>1 DEF IInv, TypeOK, Hire, ContractEnds, NoOffers, ReceiveOffers, LockForRegistration, LockForRemoval, StartRemoval
  <2>2. offered' \in [Providers -> Seq(Keys)]
    BY <1>3 DEF IInv, TypeOK, Hire, ContractEnds, NoOffers, ReceiveOffers, LockForRegistration, LockForRemoval, StartRemoval
  <2>3. pc' \in [Providers -> {"idle", "offers", "lookup", "insert", "created", "lock",
                               "accepted", "remove", "removing", "gone", "failed"}]
    BY DEF IInv, TypeOK, Hire, ContractEnds, NoOffers, ReceiveOffers, LockForRegistration,
       LockForRemoval, StartRemoval
  <2>4. QED BY <1>1, <2>1, <2>2, <2>3 DEF IInv, TypeOK, storeVars, switchVars, handlerVars
<1>5. Stages'
  <2>1. \A q \in Providers :
          /\ pc'[q] \in {"idle", "offers"} => made[q] = <<>>
          /\ pc'[q] \in {"lookup", "insert"} => offered'[q] # <<>>
    BY DEF IInv, TypeOK, Stages, Hire, ContractEnds, NoOffers, ReceiveOffers,
       LockForRegistration, LockForRemoval, StartRemoval
  <2>2. \A q \in Providers : pc[q] \in {"accepted", "remove", "removing", "gone", "failed"} =>
          pc'[q] \in {"accepted", "remove", "removing", "gone", "failed"}
    BY DEF IInv, TypeOK, Hire, ContractEnds, NoOffers, ReceiveOffers, LockForRegistration,
       LockForRemoval, StartRemoval
  <2>3. QED BY <1>1, <1>2, <2>1, <2>2 DEF IInv, Stages, storeVars, switchVars
<1>6. Registry' /\ TogglesAssigned'
  <2>1. \A q \in Providers :
          /\ pc'[q] \in {"accepted", "remove"} => pc[q] \in {"accepted", "remove"}
          /\ pc'[q] = "removing" => pc[q] \in {"remove", "removing"}
          /\ pc[q] \in {"accepted", "remove", "removing", "failed"} => pc'[q] \in {"accepted", "remove", "removing", "failed"}
    BY DEF IInv, TypeOK, Hire, ContractEnds, NoOffers, ReceiveOffers, LockForRegistration,
       LockForRemoval, StartRemoval
  <2>2. Registry'
    BY <1>1, <1>2, <2>1 DEF IInv, Registry
  <2>3. QED BY <1>1, <2>2 DEF IInv, TogglesAssigned, switchVars
<1>7. \A q \in Providers : IsPending(q)' => IsPending(q) \/ made[q] = <<>>
  BY DEF IInv, TypeOK, Stages, IsPending, Hire, ContractEnds, NoOffers, ReceiveOffers,
     LockForRegistration, LockForRemoval, StartRemoval
<1>8. Exclusive'
  <2>1. CASE ReceiveOffers(p)
    BY <2>1 DEF ReceiveOffers, RLockFree, Exclusive, IInv, TypeOK, handlerVars
  <2>2. CASE StartRemoval(p)
    <3>1. \A h \in Handlers : handler'[h] # "set"
      BY <2>2 DEF StartRemoval, LockFree, handlerVars
    <3>2. \A q \in Providers \ {p} : pc'[q] = pc[q] /\ pc[q] \notin {"lookup", "insert", "removing"}
      BY <2>2 DEF StartRemoval, LockFree, IInv, TypeOK
    <3>3. QED BY <3>1, <3>2 DEF Exclusive
  <2>3. CASE \/ Hire(p) \/ ContractEnds(p) \/ NoOffers(p)
             \/ LockForRegistration(p) \/ LockForRemoval(p)
    BY <2>3 DEF Hire, ContractEnds, NoOffers, LockForRegistration, LockForRemoval,
       Exclusive, IInv, TypeOK, handlerVars
  <2>4. QED BY <2>1, <2>2, <2>3
<1>9. QED BY <1>1, <1>4, <1>5, <1>6, <1>7, <1>8, AwayFromStore DEF IInv

\* A switch at work.
LEMMA SwitchStep ==
    ASSUME IInv, NEW p \in Providers, NEW i \in IDs,
           \/ RunReturns(p, i)
           \/ \E high \in BOOLEAN : HandleMessage(p, i, high)
           \/ \E f \in Fixtures : ToggleReturns(p, i, f)
    PROVE  IInv'
<1>1. UNCHANGED <<storeVars, acceptVars, active, assigned, handlerVars, raced>>
  BY DEF RunReturns, HandleMessage, ToggleReturns
<1>2. /\ \A q \in Providers : MadeIDs(q)' = MadeIDs(q) /\ (IsPending(q)' <=> IsPending(q))
      /\ made' = made
  BY <1>1 DEF MadeIDs, IsPending, acceptVars
<1>3. /\ isHigh' \in [Providers -> SUBSET IDs]
      /\ running' \subseteq running
      /\ toggling' \in [Providers -> [IDs -> SUBSET Fixtures]]
  <2>1. CASE RunReturns(p, i)
    BY <2>1 DEF RunReturns, IInv, TypeOK
  <2>2. CASE \E high \in BOOLEAN : HandleMessage(p, i, high)
    <3>1. PICK high \in BOOLEAN : HandleMessage(p, i, high)
      BY <2>2
    <3>2. running' = running
      BY <3>1 DEF HandleMessage
    <3>3. isHigh' \in [Providers -> SUBSET IDs]
      <4>1. \/ isHigh' = isHigh
            \/ isHigh' = [isHigh EXCEPT ![p] = @ \cup {i}]
            \/ isHigh' = [isHigh EXCEPT ![p] = @ \ {i}]
        BY <3>1 DEF HandleMessage
      <4>2. isHigh \in [Providers -> SUBSET IDs]
        BY DEF IInv, TypeOK
      <4>3. QED BY <4>1, <4>2
    <3>4. toggling' = toggling \/ toggling' = [toggling EXCEPT ![p][i] = assigned[p][i]]
      BY <3>1 DEF HandleMessage
    <3>5. toggling' \in [Providers -> [IDs -> SUBSET Fixtures]]
      <4>1. /\ toggling \in [Providers -> [IDs -> SUBSET Fixtures]]
            /\ assigned[p][i] \in SUBSET Fixtures
        BY DEF IInv, TypeOK
      <4>2. QED BY <3>4, <4>1
    <3>6. QED BY <3>2, <3>3, <3>5
  <2>3. CASE \E f \in Fixtures : ToggleReturns(p, i, f)
    BY <2>3 DEF ToggleReturns, IInv, TypeOK
  <2>4. QED BY <2>1, <2>2, <2>3
<1>4. \A q \in Providers, j \in IDs :
        /\ toggling'[q][j] # {} => <<q, j>> \in running'
        /\ toggling'[q][j] \subseteq assigned[q][j]
  <2>1. CASE RunReturns(p, i)
    BY <2>1 DEF RunReturns, IInv, TypeOK, Stages, TogglesAssigned
  <2>2. CASE \E high \in BOOLEAN : HandleMessage(p, i, high)
    <3>1. /\ <<p, i>> \in running /\ running' = running
          /\ toggling' = toggling \/ toggling' = [toggling EXCEPT ![p][i] = assigned[p][i]]
      BY <2>2 DEF HandleMessage
    <3>2. \A q \in Providers, j \in IDs :
            toggling'[q][j] = toggling[q][j] \/ (q = p /\ j = i /\ toggling'[q][j] = assigned[q][j])
      BY <3>1 DEF IInv, TypeOK
    <3>3. QED BY <3>1, <3>2 DEF IInv, Stages, TogglesAssigned
  <2>3. CASE \E f \in Fixtures : ToggleReturns(p, i, f)
    <3>1. PICK f \in Fixtures : ToggleReturns(p, i, f)
      BY <2>3
    <3>2. running' = running /\ toggling' = [toggling EXCEPT ![p][i] = @ \ {f}]
      BY <3>1 DEF ToggleReturns
    <3>3. \A q \in Providers, j \in IDs : toggling'[q][j] \subseteq toggling[q][j]
      BY <3>2 DEF IInv, TypeOK
    <3>4. QED BY <3>2, <3>3 DEF IInv, Stages, TogglesAssigned
  <2>4. QED BY <2>1, <2>2, <2>3
<1>5. TypeOK'
  BY <1>1, <1>3 DEF IInv, TypeOK, storeVars, acceptVars, handlerVars
<1>6. Stages'
  BY <1>1, <1>2, <1>3, <1>4 DEF IInv, TypeOK, Stages, storeVars, acceptVars
<1>7. Registry' /\ TogglesAssigned'
  <2>1. Registry'
    BY <1>1, <1>2 DEF IInv, Registry, acceptVars
  <2>2. QED BY <1>1, <1>4, <2>1 DEF TogglesAssigned
<1>8. Exclusive'
  BY <1>1 DEF IInv, Exclusive, acceptVars, handlerVars
<1>9. QED BY <1>1, <1>2, <1>5, <1>6, <1>7, <1>8, AwayFromStore DEF IInv

\* What a step that makes a switch does to the provider.
LEMMA MakeFacts ==
    ASSUME IInv, NEW p \in Providers, NEW id \in IDs, NEW a \in SUBSET Fixtures,
           pc[p] \in {"lookup", "insert"}, Make(p, id, a)
    PROVE  /\ made' \in [Providers -> Seq(Made)]
           /\ offered' \in [Providers -> Seq(Keys)]
           /\ pc' \in [Providers -> {"idle", "offers", "lookup", "insert", "created", "lock",
                                     "accepted", "remove", "removing", "gone", "failed"}]
           /\ pc'[p] \in {"lookup", "created"}
           /\ pc'[p] = "lookup" => offered'[p] # <<>>
           /\ \A q \in Providers \ {p} :
                made'[q] = made[q] /\ pc'[q] = pc[q] /\ offered'[q] = offered[q] /\ MadeIDs(q)' = MadeIDs(q)
           /\ MadeIDs(p)' = MadeIDs(p) \cup {id}
           /\ \A n \in DOMAIN made'[p] :
                \/ n \in DOMAIN made[p] /\ made'[p][n] = made[p][n]
                \/ made'[p][n] = [id |-> id, assignments |-> a]
<1>1. /\ made' \in [Providers -> Seq(Made)]
      /\ \A q \in Providers \ {p} : made'[q] = made[q]
      /\ MadeIDs(p)' = MadeIDs(p) \cup {id}
      /\ \A n \in DOMAIN made'[p] :
           \/ n \in DOMAIN made[p] /\ made'[p][n] = made[p][n]
           \/ made'[p][n] = [id |-> id, assignments |-> a]
  BY AppendMade DEF IInv
<1>2. \A q \in Providers \ {p} : MadeIDs(q)' = MadeIDs(q)
  BY <1>1 DEF MadeIDs
<1>3. offered[p] \in Seq(Keys) /\ offered[p] # <<>>
  BY DEF IInv, TypeOK, Stages
<1>4. /\ offered' = [offered EXCEPT ![p] = Tail(@)]
      /\ pc' = [pc EXCEPT ![p] = IF Tail(offered[p]) = <<>> THEN "created" ELSE "lookup"]
  BY DEF Make
<1>5. Tail(offered[p]) \in Seq(Keys)
  BY <1>3
<1>6. offered' \in [Providers -> Seq(Keys)] /\ offered'[p] = Tail(offered[p])
  BY <1>4, <1>5 DEF IInv, TypeOK
<1>7. /\ pc' \in [Providers -> {"idle", "offers", "lookup", "insert", "created", "lock",
                                "accepted", "remove", "removing", "gone", "failed"}]
      /\ pc'[p] \in {"lookup", "created"}
      /\ pc'[p] = "lookup" => offered'[p] # <<>>
  BY <1>4, <1>6 DEF IInv, TypeOK
<1>8. \A q \in Providers \ {p} : pc'[q] = pc[q] /\ offered'[q] = offered[q]
  BY <1>4 DEF IInv, TypeOK
<1>9. QED BY <1>1, <1>2, <1>6, <1>7, <1>8

\* The store knows the switch.
LEMMA FoundStep ==
    ASSUME IInv, NEW p \in Providers, LookupLightSwitch(p), pc'[p] # "insert"
    PROVE  IInv'
<1>1. PICK i \in rows : Make(p, i, stored[i])
  BY DEF LookupLightSwitch, StoreLookup, IInv, TypeOK
<1>2. /\ pc[p] = "lookup" /\ i \in IDs /\ stored[i] \in SUBSET Fixtures
      /\ UNCHANGED <<storeVars, hired, active, assigned, switchVars, handlerVars, raced>>
  BY DEF LookupLightSwitch, IInv, TypeOK
<1> DEFINE a == stored[i]
<1>3. /\ made' \in [Providers -> Seq(Made)]
      /\ offered' \in [Providers -> Seq(Keys)]
      /\ pc' \in [Providers -> {"idle", "offers", "lookup", "insert", "created", "lock",
                                "accepted", "remove", "removing", "gone", "failed"}]
      /\ pc'[p] \in {"lookup", "created"}
      /\ pc'[p] = "lookup" => offered'[p] # <<>>
      /\ \A q \in Providers \ {p} :
           made'[q] = made[q] /\ pc'[q] = pc[q] /\ offered'[q] = offered[q] /\ MadeIDs(q)' = MadeIDs(q)
      /\ MadeIDs(p)' = MadeIDs(p) \cup {i}
      /\ \A n \in DOMAIN made'[p] :
           \/ n \in DOMAIN made[p] /\ made'[p][n] = made[p][n]
           \/ made'[p][n] = [id |-> i, assignments |-> a]
  BY <1>1, <1>2, MakeFacts
<1> HIDE DEF a
<1>4. TypeOK'
  BY <1>2, <1>3 DEF IInv, TypeOK, Made, storeVars, switchVars, handlerVars
<1>5. Stages'
  <2>1. /\ created' = created /\ rows' = rows /\ stored' = stored /\ deleted' = deleted
        /\ i <= created
    BY <1>1, <1>2 DEF IInv, Stages, storeVars
  <2>2. \A q \in Providers : \A j \in MadeIDs(q)' : j <= created
    BY <1>3, <2>1 DEF IInv, Stages
  <2>3. \A q \in Providers, j \in IDs : <<q, j>> \in running' => pc'[q] \in {"accepted", "remove", "removing", "gone", "failed"}
    BY <1>2, <1>3 DEF IInv, Stages, switchVars
  <2>4. QED BY <1>2, <1>3, <2>1, <2>2, <2>3 DEF IInv, Stages, switchVars
<1>6. Registry' /\ TogglesAssigned'
  <2>0. \A j \in IDs : active[j] # p
    BY <1>2 DEF IInv, Registry
  <2>1. Registry'
    <3>1. /\ active' = active /\ pc'[p] \notin {"accepted", "remove", "removing"}
          /\ \A q \in Providers \ {p} : pc'[q] = pc[q] /\ MadeIDs(q)' = MadeIDs(q)
      BY <1>2, <1>3
    <3>2. QED BY <2>0, <3>1 DEF IInv, Registry
  <2>2. QED BY <1>2, <2>1 DEF IInv, TogglesAssigned, switchVars
<1>7. Updating' /\ ActiveAgreesWithStore'
  BY <1>2 DEF IInv, Updating, ActiveAgreesWithStore, storeVars, handlerVars
<1>8. Fresh'
  <2>1. \A q \in Providers : IsPending(q)' => IsPending(q)
    BY <1>2, <1>3 DEF IsPending
  <2>2. rows' = rows /\ stored' = stored /\ deleted' = deleted /\ raced' = raced
    BY <1>2 DEF storeVars
  <2>3. SUFFICES ASSUME NEW q \in Providers, IsPending(q)', NEW n \in DOMAIN made'[q], made'[q][n].id \notin raced
                 PROVE  made'[q][n].id \in rows /\ made'[q][n].assignments \ deleted = stored[made'[q][n].id]
    BY <2>2 DEF Fresh
  <2>4. CASE n \in DOMAIN made[q] /\ made'[q][n] = made[q][n]
    BY <2>1, <2>3, <2>4 DEF IInv, Fresh
  <2>5. CASE made'[q][n] = [id |-> i, assignments |-> a]
    <3>1. stored[i] \cap deleted = {}
      BY <1>2 DEF IInv, Stages
    <3>2. QED BY <1>1, <2>5, <3>1 DEF a
  <2>6. QED BY <1>3, <2>3, <2>4, <2>5
<1>9. Exclusive'
  BY <1>2, <1>3 DEF IInv, Exclusive, handlerVars
<1>10. QED BY <1>4, <1>5, <1>6, <1>7, <1>8, <1>9 DEF IInv

\* The store does not know it yet, or the provider is turned away.
LEMMA NotFoundStep ==
    ASSUME IInv, NEW p \in Providers,
           \/ LookupLightSwitch(p) /\ pc'[p] = "insert"
           \/ CreateFails(p)
    PROVE  IInv'
<1>1. /\ pc[p] \in {"lookup", "insert"}
      /\ UNCHANGED <<storeVars, active, assigned, switchVars, handlerVars, raced>>
  BY DEF LookupLightSwitch, CreateFails
<1>2. \/ pc' = [pc EXCEPT ![p] = "insert"] /\ UNCHANGED <<hired, offered, made>>
      \/ /\ pc' = [pc EXCEPT ![p] = "failed"]
         /\ hired' = hired \ {p}
         /\ offered' = [offered EXCEPT ![p] = <<>>]
         /\ made' = [made EXCEPT ![p] = <<>>]
  BY DEF LookupLightSwitch, CreateFails, Fire, Make, IInv, TypeOK
<1>3. TypeOK'
  <2>1. /\ hired' \subseteq Providers
        /\ offered' \in [Providers -> Seq(Keys)]
        /\ made' \in [Providers -> Seq(Made)]
    <3>1. hired \subseteq Providers /\ offered \in [Providers -> Seq(Keys)] /\ made \in [Providers -> Seq(Made)]
      BY DEF IInv, TypeOK, Made
    <3>2. <<>> \in Seq(Keys) /\ <<>> \in Seq(Made)
      OBVIOUS
    <3>3. QED BY <1>2, <3>1, <3>2
  <2>2. pc' \in [Providers -> {"idle", "offers", "lookup", "insert", "created", "lock",
                               "accepted", "remove", "removing", "gone", "failed"}]
    BY <1>2 DEF IInv, TypeOK
  <2>3. QED BY <1>1, <2>1, <2>2 DEF IInv, TypeOK, Made, storeVars, switchVars, handlerVars
<1>4. \A q \in Providers :
        /\ q # p => pc'[q] = pc[q] /\ made'[q] = made[q] /\ offered'[q] = offered[q] /\ MadeIDs(q)' = MadeIDs(q)
        /\ MadeIDs(q)' \subseteq MadeIDs(q)
        /\ \/ made'[q] = made[q] /\ offered'[q] = offered[q]
           \/ made'[q] = <<>> /\ ~IsPending(q)' /\ pc'[q] = "failed"
        /\ IsPending(q)' => IsPending(q)
  BY <1>1, <1>2 DEF IInv, TypeOK, MadeIDs, IsPending
<1>5. pc'[p] \in {"insert", "failed"}
  BY <1>2 DEF IInv, TypeOK
<1>6. \A i \in IDs : active[i] # p
  BY <1>1 DEF IInv, Registry
<1>7. Stages'
  BY <1>1, <1>4, <1>5 DEF IInv, Stages, storeVars, switchVars
<1>8. Registry' /\ TogglesAssigned'
  <2>1. Registry'
    BY <1>1, <1>4, <1>5, <1>6 DEF IInv, Registry
  <2>2. QED BY <1>1, <2>1 DEF IInv, TogglesAssigned, switchVars
<1>9. Updating' /\ ActiveAgreesWithStore'
  BY <1>1 DEF IInv, Updating, ActiveAgreesWithStore, storeVars, handlerVars
<1>10. Fresh'
  BY <1>1, <1>4 DEF IInv, Fresh, storeVars
<1>11. Exclusive'
  BY <1>1, <1>4, <1>5 DEF IInv, Exclusive, handlerVars
<1>12. QED BY <1>3, <1>7, <1>8, <1>9, <1>10, <1>11 DEF IInv

\* The new row has an id that nobody has seen.
LEMMA CreateStep ==
    ASSUME IInv, NEW p \in Providers, CreateLightSwitch(p)
    PROVE  IInv'
<1> DEFINE id == created + 1
<1>1. /\ pc[p] = "insert" /\ id \in IDs
      /\ created' = id /\ rows' = rows \cup {id}
      /\ key' = [key EXCEPT ![id] = Head(offered[p])]
      /\ stored' = [stored EXCEPT ![id] = {}]
      /\ UNCHANGED <<deleted, forgotten>>
      /\ Make(p, id, {})
      /\ UNCHANGED <<hired, active, assigned, switchVars, handlerVars, raced>>
  BY DEF CreateLightSwitch, StoreCreate
<1>2. created \in Nat /\ created < id /\ (\A i \in IDs : i <= created => i # id /\ i <= id)
  BY DEF IInv, TypeOK, IDs
<1>3. /\ made' \in [Providers -> Seq(Made)]
      /\ offered' \in [Providers -> Seq(Keys)]
      /\ pc' \in [Providers -> {"idle", "offers", "lookup", "insert", "created", "lock",
                                "accepted", "remove", "removing", "gone", "failed"}]
      /\ pc'[p] \in {"lookup", "created"}
      /\ pc'[p] = "lookup" => offered'[p] # <<>>
      /\ \A q \in Providers \ {p} :
           made'[q] = made[q] /\ pc'[q] = pc[q] /\ offered'[q] = offered[q] /\ MadeIDs(q)' = MadeIDs(q)
      /\ MadeIDs(p)' = MadeIDs(p) \cup {id}
      /\ \A n \in DOMAIN made'[p] :
           \/ n \in DOMAIN made[p] /\ made'[p][n] = made[p][n]
           \/ made'[p][n] = [id |-> id, assignments |-> {}]
  <2>1. {} \in SUBSET Fixtures /\ pc[p] \in {"lookup", "insert"}
    BY <1>1
  <2>2. QED BY <1>1, <2>1, MakeFacts
<1>4. id \in 0..MaxRows /\ id <= id /\ created' = id
  BY <1>1, <1>2 DEF IDs
<1>5. \A q \in Providers : MadeIDs(q) \subseteq IDs /\ (\A n \in DOMAIN made[q] : made[q][n].id \in MadeIDs(q))
  BY MadeHasID DEF IInv
<1>6. TypeOK'
  <2>1. offered[p] \in Seq(Keys) /\ offered[p] # <<>>
    BY <1>1 DEF IInv, TypeOK, Stages
  <2>2. Head(offered[p]) \in Keys
    BY <2>1
  <2>3. key' \in [IDs -> Keys] /\ stored' \in [IDs -> SUBSET Fixtures]
    BY <1>1, <2>2 DEF IInv, TypeOK
  <2>4. created' \in 0..MaxRows /\ rows' \subseteq IDs
    BY <1>1, <1>4 DEF IInv, TypeOK
  <2>5. QED BY <1>1, <1>3, <2>3, <2>4 DEF IInv, TypeOK, Made, switchVars, handlerVars
<1> HIDE DEF id
<1>7. (\A i \in rows : i # id) /\ (\A q \in Providers : id \notin MadeIDs(q))
  BY <1>2, <1>5 DEF IInv, TypeOK, Stages
<1>8. \A i \in IDs \ {id} : stored'[i] = stored[i] /\ (i \in rows' <=> i \in rows)
  BY <1>1 DEF IInv, TypeOK
<1>9. stored'[id] = {} /\ id \in rows'
  BY <1>1 DEF IInv, TypeOK
<1>10. active[id] \notin Providers
  BY <1>1, <1>7 DEF IInv, Registry
<1>11. Stages'
  <2>1. \A i \in rows' : i <= id
    BY <1>1, <1>2, <1>4 DEF IInv, TypeOK, Stages
  <2>2. \A q \in Providers : \A i \in MadeIDs(q)' : i <= id
    <3>1. \A q \in Providers : \A i \in MadeIDs(q) : i \in IDs /\ i <= created
      BY <1>5 DEF IInv, Stages
    <3>2. \A q \in Providers : \A i \in MadeIDs(q)' : i \in MadeIDs(q) \/ i = id
      BY <1>3
    <3>3. QED BY <1>2, <1>4, <3>1, <3>2
  <2>3. \A i \in IDs : stored'[i] \cap deleted' = {}
    BY <1>1, <1>8, <1>9 DEF IInv, Stages
  <2>4. \A q \in Providers, i \in IDs :
          /\ <<q, i>> \in running' => pc'[q] \in {"accepted", "remove", "removing", "gone", "failed"}
          /\ toggling'[q][i] # {} => <<q, i>> \in running'
    BY <1>1, <1>3 DEF IInv, Stages, switchVars
  <2>5. \A q \in Providers :
          /\ pc'[q] \in {"idle", "offers"} => made'[q] = <<>>
          /\ pc'[q] \in {"lookup", "insert"} => offered'[q] # <<>>
    BY <1>1, <1>3 DEF IInv, Stages
  <2>6. QED BY <1>4, <2>1, <2>2, <2>3, <2>4, <2>5 DEF Stages
<1>12. Registry' /\ TogglesAssigned'
  <2>0. \A j \in IDs : active[j] # p
    BY <1>1 DEF IInv, Registry
  <2>1. Registry'
    <3>1. /\ active' = active /\ pc'[p] \notin {"accepted", "remove", "removing"}
          /\ \A q \in Providers \ {p} : pc'[q] = pc[q] /\ MadeIDs(q)' = MadeIDs(q)
      BY <1>1, <1>3
    <3>2. QED BY <2>0, <3>1 DEF IInv, Registry
  <2>2. QED BY <1>1, <2>1 DEF IInv, TogglesAssigned, switchVars
<1>13. Updating' /\ ActiveAgreesWithStore'
  <2>1. Updating'
    BY <1>1, <1>8, <1>10 DEF IInv, Updating, handlerVars
  <2>2. QED BY <1>1, <1>8, <1>10, <2>1 DEF IInv, ActiveAgreesWithStore, handlerVars
<1>14. Fresh'
  <2>1. \A q \in Providers : IsPending(q)' => IsPending(q)
    BY <1>1, <1>3 DEF IsPending
  <2>2. \A q \in Providers : \A n \in DOMAIN made[q] : made[q][n].id \in IDs \ {id}
    BY <1>5, <1>7
  <2>3. SUFFICES ASSUME NEW q \in Providers, IsPending(q)', NEW n \in DOMAIN made'[q], made'[q][n].id \notin raced
                 PROVE  made'[q][n].id \in rows' /\ made'[q][n].assignments \ deleted = stored'[made'[q][n].id]
    BY <1>1 DEF Fresh
  <2>4. CASE n \in DOMAIN made[q] /\ made'[q][n] = made[q][n]
    BY <1>8, <2>1, <2>2, <2>3, <2>4 DEF IInv, Fresh
  <2>5. CASE made'[q][n] = [id |-> id, assignments |-> {}]
    BY <1>9, <2>5
  <2>6. QED BY <1>3, <2>3, <2>4, <2>5
<1>15. Exclusive'
  BY <1>1, <1>3 DEF IInv, Exclusive, handlerVars
<1>16. QED BY <1>6, <1>11, <1>12, <1>13, <1>14, <1>15 DEF IInv

\* Nobody else has the switches that are registered, and none of them has run
\* before; whether the provider is accepted or not, what was registered stays.
LEMMA RegisterStep ==
    ASSUME IInv, NEW p \in Providers, RegisterLightSwitches(p)
    PROVE  IInv'
<1> DEFINE ns == Registrable(p)
           ids == {made[p][n].id : n \in ns}
<1>1. /\ pc[p] = "lock" /\ LockFree
      /\ active' = [i \in IDs |-> IF i \in ids THEN p ELSE active[i]]
      /\ assigned' = [assigned EXCEPT ![p] = [i \in IDs |->
            IF i \in ids THEN made[p][CHOOSE n \in ns : made[p][n].id = i].assignments ELSE @[i]]]
      /\ running' = running \cup {<<p, i>> : i \in ids}
      /\ UNCHANGED <<storeVars, made, isHigh, toggling, handlerVars, raced>>
  BY DEF RegisterLightSwitches
<1>2. \/ ns = DOMAIN made[p] /\ pc' = [pc EXCEPT ![p] = "accepted"] /\ UNCHANGED <<hired, offered>>
      \/ /\ pc' = [pc EXCEPT ![p] = "failed"]
         /\ hired' = hired \ {p} /\ offered' = [offered EXCEPT ![p] = <<>>]
  BY DEF RegisterLightSwitches, Fire
<1>3. ns \subseteq DOMAIN made[p] /\ \A n \in ns : active[made[p][n].id] = NoProvider
  <2>1. \A n \in DOMAIN made[p] : n \in 1..n
    BY DEF IInv, TypeOK
  <2>2. QED BY <2>1 DEF Registrable, Conflict
<1> HIDE DEF ns
<1>4. /\ ids \subseteq MadeIDs(p) /\ MadeIDs(p) \subseteq IDs
      /\ \A n \in ns : made[p][n].id \in IDs /\ made[p][n].assignments \in SUBSET Fixtures
  BY <1>3, MadeHasID DEF IInv, MadeIDs
<1>5. \A i \in ids : active[i] = NoProvider
  BY <1>3
<1>6. \A i \in ids : \E n \in ns : made[p][n].id = i /\ assigned'[p][i] = made[p][n].assignments
  <2> SUFFICES ASSUME NEW i \in ids
               PROVE  \E n \in ns : made[p][n].id = i /\ assigned'[p][i] = made[p][n].assignments
    OBVIOUS
  <2> DEFINE c == CHOOSE n \in ns : made[p][n].id = i
  <2>1. c \in ns /\ made[p][c].id = i
    OBVIOUS
  <2>2. assigned'[p][i] = made[p][c].assignments
    BY <1>1, <1>4 DEF IInv, TypeOK
  <2>3. QED BY <2>1, <2>2
<1>7. \A q \in Providers, i \in IDs : (q # p \/ i \notin ids) => assigned'[q][i] = assigned[q][i]
  BY <1>1 DEF IInv, TypeOK
<1>8. (ns = DOMAIN made[p]) => ids = MadeIDs(p)
  BY DEF MadeIDs
<1> HIDE DEF ids
<1>9. /\ \A q \in Providers \ {p} : pc'[q] = pc[q] /\ offered'[q] = offered[q]
      /\ pc'[p] \in {"accepted", "failed"}
      /\ pc'[p] = "accepted" => ids = MadeIDs(p)
  BY <1>2, <1>8 DEF IInv, TypeOK
<1>10. made' = made /\ \A q \in Providers : MadeIDs(q)' = MadeIDs(q)
  BY <1>1 DEF MadeIDs
<1>11. \A i \in IDs : active'[i] = IF i \in ids THEN p ELSE active[i]
  BY <1>1
<1>12. TypeOK'
  <2>1. active' \in [IDs -> Providers \cup {NoProvider}]
    BY <1>1 DEF IInv, TypeOK
  <2>2. running' \subseteq Providers \X IDs
    BY <1>1, <1>4 DEF IInv, TypeOK
  <2>3. assigned' \in [Providers -> [IDs -> SUBSET Fixtures]]
    <3> DEFINE new == [i \in IDs |->
            IF i \in ids THEN made[p][CHOOSE n \in ns : made[p][n].id = i].assignments ELSE assigned[p][i]]
    <3>1. assigned \in [Providers -> [IDs -> SUBSET Fixtures]]
      BY DEF IInv, TypeOK
    <3>2. assigned' = [assigned EXCEPT ![p] = new]
      BY <1>1
    <3>3. assigned'[p] = new
      BY <3>1, <3>2
    <3>4. new = [i \in IDs |-> new[i]]
      OBVIOUS
    <3> HIDE DEF new
    <3>5. new \in [IDs -> SUBSET Fixtures]
      <4>1. ASSUME NEW i \in IDs PROVE assigned'[p][i] \in SUBSET Fixtures
        <5>1. CASE i \in ids
          BY <1>4, <1>6, <5>1
        <5>2. CASE i \notin ids
          BY <1>7, <3>1, <5>2
        <5>3. QED BY <5>1, <5>2
      <4>2. QED BY <3>3, <3>4, <4>1
    <3>6. QED BY <3>1, <3>2, <3>5
  <2>4. hired' \subseteq Providers /\ offered' \in [Providers -> Seq(Keys)]
    <3>1. hired \subseteq Providers /\ offered \in [Providers -> Seq(Keys)] /\ <<>> \in Seq(Keys)
      BY DEF IInv, TypeOK
    <3>2. QED BY <1>2, <3>1
  <2>5. pc' \in [Providers -> {"idle", "offers", "lookup", "insert", "created", "lock",
                               "accepted", "remove", "removing", "gone", "failed"}]
    BY <1>2 DEF IInv, TypeOK
  <2>6. QED BY <1>1, <2>1, <2>2, <2>3, <2>4, <2>5 DEF IInv, TypeOK, storeVars, handlerVars
<1>13. \A i \in IDs : toggling[p][i] = {}
  BY <1>1 DEF IInv, Stages
<1>14. Stages'
  <2>1. \A q \in Providers, i \in IDs :
          /\ <<q, i>> \in running' => q = p \/ <<q, i>> \in running
          /\ <<q, i>> \in running => <<q, i>> \in running'
    BY <1>1
  <2>2. /\ created' = created /\ rows' = rows /\ toggling' = toggling
        /\ stored' = stored /\ deleted' = deleted
    BY <1>1 DEF storeVars
  <2>3. QED BY <1>9, <1>10, <2>1, <2>2 DEF IInv, Stages
<1>15. Registry'
  <2>1. ASSUME NEW q \in Providers, pc'[q] \in {"accepted", "remove"}, NEW i \in MadeIDs(q)
        PROVE  active'[i] = q
    <3>1. i \in IDs
      BY MadeHasID DEF IInv
    <3>2. CASE q = p
      BY <1>9, <1>11, <2>1, <3>1, <3>2
    <3>3. CASE q # p
      <4>1. active[i] = q
        BY <1>9, <2>1, <3>3 DEF IInv, Registry
      <4>2. QED BY <1>5, <1>11, <3>1, <4>1, ConstantsAssumption
    <3>4. QED BY <3>2, <3>3
  <2>2. ASSUME NEW i \in IDs, NEW q \in Providers, active'[i] = q
        PROVE  i \in MadeIDs(q) /\ pc'[q] \in {"accepted", "remove", "removing", "failed"}
    <3>1. CASE i \in ids
      BY <1>4, <1>9, <1>11, <2>2, <3>1
    <3>2. CASE i \notin ids
      BY <1>1, <1>9, <1>11, <2>2, <3>2 DEF IInv, Registry
    <3>3. QED BY <3>1, <3>2
  <2>3. \A q \in Providers : pc'[q] # "removing"
    BY <1>1, <1>9 DEF LockFree
  <2>4. QED BY <1>10, <2>1, <2>2, <2>3 DEF Registry
<1>16. TogglesAssigned'
  BY <1>1, <1>7, <1>13 DEF IInv, TogglesAssigned
<1>17. Updating'
  BY <1>1 DEF LockFree, Updating, handlerVars
<1>18. Fresh'
  <2>1. \A q \in Providers : IsPending(q)' => IsPending(q)
    BY <1>1, <1>9 DEF IsPending
  <2>2. QED BY <1>1, <1>10, <2>1 DEF IInv, Fresh, storeVars
<1>19. ActiveAgreesWithStore'
  <2>0. UNCHANGED <<rows, stored, deleted>>
    BY <1>1 DEF storeVars
  <2> SUFFICES ASSUME NEW i \in IDs, NEW q \in Providers, active'[i] = q, i \notin raced
               PROVE  i \in rows /\ assigned'[q][i] \ deleted = stored[i]
    BY <1>1 DEF ActiveAgreesWithStore, storeVars
  <2>1. CASE i \in ids
    <3>1. PICK n \in ns : made[p][n].id = i /\ assigned'[p][i] = made[p][n].assignments
      BY <1>6, <2>1
    <3>2. IsPending(p) /\ q = p
      BY <1>1, <1>11, <2>1 DEF IsPending
    <3>3. QED BY <1>3, <3>1, <3>2 DEF IInv, Fresh
  <2>2. CASE i \notin ids
    BY <1>1, <1>7, <1>11, <2>2 DEF IInv, ActiveAgreesWithStore, LockFree
  <2>3. QED BY <2>1, <2>2
<1>20. Exclusive'
  BY <1>1, <1>9 DEF LockFree, Exclusive
<1>21. QED BY <1>12, <1>14, <1>15, <1>16, <1>17, <1>18, <1>19, <1>20 DEF IInv

\* The cleanup removes a switch of the provider. Who was raced and is neither
\* active nor about to be, has nothing to disagree about anymore.
LEMMA RemoveStep ==
    ASSUME IInv, NEW p \in Providers, RemoveLightSwitch(p)
    PROVE  IInv'
<1> DEFINE id == Head(made[p]).id
<1>1. /\ pc[p] = "removing" /\ made[p] # <<>>
      /\ active' = [active EXCEPT ![id] = NoProvider]
      /\ made' = [made EXCEPT ![p] = Tail(@)]
      /\ raced' = raced \ ({id} \ Pending)
      /\ UNCHANGED <<storeVars, hired, pc, offered, assigned, switchVars, handlerVars>>
  BY DEF RemoveLightSwitch
<1>2. /\ made[p] \in Seq(Made) /\ Tail(made[p]) \in Seq(Made)
      /\ 1 \in DOMAIN made[p] /\ Head(made[p]) = made[p][1]
      /\ \A n \in DOMAIN made[p] : n = 1 \/ (n - 1 \in DOMAIN Tail(made[p]) /\ made[p][n] = Tail(made[p])[n - 1])
      /\ \A n \in DOMAIN Tail(made[p]) : n + 1 \in DOMAIN made[p] /\ Tail(made[p])[n] = made[p][n + 1]
  <2>1. made[p] \in Seq(Made)
    BY DEF IInv, TypeOK, Made
  <2> HIDE DEF Made
  <2>2. QED BY <1>1, <2>1
<1>3. id \in IDs /\ id \in MadeIDs(p)
  BY <1>2, MadeHasID DEF IInv
<1> HIDE DEF id
<1>4. /\ \A q \in Providers \ {p} : made'[q] = made[q] /\ MadeIDs(q)' = MadeIDs(q)
      /\ made'[p] = Tail(made[p])
  BY <1>1 DEF IInv, TypeOK, MadeIDs
<1>5. MadeIDs(p)' \subseteq MadeIDs(p) /\ MadeIDs(p) \subseteq MadeIDs(p)' \cup {id}
  <2>1. MadeIDs(p)' = {Tail(made[p])[n].id : n \in DOMAIN Tail(made[p])}
    BY <1>4 DEF MadeIDs
  <2>2. ASSUME NEW n \in DOMAIN Tail(made[p]) PROVE Tail(made[p])[n].id \in MadeIDs(p)
    BY <1>2 DEF MadeIDs
  <2>3. ASSUME NEW n \in DOMAIN made[p], n # 1
        PROVE  \E m \in DOMAIN Tail(made[p]) : made[p][n].id = Tail(made[p])[m].id
    BY <1>2, <2>3
  <2>4. made[p][1].id = id
    BY <1>2 DEF id
  <2>5. QED BY <2>1, <2>2, <2>3, <2>4 DEF MadeIDs
<1>6. \A i \in IDs : active'[i] = IF i = id THEN NoProvider ELSE active[i]
  BY <1>1, <1>3 DEF IInv, TypeOK
<1>7. TypeOK'
  <2>1. active' \in [IDs -> Providers \cup {NoProvider}] /\ raced' \subseteq IDs
    BY <1>1 DEF IInv, TypeOK
  <2>2. made' \in [Providers -> Seq(Made)]
    <3>1. made \in [Providers -> Seq(Made)]
      BY DEF IInv, TypeOK, Made
    <3>2. QED BY <1>1, <1>2, <3>1
  <2>3. QED BY <1>1, <2>1, <2>2 DEF IInv, TypeOK, Made, storeVars, switchVars, handlerVars
<1>8. Stages'
  BY <1>1, <1>4, <1>5 DEF IInv, Stages, storeVars, switchVars
<1>9. Registry'
  <2>1. ASSUME NEW q \in Providers, pc[q] \in {"accepted", "remove"}, NEW i \in MadeIDs(q)'
        PROVE  active'[i] = q
    <3>1. q # p /\ i \in IDs /\ active[i] = q
      BY <1>1, <1>4, <2>1, MadeHasID DEF IInv, Registry
    <3>2. active[id] \in {p, NoProvider}
      BY <1>1, <1>3 DEF IInv, Registry
    <3>3. QED BY <1>6, <3>1, <3>2, ConstantsAssumption
  <2>2. ASSUME NEW q \in Providers, pc[q] = "removing", NEW i \in MadeIDs(q)'
        PROVE  active'[i] \in {q, NoProvider}
    <3>1. i \in MadeIDs(q)
      BY <1>4, <1>5, <2>2
    <3>2. i \in IDs /\ active[i] \in {q, NoProvider}
      BY <2>2, <3>1, MadeHasID DEF IInv, Registry
    <3>3. QED BY <1>6, <3>2
  <2>3. ASSUME NEW i \in IDs, NEW q \in Providers, active'[i] = q
        PROVE  i \in MadeIDs(q)' /\ pc[q] \in {"accepted", "remove", "removing", "failed"}
    <3>1. active[i] = q /\ i # id
      BY <1>6, <2>3, ConstantsAssumption
    <3>2. QED BY <1>4, <1>5, <3>1 DEF IInv, Registry
  <2>4. QED BY <1>1, <2>1, <2>2, <2>3 DEF Registry
<1>10. TogglesAssigned'
  BY <1>1 DEF IInv, TogglesAssigned, switchVars
<1>11. Updating'
  <2>1. ASSUME NEW h \in Handlers PROVE handler[h] # "set"
    BY <1>1 DEF IInv, Exclusive
  <2>2. QED BY <1>1, <2>1 DEF Updating, handlerVars
<1>12. Fresh'
  <2> SUFFICES ASSUME NEW q \in Providers, IsPending(q)', NEW n \in DOMAIN made'[q], made'[q][n].id \notin raced'
               PROVE  made'[q][n].id \in rows /\ made'[q][n].assignments \ deleted = stored[made'[q][n].id]
    BY <1>1 DEF Fresh, storeVars
  <2>1. q # p /\ IsPending(q) /\ made'[q] = made[q]
    BY <1>1, <1>4 DEF IsPending
  <2>2. made[q][n].id \in Pending
    BY <2>1, MadeHasID DEF IInv, IsPending, Pending
  <2>3. made[q][n].id \notin raced
    BY <1>1, <2>1, <2>2
  <2>4. QED BY <2>1, <2>3 DEF IInv, Fresh
<1>13. ActiveAgreesWithStore'
  <2> SUFFICES ASSUME NEW i \in IDs, NEW q \in Providers, active'[i] = q, i \notin raced'
               PROVE  /\ i \in rows
                      /\ \/ assigned[q][i] \ deleted = stored[i]
                         \/ \E h \in Handlers : handler[h] = "set" /\ target[h] = i
    BY <1>1 DEF ActiveAgreesWithStore, storeVars, handlerVars
  <2>1. active[i] = q /\ i \notin raced
    BY <1>1, <1>6, ConstantsAssumption
  <2>2. QED BY <2>1 DEF IInv, ActiveAgreesWithStore
<1>14. Exclusive'
  BY <1>1 DEF IInv, Exclusive, handlerVars
<1>15. QED BY <1>7, <1>8, <1>9, <1>10, <1>11, <1>12, <1>13, <1>14 DEF IInv

\* The cleanup has removed all and lets go of the lock.
LEMMA RemovalEndsStep ==
    ASSUME IInv, NEW p \in Providers, RemovalEnds(p)
    PROVE  IInv'
<1>1. /\ pc[p] = "removing" /\ made[p] = <<>>
      /\ pc' = [pc EXCEPT ![p] = "gone"]
      /\ UNCHANGED <<storeVars, hired, offered, made, active, assigned, switchVars, handlerVars, raced>>
  BY DEF RemovalEnds
<1>2. /\ \A q \in Providers : MadeIDs(q)' = MadeIDs(q)
      /\ \A q \in Providers \ {p} : pc'[q] = pc[q]
      /\ MadeIDs(p) = {} /\ pc'[p] = "gone"
  BY <1>1 DEF IInv, TypeOK, MadeIDs
<1>3. TypeOK'
  <2>1. pc' \in [Providers -> {"idle", "offers", "lookup", "insert", "created", "lock",
                               "accepted", "remove", "removing", "gone", "failed"}]
    BY <1>1 DEF IInv, TypeOK
  <2>2. QED BY <1>1, <2>1 DEF IInv, TypeOK, storeVars, switchVars, handlerVars
<1>4. Stages'
  BY <1>1, <1>2 DEF IInv, Stages, storeVars, switchVars
<1>5. Registry'
  BY <1>1, <1>2 DEF IInv, Registry
<1>6. TogglesAssigned'
  BY <1>1 DEF IInv, TogglesAssigned, switchVars
<1>7. \A q \in Providers : IsPending(q)' => IsPending(q) \/ made[q] = <<>>
  BY <1>2 DEF IsPending
<1>8. Exclusive'
  BY <1>1, <1>2 DEF IInv, Exclusive, handlerVars
<1>9. QED BY <1>1, <1>3, <1>4, <1>5, <1>6, <1>7, <1>8, AwayFromStore DEF IInv

\* A deleted fixture goes out of the store and out of what the objects are
\* compared with.
LEMMA DeleteFixturesStep ==
    ASSUME IInv, NEW ks \in SUBSET Keys, NEW fs \in SUBSET Fixtures, DeleteFixtures(ks, fs)
    PROVE  IInv'
<1>1. /\ updates < MaxUpdates
      /\ stored' = [i \in IDs |-> stored[i] \ fs]
      /\ deleted' = deleted \cup fs
      /\ forgotten' = forgotten \cup ks
      /\ updates' = updates + 1
      /\ UNCHANGED <<created, rows, key, acceptVars, active, assigned, switchVars>>
      /\ UNCHANGED <<handler, target, payload, raced>>
  BY DEF DeleteFixtures
<1>2. made' = made /\ \A q \in Providers : MadeIDs(q)' = MadeIDs(q) /\ (IsPending(q)' <=> IsPending(q))
  BY <1>1 DEF MadeIDs, IsPending, acceptVars
<1>3. \A a, i : i \in IDs /\ a \ deleted = stored[i] => a \ deleted' = stored'[i]
  BY <1>1
<1>4. TypeOK'
  <2>1. updates' \in 0..MaxUpdates
    BY <1>1, ConstantsAssumption DEF IInv, TypeOK
  <2>2. stored' \in [IDs -> SUBSET Fixtures] /\ deleted' \subseteq Fixtures /\ forgotten' \subseteq Keys
    BY <1>1 DEF IInv, TypeOK
  <2>3. QED BY <1>1, <2>1, <2>2 DEF IInv, TypeOK, acceptVars, switchVars
<1>5. Stages'
  <2>1. \A i \in IDs : stored'[i] \cap deleted' = {}
    BY <1>1 DEF IInv, Stages
  <2>2. QED BY <1>1, <1>2, <2>1 DEF IInv, Stages, acceptVars, switchVars
<1>6. Registry' /\ TogglesAssigned' /\ Exclusive'
  <2>1. Registry'
    BY <1>1, <1>2 DEF IInv, Registry, acceptVars
  <2>2. TogglesAssigned' /\ Exclusive'
    BY <1>1 DEF IInv, TogglesAssigned, Exclusive, acceptVars, switchVars
  <2>3. QED BY <2>1, <2>2
<1>7. Updating'
  BY <1>1, <1>3 DEF IInv, Updating
<1>8. Fresh'
  <2> SUFFICES ASSUME NEW q \in Providers, IsPending(q), NEW n \in DOMAIN made[q], made[q][n].id \notin raced
               PROVE  /\ made[q][n].id \in rows
                      /\ made[q][n].assignments \ deleted' = stored'[made[q][n].id]
    BY <1>1, <1>2 DEF Fresh
  <2>1. made[q][n].id \in IDs
    BY MadeHasID DEF IInv
  <2>2. made[q][n].id \in rows /\ made[q][n].assignments \ deleted = stored[made[q][n].id]
    BY DEF IInv, Fresh
  <2>3. QED BY <1>3, <2>1, <2>2
<1>9. ActiveAgreesWithStore'
  BY <1>1, <1>3 DEF IInv, ActiveAgreesWithStore
<1>10. QED BY <1>4, <1>5, <1>6, <1>7, <1>8, <1>9 DEF IInv

\* An update that nothing overlaps with is what the handler goes on to set; any
\* other one is marked as a race.
LEMMA UpdateStep ==
    ASSUME IInv, NEW h \in Handlers, NEW id \in IDs, NEW a \in SUBSET Fixtures, UpdateLightSwitchByID(h, id, a)
    PROVE  IInv'
<1>1. /\ handler[h] = "idle" /\ updates < MaxUpdates /\ id \in rows /\ a \cap deleted = {}
      /\ stored' = [stored EXCEPT ![id] = a]
      /\ updates' = updates + 1
      /\ UNCHANGED <<created, rows, key, deleted, forgotten, acceptVars, active, assigned, switchVars>>
  BY DEF UpdateLightSwitchByID, StoreUpdate
<1>2. \/ /\ active[id] # NoProvider
         /\ handler' = [handler EXCEPT ![h] = "set"]
         /\ target' = [target EXCEPT ![h] = id]
         /\ payload' = [payload EXCEPT ![h] = a]
      \/ active[id] = NoProvider /\ UNCHANGED <<handler, target, payload>>
  BY DEF UpdateLightSwitchByID
<1>3. /\ raced \subseteq raced' /\ raced' \subseteq raced \cup {id}
      /\ id \in Pending => id \in raced'
      /\ \A o \in Handlers \ {h} : handler[o] = "set" /\ target[o] = id => id \in raced'
  BY DEF UpdateLightSwitchByID
<1>4. stored'[id] = a /\ \A i \in IDs \ {id} : stored'[i] = stored[i]
  BY <1>1 DEF IInv, TypeOK
<1>5. /\ \A o \in Handlers \ {h} : handler'[o] = handler[o] /\ target'[o] = target[o] /\ payload'[o] = payload[o]
      /\ active[id] \in Providers => handler'[h] = "set" /\ target'[h] = id /\ payload'[h] = a
      /\ active[id] = NoProvider => handler'[h] = "idle"
      /\ active[id] \in Providers \cup {NoProvider}
  BY <1>1, <1>2, ConstantsAssumption DEF IInv, TypeOK
<1>6. made' = made /\ \A q \in Providers : MadeIDs(q)' = MadeIDs(q) /\ (IsPending(q)' <=> IsPending(q))
  BY <1>1 DEF MadeIDs, IsPending, acceptVars
<1>7. TypeOK'
  <2>1. updates' \in 0..MaxUpdates
    BY <1>1, ConstantsAssumption DEF IInv, TypeOK
  <2>2. stored' \in [IDs -> SUBSET Fixtures] /\ raced' \subseteq IDs
    BY <1>1, <1>3 DEF IInv, TypeOK
  <2>3. /\ handler' \in [Handlers -> {"idle", "set"}]
        /\ target' \in [Handlers -> IDs \cup {NoID}]
        /\ payload' \in [Handlers -> SUBSET Fixtures]
    <3>1. CASE active[id] = NoProvider
      BY <1>2, <3>1 DEF IInv, TypeOK
    <3>2. CASE active[id] # NoProvider
      <4>1. handler' \in [Handlers -> {"idle", "set"}]
        BY <1>2, <3>2 DEF IInv, TypeOK
      <4>2. target' \in [Handlers -> IDs \cup {NoID}]
        BY <1>2, <3>2 DEF IInv, TypeOK
      <4>3. payload' \in [Handlers -> SUBSET Fixtures]
        BY <1>2, <3>2 DEF IInv, TypeOK
      <4>4. QED BY <4>1, <4>2, <4>3
    <3>3. QED BY <3>1, <3>2
  <2>4. QED BY <1>1, <2>1, <2>2, <2>3 DEF IInv, TypeOK, acceptVars, switchVars
<1>8. Stages' /\ Registry' /\ TogglesAssigned'
  <2>1. Stages'
    BY <1>1, <1>4, <1>6 DEF IInv, Stages, acceptVars, switchVars
  <2>2. Registry'
    BY <1>1, <1>6 DEF IInv, Registry, acceptVars
  <2>3. QED BY <1>1, <2>1, <2>2 DEF IInv, TogglesAssigned, switchVars
<1>9. Updating'
  <2> SUFFICES ASSUME NEW o \in Handlers, handler'[o] = "set"
               PROVE  /\ target'[o] \in IDs /\ active[target'[o]] \in Providers
                      /\ target'[o] \notin raced' => payload'[o] \ deleted = stored'[target'[o]]
    BY <1>1 DEF Updating
  <2>1. CASE o = h
    <3>1. a \ deleted = a
      BY <1>1
    <3>2. QED BY <1>4, <1>5, <2>1, <3>1
  <2>2. CASE o # h
    BY <1>3, <1>4, <1>5, <2>2 DEF IInv, Updating
  <2>3. QED BY <2>1, <2>2
<1>10. Fresh'
  <2> SUFFICES ASSUME NEW q \in Providers, IsPending(q), NEW n \in DOMAIN made[q], made[q][n].id \notin raced'
               PROVE  made[q][n].id \in rows /\ made[q][n].assignments \ deleted = stored'[made[q][n].id]
    BY <1>1, <1>6 DEF Fresh
  <2>1. made[q][n].id \in Pending /\ made[q][n].id \in IDs
    BY MadeHasID DEF IInv, IsPending, Pending
  <2>2. made[q][n].id # id /\ made[q][n].id \notin raced
    BY <1>3, <2>1
  <2>3. QED BY <1>4, <2>1, <2>2 DEF IInv, Fresh
<1>11. ActiveAgreesWithStore'
  <2> SUFFICES ASSUME NEW i \in IDs, NEW q \in Providers, active[i] = q, i \notin raced'
               PROVE  /\ i \in rows
                      /\ \/ assigned[q][i] \ deleted = stored'[i]
                         \/ \E o \in Handlers : handler'[o] = "set" /\ target'[o] = i
    BY <1>1 DEF ActiveAgreesWithStore
  <2>1. CASE i = id
    BY <1>1, <1>5, <2>1
  <2>2. CASE i # id
    BY <1>1, <1>3, <1>4, <1>5, <2>2 DEF IInv, ActiveAgreesWithStore
  <2>3. QED BY <2>1, <2>2
<1>12. Exclusive'
  BY <1>1 DEF UpdateLightSwitchByID, RLockFree, Exclusive, acceptVars
<1>13. QED BY <1>7, <1>8, <1>9, <1>10, <1>11, <1>12 DEF IInv

\* The object gets what the handler has stored, when no press is under way.
LEMMA SetStep ==
    ASSUME IInv, NEW h \in Handlers, SetAssignments(h)
    PROVE  IInv'
<1> DEFINE t == target[h]
           p == active[t]
<1>1. /\ handler[h] = "set" /\ toggling[p][t] = {}
      /\ assigned' = [assigned EXCEPT ![p][t] = payload[h]]
      /\ handler' = [handler EXCEPT ![h] = "idle"]
      /\ target' = [target EXCEPT ![h] = NoID]
      /\ payload' = [payload EXCEPT ![h] = {}]
      /\ UNCHANGED <<storeVars, acceptVars, active, switchVars, updates, raced>>
  BY DEF SetAssignments, HandlerReturns
<1>2. t \in IDs /\ p \in Providers /\ (t \notin raced => payload[h] \ deleted = stored[t])
  BY <1>1 DEF IInv, Updating
<1> HIDE DEF t
<1>3. /\ \A o \in Handlers \ {h} : handler'[o] = handler[o] /\ target'[o] = target[o] /\ payload'[o] = payload[o]
      /\ handler'[h] = "idle"
  BY <1>1 DEF IInv, TypeOK
<1>4. /\ assigned'[p][t] = payload[h]
      /\ \A q \in Providers, i \in IDs : (q # p \/ i # t) => assigned'[q][i] = assigned[q][i]
  BY <1>1, <1>2 DEF IInv, TypeOK
<1>5. made' = made /\ \A q \in Providers : MadeIDs(q)' = MadeIDs(q) /\ (IsPending(q)' <=> IsPending(q))
  BY <1>1 DEF MadeIDs, IsPending, acceptVars
<1>6. TypeOK'
  <2>1. payload[h] \in SUBSET Fixtures /\ assigned \in [Providers -> [IDs -> SUBSET Fixtures]]
    BY DEF IInv, TypeOK
  <2>2. assigned' \in [Providers -> [IDs -> SUBSET Fixtures]]
    BY <1>1, <1>2, <2>1
  <2>3. /\ handler' \in [Handlers -> {"idle", "set"}]
        /\ target' \in [Handlers -> IDs \cup {NoID}]
        /\ payload' \in [Handlers -> SUBSET Fixtures]
    BY <1>1 DEF IInv, TypeOK
  <2>4. QED BY <1>1, <2>2, <2>3 DEF IInv, TypeOK, storeVars, acceptVars, switchVars
<1>7. Stages' /\ Registry'
  <2>1. Stages'
    BY <1>1, <1>5 DEF IInv, Stages, storeVars, acceptVars, switchVars
  <2>2. QED BY <1>1, <1>5, <2>1 DEF IInv, Registry, acceptVars
<1>8. TogglesAssigned'
  BY <1>1, <1>4 DEF IInv, TogglesAssigned, switchVars
<1>9. Updating' /\ Fresh'
  <2>1. Updating'
    BY <1>1, <1>3 DEF IInv, Updating, storeVars
  <2>2. QED BY <1>1, <1>5, <2>1 DEF IInv, Fresh, storeVars
<1>10. ActiveAgreesWithStore'
  <2> SUFFICES ASSUME NEW i \in IDs, NEW q \in Providers, active[i] = q, i \notin raced
               PROVE  /\ i \in rows
                      /\ \/ assigned'[q][i] \ deleted = stored[i]
                         \/ \E o \in Handlers : handler'[o] = "set" /\ target'[o] = i
    BY <1>1 DEF ActiveAgreesWithStore, storeVars
  <2>1. CASE i = t
    BY <1>2, <1>4, <2>1 DEF IInv, ActiveAgreesWithStore
  <2>2. CASE i # t
    BY <1>3, <1>4, <2>2 DEF IInv, ActiveAgreesWithStore, t
  <2>3. QED BY <2>1, <2>2
<1>11. Exclusive'
  BY <1>1, <1>3 DEF IInv, Exclusive, acceptVars
<1>12. QED BY <1>6, <1>7, <1>8, <1>9, <1>10, <1>11 DEF IInv

\* A switch that is online is not deleted, one that is about to be is a race.
LEMMA DeleteStep ==
    ASSUME IInv, NEW h \in Handlers, NEW id \in IDs, DeleteLightSwitchByID(h, id)
    PROVE  IInv'
<1>1. /\ updates < MaxUpdates /\ active[id] = NoProvider
      /\ rows' = rows \ {id} /\ updates' = updates + 1
      /\ raced \subseteq raced' /\ raced' \subseteq raced \cup {id}
      /\ id \in Pending => id \in raced'
      /\ UNCHANGED <<created, key, stored, deleted, forgotten, acceptVars, active, assigned, switchVars>>
      /\ UNCHANGED <<handler, target, payload>>
  BY DEF DeleteLightSwitchByID, StoreDelete
<1>2. made' = made /\ \A q \in Providers : MadeIDs(q)' = MadeIDs(q) /\ (IsPending(q)' <=> IsPending(q))
  BY <1>1 DEF MadeIDs, IsPending, acceptVars
<1>3. TypeOK'
  <2>1. updates' \in 0..MaxUpdates
    BY <1>1, ConstantsAssumption DEF IInv, TypeOK
  <2>2. QED BY <1>1, <2>1 DEF IInv, TypeOK, acceptVars, switchVars
<1>4. Stages' /\ Registry' /\ TogglesAssigned'
  <2>1. Stages'
    BY <1>1, <1>2 DEF IInv, Stages, acceptVars, switchVars
  <2>2. Registry'
    BY <1>1, <1>2 DEF IInv, Registry, acceptVars
  <2>3. QED BY <1>1, <2>1, <2>2 DEF IInv, TogglesAssigned, switchVars
<1>5. Updating'
  BY <1>1 DEF IInv, Updating
<1>6. Fresh'
  <2> SUFFICES ASSUME NEW q \in Providers, IsPending(q), NEW n \in DOMAIN made[q], made[q][n].id \notin raced'
               PROVE  made[q][n].id \in rows' /\ made[q][n].assignments \ deleted = stored[made[q][n].id]
    BY <1>1, <1>2 DEF Fresh
  <2>1. made[q][n].id \in Pending
    BY MadeHasID DEF IInv, IsPending, Pending
  <2>2. made[q][n].id # id /\ made[q][n].id \notin raced
    BY <1>1, <2>1
  <2>3. QED BY <1>1, <2>2 DEF IInv, Fresh
<1>7. ActiveAgreesWithStore'
  BY <1>1, ConstantsAssumption DEF IInv, ActiveAgreesWithStore
<1>8. Exclusive'
  BY <1>1 DEF IInv, Exclusive, acceptVars
<1>9. QED BY <1>3, <1>4, <1>5, <1>6, <1>7, <1>8 DEF IInv

-----------------------------------------------------------------------------
\* Every step keeps the invariant.
LEMMA NextInvariant == IInv /\ [Next]_vars => IInv'
<1> SUFFICES ASSUME IInv, [Next]_vars PROVE IInv'
  OBVIOUS
<1>1. ASSUME NEW p \in Providers, Accept(p) PROVE IInv'
  <2>1. CASE \/ NoOffers(p) \/ ReceiveOffers(p)
             \/ LockForRegistration(p) \/ LockForRemoval(p) \/ StartRemoval(p)
    BY <2>1, MovingOn
  <2>2. CASE LookupLightSwitch(p)
    BY <2>2, FoundStep, NotFoundStep
  <2>3. CASE CreateLightSwitch(p)
    BY <2>3, CreateStep
  <2>4. CASE CreateFails(p)
    BY <2>4, NotFoundStep
  <2>5. CASE RegisterLightSwitches(p)
    BY <2>5, RegisterStep
  <2>6. CASE RemoveLightSwitch(p) \/ RemovalEnds(p)
    BY <2>6, RemoveStep, RemovalEndsStep
  <2>7. QED BY <1>1, <2>1, <2>2, <2>3, <2>4, <2>5, <2>6 DEF Accept
<1>2. ASSUME NEW p \in Providers, Hire(p) \/ ContractEnds(p) PROVE IInv'
  BY <1>2, MovingOn
<1>3. ASSUME NEW p \in Providers, NEW i \in IDs,
             \/ RunReturns(p, i)
             \/ \E high \in BOOLEAN : HandleMessage(p, i, high)
             \/ \E f \in Fixtures : ToggleReturns(p, i, f)
      PROVE  IInv'
  BY <1>3, SwitchStep
<1>4. ASSUME NEW h \in Handlers,
             \/ SetAssignments(h)
             \/ \E i \in IDs : DeleteLightSwitchByID(h, i)
             \/ \E i \in IDs, a \in SUBSET Fixtures : UpdateLightSwitchByID(h, i, a)
      PROVE  IInv'
  BY <1>4, SetStep, DeleteStep, UpdateStep
<1>5. ASSUME NEW ks \in SUBSET Keys, NEW fs \in SUBSET Fixtures, DeleteFixtures(ks, fs)
      PROVE  IInv'
  BY <1>5, DeleteFixturesStep
<1>6. CASE UNCHANGED vars
  <2>1. UNCHANGED <<storeVars, acceptVars, active, assigned, switchVars, handlerVars, raced>>
    BY <1>6 DEF vars
  <2>2. made' = made /\ \A q \in Providers : MadeIDs(q)' = MadeIDs(q) /\ (IsPending(q)' <=> IsPending(q))
    BY <2>1 DEF MadeIDs, IsPending, acceptVars
  <2>3. TypeOK'
    BY <2>1 DEF IInv, TypeOK, storeVars, acceptVars, switchVars, handlerVars
  <2>4. Stages'
    BY <2>1, <2>2 DEF IInv, Stages, storeVars, acceptVars, switchVars
  <2>5. Registry'
    BY <2>1, <2>2 DEF IInv, Registry, acceptVars
  <2>6. TogglesAssigned' /\ Exclusive'
    BY <2>1 DEF IInv, TogglesAssigned, Exclusive, acceptVars, switchVars, handlerVars
  <2>7. QED BY <2>1, <2>2, <2>3, <2>4, <2>5, <2>6, AwayFromStore DEF IInv
<1>7. QED BY <1>1, <1>2, <1>3, <1>4, <1>5, <1>6 DEF Next

\* The invariant holds in all reachable states.
LEMMA Invariant == Spec => []IInv
BY InitInvariant, NextInvariant, PTL DEF Spec

\* Whatever providers offer, and whoever comes, goes or is turned away at the
\* same time: RegisterLightSwitches and RemoveLightSwitches keep
\* activeLightSwitches exact.
THEOREM RegistryIsAlwaysExact == Spec => []RegistryIsExact
<1>1. IInv => RegistryIsExact
  BY DEF IInv, Registry, RegistryIsExact
<1>2. QED BY <1>1, Invariant, PTL

\* An active switch has its row and, but for deleted fixtures, the stored
\* assignments, except after an update or a deletion before its registration and
\* after two updates at once; with a manager's handler between
\* UpdateLightSwitchByID and SetAssignments the object is about to get them.
THEOREM ActiveAlwaysAgreesWithStore == Spec => []ActiveAgreesWithStore
<1>1. IInv => ActiveAgreesWithStore
  BY DEF IInv
<1>2. QED BY <1>1, Invariant, PTL

\* The mutex of a switch keeps SetAssignments away from a press under way.
THEOREM AlwaysTogglesAssigned == Spec => []TogglesAssigned
<1>1. IInv => TogglesAssigned
  BY DEF IInv
<1>2. QED BY <1>1, Invariant, PTL

-----------------------------------------------------------------------------
(* Who can go on, by the guards of the steps that need nothing from outside: *)
(* the store and the lighting manager answer, devices and managers need not. *)

\* AcceptLightSwitchProvider and its cleanup goroutine.
ProviderCanMove(p) ==
    \/ pc[p] = "offers" /\ p \notin hired
    \/ pc[p] \in {"lookup", "insert", "created"}
    \/ pc[p] = "lock" /\ LockFree
    \/ pc[p] = "accepted" /\ p \notin hired
    \/ pc[p] = "remove" /\ LockFree
    \/ pc[p] = "removing" /\ (made[p] = <<>> \/ toggling[p][Head(made[p]).id] = {})

\* A switch, and the goroutines of a press.
SwitchCanMove(p, i) ==
    \/ toggling[p][i] # {}
    \/ <<p, i>> \in running /\ p \notin hired /\ toggling[p][i] = {}

\* UpdateLightSwitchByID with the read lock held.
HandlerCanMove(h) == handler[h] = "set" /\ toggling[active[target[h]]][target[h]] = {}

SomeoneCanMove ==
    \/ \E p \in Providers : ProviderCanMove(p) \/ \E i \in IDs : SwitchCanMove(p, i)
    \/ \E h \in Handlers : HandlerCanMove(h)

\* Every provider waits for its device or for the end of its contract, or is done
\* with; no switch outlives its contract, and nobody holds or wants a mutex.
AtRest ==
    /\ \A p \in Providers :
         /\ pc[p] \in {"idle", "offers", "accepted", "gone", "failed"}
         /\ pc[p] \in {"offers", "accepted"} => p \in hired
         /\ \A i \in IDs : toggling[p][i] = {} /\ (<<p, i>> \in running => p \in hired)
    /\ \A h \in Handlers : handler[h] = "idle"

\* Handlers that hold activeLightSwitchesMutex for reading and providers that hold
\* it to remove their switches wait for the mutex of a switch, the switch for its
\* fixtures, and providers that want the lock keep new readers out: nobody waits in
\* a circle.
NoDeadlock == SomeoneCanMove \/ AtRest

\* Toggles come to an end, then the handlers that wait for them, then the
\* providers that wait for those: with the guards of all of them false, nothing
\* is left to do.
LEMMA RestIsReached == IInv => NoDeadlock
<1> SUFFICES ASSUME IInv, ~SomeoneCanMove PROVE AtRest
  BY DEF NoDeadlock
<1>1. ASSUME NEW p \in Providers, NEW i \in IDs
      PROVE  toggling[p][i] = {} /\ (<<p, i>> \in running => p \in hired)
  BY DEF SomeoneCanMove, SwitchCanMove
<1>2. ASSUME NEW h \in Handlers PROVE handler[h] = "idle"
  <2> SUFFICES ASSUME handler[h] = "set" PROVE FALSE
    BY DEF IInv, TypeOK
  <2>1. target[h] \in IDs /\ active[target[h]] \in Providers
    BY DEF IInv, Updating
  <2> QED
    BY <1>1, <2>1 DEF SomeoneCanMove, HandlerCanMove
<1>3. ASSUME NEW p \in Providers PROVE pc[p] \notin {"lookup", "insert", "removing"}
  <2>1. made[p] # <<>> => Head(made[p]).id \in IDs
    <3>1. made[p] \in Seq(Made)
      BY DEF IInv, TypeOK, Made
    <3>2. made[p] # <<>> => 1 \in DOMAIN made[p] /\ Head(made[p]) = made[p][1]
      BY <3>1
    <3>3. QED BY <3>2, MadeHasID DEF IInv
  <2>2. QED BY <1>1, <2>1 DEF SomeoneCanMove, ProviderCanMove
<1>4. LockFree
  BY <1>2, <1>3 DEF LockFree
<1>5. ASSUME NEW p \in Providers
      PROVE  /\ pc[p] \in {"idle", "offers", "accepted", "gone", "failed"}
             /\ pc[p] \in {"offers", "accepted"} => p \in hired
  <2>1. ~ProviderCanMove(p)
    BY DEF SomeoneCanMove
  <2>2. pc[p] # "removing"
    BY <1>3
  <2> QED
    BY <1>4, <2>1, <2>2 DEF ProviderCanMove, IInv, TypeOK
<1> QED
  BY <1>1, <1>2, <1>5 DEF AtRest

\* The managers' handlers, the providers' goroutines and the switches never block
\* each other, for any number of them: if nobody can go on, nobody waits for a
\* mutex. RemoveLightSwitch, SetAssignments and whoever wants their lock do wait
\* for the toggles of a press, and those for the lighting manager.
THEOREM SwitchesNeverDeadlock == Spec => []NoDeadlock
BY RestIsReached, Invariant, PTL
=============================================================================
