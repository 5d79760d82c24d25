----------------------- MODULE LightingManagerProofs -----------------------
(***************************************************************************)
(* What TLAPS proves of LightingManager, for any sets of fixtures, actors   *)
(* and goroutines: the broadcaster gets at most one request at a time and   *)
(* no update is lost; fixtures are unique, are kept by the provider that    *)
(* took them online, and are given up completely by its goodbye; and the    *)
(* goroutines come to a standstill only in a Gridlock, which is for good.   *)
(***************************************************************************)
EXTENDS LightingManager, FiniteSetTheorems, TLAPS

\* isPublishing stands for exactly one request: a goroutine that waits at
\* performPublish, or the buffer time that it has started.
FlagIsRequest ==
    /\ \A g, h \in waiting : g = h
    /\ broadcaster = "buffer" => waiting = {}
    /\ isPublishing <=> (waiting # {} \/ broadcaster = "buffer")

\* An update is taken care of by a request or by the snapshot about to begin.
DirtyIsPending == dirty => isPublishing \/ broadcaster = "snapshot"

IInv ==
    /\ isPublishing \in BOOLEAN /\ dirty \in BOOLEAN
    /\ FlagIsRequest
    /\ DirtyIsPending

\* The invariant holds at the start.
LEMMA InitInvariant == Init => IInv
BY DEF Init, IInv, FlagIsRequest, DirtyIsPending

\* The invariant gives both properties of the broadcaster.
LEMMA InvariantSuffices == IInv => OnePublication /\ NoUpdateLost
BY DEF IInv, FlagIsRequest, DirtyIsPending, OnePublication, NoUpdateLost

\* A step that leaves the broadcaster and its flag alone keeps the invariant.
LEMMA Untouched == IInv /\ UNCHANGED <<broadcaster, publishVars>> => IInv'
BY DEF IInv, FlagIsRequest, DirtyIsPending, publishVars

\* So does every report of an update.
LEMMA ReportKeepsInvariant ==
    ASSUME NEW g, IInv, HandleFixtureStateUpdated(g), UNCHANGED broadcaster
    PROVE  IInv'
<1>1. CASE broadcaster = "off" \/ isPublishing
  BY <1>1, Untouched DEF HandleFixtureStateUpdated, IInv, FlagIsRequest, DirtyIsPending,
     publishVars
<1>2. CASE broadcaster # "off" /\ ~isPublishing
  <2>1. waiting' = {g} /\ isPublishing' = TRUE /\ dirty' = TRUE /\ broadcaster' # "buffer"
    BY <1>2 DEF HandleFixtureStateUpdated, IInv, FlagIsRequest
  <2>2. QED BY <2>1 DEF IInv, FlagIsRequest, DirtyIsPending
<1>3. QED BY <1>1, <1>2

\* A fixture without notifier reports nothing.
LEMMA ApplyKeepsInvariant ==
    ASSUME NEW g, NEW f, IInv, Apply(g, f), UNCHANGED broadcaster
    PROVE  IInv'
BY ReportKeepsInvariant, Untouched DEF Apply

\* Every step keeps the invariant of the broadcaster.
LEMMA InductiveInvariant == IInv /\ [Next]_vars => IInv'
<1> SUFFICES ASSUME IInv, [Next]_vars PROVE IInv'
  OBVIOUS
<1>1. CASE UNCHANGED vars
  BY <1>1, Untouched DEF vars
<1>2. CASE BroadcasterRun
  BY <1>2 DEF BroadcasterRun, IInv, FlagIsRequest, DirtyIsPending, publishVars
<1>3. CASE Publish
  BY <1>3 DEF Publish, IInv, FlagIsRequest, DirtyIsPending
<1>4. CASE BroadcasterRLock
  BY <1>4 DEF BroadcasterRLock, IInv, FlagIsRequest, DirtyIsPending
<1>5. CASE FixtureStates \/ SendStates
  BY <1>5 DEF FixtureStates, SendStates, IInv, FlagIsRequest, DirtyIsPending, publishVars
<1>6. ASSUME NEW g \in Goroutines, PerformPublish(g) PROVE IInv'
  <2>1. waiting' = {} /\ broadcaster' = "buffer" /\ isPublishing /\ UNCHANGED <<isPublishing, dirty>>
    BY <1>6 DEF PerformPublish, IInv, FlagIsRequest
  <2>2. QED BY <2>1 DEF IInv, FlagIsRequest, DirtyIsPending
<1>7. ASSUME NEW p \in Providers,
             \/ HireProvider(p) \/ ContractDone(p) \/ ReceiveOffers(p) \/ AcceptLock(p)
             \/ \E offered \in SUBSET Keys : AddFixturesFromProviderMessage(p, offered)
             \/ \E f \in Fixtures : AcceptFixture(p, f)
             \/ Accepted(p) \/ AcceptReturn(p) \/ GoodbyeLock(p)
             \/ \E f \in Fixtures : GoodbyeFixture(p, f)
             \/ SetOffline(p) \/ GoodbyeReturn(p)
      PROVE  IInv'
  BY <1>7, Untouched DEF HireProvider, ContractDone, ReceiveOffers, AcceptLock,
     AddFixturesFromProviderMessage, AcceptFixture, Accepted, AcceptReturn, GoodbyeLock,
     GoodbyeFixture, SetOffline, GoodbyeReturn
<1>8. ASSUME NEW p \in Providers, SetOnline(p) \/ SayGoodbye(p) PROVE IInv'
  BY <1>8, ReportKeepsInvariant DEF SetOnline, SayGoodbye
<1>9. ASSUME NEW m \in Managers,
             ManagerLock(m) \/ ManagerReturn(m) \/ \E f \in Fixtures : SetFixtureName(m, f)
      PROVE  IInv'
  BY <1>9, Untouched DEF ManagerLock, ManagerReturn, SetFixtureName
<1>10. ASSUME NEW m \in Managers, SetName(m) \/ \E f \in Fixtures : DeleteFixture(m, f)
       PROVE  IInv'
  BY <1>10, ReportKeepsInvariant DEF SetName, DeleteFixture
<1>11. ASSUME NEW s \in Switches, NEW f \in Fixtures, ToggleFixtureEnabledByID(s, f) PROVE IInv'
  BY <1>11, Untouched DEF ToggleFixtureEnabledByID
<1>12. ASSUME NEW o \in Operators,
              \/ \E chosen \in SUBSET Fixtures : OperatorFixtures(o, chosen)
              \/ \E f \in Fixtures : OperatorNext(o, f)
              \/ OperatorReturn(o) \/ OperatorRLock(o) \/ OperatorFixtureStates(o)
       PROVE  IInv'
  BY <1>12, Untouched DEF OperatorFixtures, OperatorNext, OperatorReturn, OperatorRLock,
     OperatorFixtureStates
<1>13. ASSUME NEW g \in Callers, SetAndApply(g) PROVE IInv'
  BY <1>13, ApplyKeepsInvariant DEF SetAndApply
<1>14. ASSUME NEW g \in Callers, Applied(g) PROVE IInv'
  BY <1>14, Untouched DEF Applied
<1>15. QED
  BY <1>1, <1>2, <1>3, <1>4, <1>5, <1>6, <1>7, <1>8, <1>9, <1>10, <1>11, <1>12, <1>13, <1>14
  DEF Next

\* However many goroutines report updates, at most one of them waits for the
\* broadcaster (isPublishing in HandleFixtureStateUpdated).
THEOREM OnlyOnePublication == Spec => []OnePublication
<1>1. Spec => []IInv
  BY InitInvariant, InductiveInvariant, PTL DEF Spec
<1>2. QED BY <1>1, InvariantSuffices, PTL

\* publish() resets isPublishing early enough: every update reported since the
\* last snapshot began has a snapshot still to come.
THEOREM NoUpdateIsLost == Spec => []NoUpdateLost
<1>1. Spec => []IInv
  BY InitInvariant, InductiveInvariant, PTL DEF Spec
<1>2. QED BY <1>1, InvariantSuffices, PTL

-----------------------------------------------------------------------------
(* The fixtures of the manager, and whom they belong to.                     *)

\* Different goroutines have different names.
LEMMA Names ==
    /\ Callers \subseteq Goroutines
    /\ \A o \in Operators : Operator(o) \in Callers
    /\ \A s \in Switches : Switch(s) \in Callers
    /\ \A p \in Providers : Accept(p) \in Goroutines \ Callers /\ Goodbye(p) \in Goroutines \ Callers
    /\ \A m \in Managers : Manager(m) \in Goroutines \ Callers
    /\ \A p, q \in Providers :
         /\ Accept(p) # Goodbye(q)
         /\ Accept(p) = Accept(q) => p = q
         /\ Goodbye(p) = Goodbye(q) => p = q
    /\ \A p \in Providers, m \in Managers : Manager(m) # Accept(p) /\ Manager(m) # Goodbye(p)
BY DEF Goroutines, Callers, Accept, Goodbye, Manager, Operator, Switch

\* A lock is held by at most one goroutine.
LEMMA OneWriter == Cardinality({}) <= 1 /\ \A g : Cardinality({g}) <= 1
BY FS_EmptySet, FS_Singleton

\* A report of an update keeps the types of flag, requests and dirty.
LEMMA TypeReport ==
    ASSUME TypeOK, NEW g \in Goroutines, HandleFixtureStateUpdated(g)
    PROVE  isPublishing' \in BOOLEAN /\ waiting' \subseteq Goroutines /\ dirty' \in BOOLEAN
<1>1. CASE broadcaster = "off"
  BY <1>1 DEF TypeOK, HandleFixtureStateUpdated, publishVars
<1>2. CASE broadcaster # "off"
  BY <1>2 DEF TypeOK, HandleFixtureStateUpdated
<1>3. QED BY <1>1, <1>2

\* New ids follow the ones that were handed out, one for every unknown key.
LEMMA AddFixturesFacts ==
    ASSUME TypeOK, NEW p \in Providers, NEW offered \in SUBSET Keys, AddFixtures(p, offered)
    PROVE  LET unknown == {k \in offered : KnownFixture(k) = {}}
               new == (created + 1)..created' IN
           /\ created' \in created..MaxFixtures
           /\ known' = known \cup new
           /\ key' \in [Fixtures -> Keys]
           /\ \A f \in Fixtures \ new : key'[f] = key[f]
           /\ \A f \in new : key'[f] \in unknown
           /\ \A f, g \in new : key'[f] = key'[g] => f = g
           /\ todo' \in [Goroutines -> SUBSET Fixtures]
<1> DEFINE unknown == {k \in offered : KnownFixture(k) = {}}
           n == Cardinality(unknown)
           new == (created + 1)..(created + n)
<1>1. IsFiniteSet(unknown) /\ n \in Nat
  BY ConstantsAssumption, FS_Subset, FS_CardinalityType
<1>2. created \in Nat /\ MaxFixtures \in Nat /\ created <= MaxFixtures
  BY ConstantsAssumption DEF TypeOK
<1>3. created' = created + n /\ created + n <= MaxFixtures /\ known' = known \cup new
  BY DEF AddFixtures
<1>4. key' \in [Fixtures -> Keys] /\ {key'[f] : f \in new} = unknown
      /\ \A f \in Fixtures \ new : key'[f] = key[f]
  BY DEF AddFixtures
<1>5. new \subseteq Fixtures /\ IsFiniteSet(new) /\ Cardinality(new) = n
  <2>1. created + 1 \in Int /\ created + n \in Int /\ (created + 1 > created + n <=> n = 0)
    BY <1>1, <1>2
  <2>2. IsFiniteSet(new) /\ Cardinality(new) = IF n = 0 THEN 0 ELSE (created + n) - (created + 1) + 1
    BY <2>1, FS_Interval
  <2>3. (created + n) - (created + 1) + 1 = n
    BY <1>1, <1>2
  <2>4. new \subseteq Fixtures
    BY <1>1, <1>2, <1>3 DEF Fixtures
  <2>5. QED BY <2>2, <2>3, <2>4
<1>6. \A f, g \in new : key'[f] = key'[g] => f = g
  <2> DEFINE h == [f \in new |-> key'[f]]
  <2>1. h \in [new -> unknown] /\ \A k \in unknown : \E f \in new : h[f] = k
    BY <1>4
  <2>2. h \in Surjection(new, unknown)
    BY <2>1 DEF Surjection
  <2>3. h \in Injection(new, unknown)
    <3> HIDE DEF h, new, unknown
    <3>1. Cardinality(unknown) = Cardinality(new)
      BY <1>5 DEF n
    <3>2. QED BY <2>2, <1>5, <3>1, FS_Surjection
  <2>4. \A f, g \in new : h[f] = h[g] => f = g
    BY <2>3 DEF Injection, IsInjective
  <2>5. QED BY <2>4
<1>7. todo' \in [Goroutines -> SUBSET Fixtures]
  <2>1. UNION {KnownFixture(k) : k \in offered} \subseteq Fixtures
    <3>1. known \subseteq Fixtures
      BY <1>2 DEF TypeOK, Fixtures
    <3>2. \A k \in offered : KnownFixture(k) \subseteq Fixtures
      BY <3>1 DEF KnownFixture
    <3>3. QED BY <3>2, Zenon
  <2>2. (new \cup UNION {KnownFixture(k) : k \in offered}) \in SUBSET Fixtures
    BY <2>1, <1>5
  <2>3. todo' = [todo EXCEPT ![Accept(p)] = new \cup UNION {KnownFixture(k) : k \in offered}]
    BY DEF AddFixtures
  <2>4. QED BY <2>2, <2>3, Names DEF TypeOK
<1>8. created' \in created..MaxFixtures /\ new = (created + 1)..created'
  BY <1>1, <1>2, <1>3
<1>9. \A f \in new : key'[f] \in unknown
  BY <1>4
<1> HIDE DEF new
<1>10. QED BY <1>3, <1>4, <1>6, <1>7, <1>8, <1>9

-----------------------------------------------------------------------------
\* A provider takes fixtures online whose ids the store has handed out.
Targets == \A p \in Providers : target[Accept(p)] <= created

\* The broadcaster's own steps change neither fixtures nor locks.
LEMMA TypeBroadcaster ==
    ASSUME TypeOK,
           \/ BroadcasterRun \/ Publish \/ BroadcasterRLock \/ FixtureStates \/ SendStates
           \/ \E g \in Goroutines : PerformPublish(g)
    PROVE  TypeOK'
<1>1. UNCHANGED <<fixtureVars, lockVars, pc, loopVars, hired>>
  BY DEF BroadcasterRun, Publish, BroadcasterRLock, FixtureStates, SendStates, PerformPublish
<1>2. /\ broadcaster' \in {"off", "idle", "buffer", "snapshot", "nested", "send"}
      /\ isPublishing' \in BOOLEAN /\ dirty' \in BOOLEAN /\ waiting' \subseteq Goroutines
  BY DEF TypeOK, BroadcasterRun, Publish, BroadcasterRLock, FixtureStates, SendStates,
     PerformPublish, publishVars
<1>3. QED BY <1>1, <1>2 DEF TypeOK, fixtureVars, lockVars, loopVars

\* The steps of a provider keep the types.
LEMMA TypeProvider ==
    ASSUME TypeOK, Targets, NEW p \in Providers
    PROVE  /\ HireProvider(p) \/ ContractDone(p) \/ ReceiveOffers(p) => TypeOK'
           /\ AcceptLock(p) \/ AcceptReturn(p) \/ GoodbyeLock(p) \/ GoodbyeReturn(p) => TypeOK'
           /\ \A offered \in SUBSET Keys : AddFixturesFromProviderMessage(p, offered) => TypeOK'
           /\ \A f \in Fixtures : AcceptFixture(p, f) \/ GoodbyeFixture(p, f) => TypeOK'
           /\ SetOnline(p) \/ Accepted(p) \/ SetOffline(p) \/ SayGoodbye(p) => TypeOK'
<1> USE Names, OneWriter DEF TypeOK, GoTo, NoFixture
<1>1. HireProvider(p) \/ ContractDone(p) \/ ReceiveOffers(p) => TypeOK'
  BY DEF HireProvider, ContractDone, ReceiveOffers, fixtureVars, lockVars, loopVars, publishVars
<1>2. CASE AcceptLock(p)
  <2>1. writer' \subseteq Goroutines /\ Cardinality(writer') <= 1
    <3>1. writer' = {Accept(p)} /\ Accept(p) \in Goroutines
      BY <1>2 DEF AcceptLock
    <3>2. Cardinality(writer') <= 1
      BY <3>1, OneWriter
    <3>3. QED BY <3>1, <3>2
  <2>2. PICK l \in {"adding", "loop"} : pc' = [pc EXCEPT ![Accept(p)] = l]
    BY <1>2 DEF AcceptLock
  <2>3. /\ UNCHANGED <<fixtureVars, readers, loopVars, hired, broadcaster, publishVars>>
        /\ pc[Accept(p)] \in {"add", "accept"}
    BY <1>2 DEF AcceptLock
  <2>4. QED BY <2>1, <2>2, <2>3 DEF fixtureVars, loopVars, publishVars
<1>3. CASE AcceptReturn(p)
  BY <1>3 DEF AcceptReturn, fixtureVars, loopVars, publishVars
<1>4. CASE GoodbyeLock(p)
  BY <1>4 DEF GoodbyeLock, fixtureVars, loopVars, publishVars
<1>5. CASE GoodbyeReturn(p)
  BY <1>5 DEF GoodbyeReturn, fixtureVars, loopVars, publishVars
<1>6. ASSUME NEW offered \in SUBSET Keys, AddFixturesFromProviderMessage(p, offered)
      PROVE  TypeOK'
  <2>1. /\ created' \in 0..MaxFixtures /\ known' \subseteq 1..created' /\ notifier' \subseteq 1..created'
        /\ key' \in [Fixtures -> Keys] /\ todo' \in [Goroutines -> SUBSET Fixtures]
    <3>1. created' \in created..MaxFixtures /\ known' = known \cup (created + 1)..created'
          /\ key' \in [Fixtures -> Keys] /\ todo' \in [Goroutines -> SUBSET Fixtures]
      BY <1>6, AddFixturesFacts DEF AddFixturesFromProviderMessage
    <3>2. QED BY <1>6, <3>1, ConstantsAssumption DEF AddFixturesFromProviderMessage
  <2>2. QED BY <1>6, <2>1 DEF AddFixturesFromProviderMessage, publishVars
<1>7. ASSUME NEW f \in Fixtures, AcceptFixture(p, f) PROVE TypeOK'
  BY <1>7 DEF AcceptFixture, fixtureVars, lockVars, publishVars, Fixtures
<1>8. ASSUME NEW f \in Fixtures, GoodbyeFixture(p, f) PROVE TypeOK'
  BY <1>8 DEF GoodbyeFixture, fixtureVars, lockVars, publishVars, Fixtures
<1>9. CASE SetOnline(p)
  <2>1. target[Accept(p)] \in Fixtures /\ target[Accept(p)] \in 1..created
    BY <1>9, ConstantsAssumption DEF SetOnline, Targets, Fixtures
  <2>2. QED BY <1>9, <2>1, TypeReport DEF SetOnline, lockVars, loopVars
<1>10. CASE Accepted(p)
  BY <1>10 DEF Accepted, fixtureVars, lockVars, publishVars
<1>11. CASE SetOffline(p)
  BY <1>11 DEF SetOffline, fixtureVars, lockVars, publishVars
<1>12. CASE SayGoodbye(p)
  BY <1>12, TypeReport DEF SayGoodbye, fixtureVars, lockVars, loopVars
<1>13. QED BY <1>1, <1>2, <1>3, <1>4, <1>5, <1>6, <1>7, <1>8, <1>9, <1>10, <1>11, <1>12

\* The steps of a fixture manager keep the types.
LEMMA TypeManager ==
    ASSUME TypeOK, NEW m \in Managers
    PROVE  /\ ManagerLock(m) \/ SetName(m) \/ ManagerReturn(m) => TypeOK'
           /\ \A f \in Fixtures : SetFixtureName(m, f) \/ DeleteFixture(m, f) => TypeOK'
<1> USE Names, OneWriter DEF TypeOK, GoTo, NoFixture
<1>1. CASE ManagerLock(m)
  BY <1>1 DEF ManagerLock, fixtureVars, loopVars, publishVars
<1>2. CASE SetName(m)
  BY <1>2, TypeReport DEF SetName, fixtureVars, lockVars
<1>3. CASE ManagerReturn(m)
  BY <1>3 DEF ManagerReturn, fixtureVars, loopVars, publishVars
<1>4. ASSUME NEW f \in Fixtures, SetFixtureName(m, f) PROVE TypeOK'
  BY <1>4 DEF SetFixtureName, fixtureVars, lockVars, publishVars, Fixtures
<1>5. ASSUME NEW f \in Fixtures, DeleteFixture(m, f) PROVE TypeOK'
  BY <1>5, TypeReport DEF DeleteFixture, lockVars, loopVars
<1>6. QED BY <1>1, <1>2, <1>3, <1>4, <1>5

\* The steps of operators and switches keep the types.
LEMMA TypeCaller ==
    ASSUME TypeOK
    PROVE  /\ \A s \in Switches, f \in Fixtures : ToggleFixtureEnabledByID(s, f) => TypeOK'
           /\ \A o \in Operators :
                /\ \A chosen \in SUBSET Fixtures : OperatorFixtures(o, chosen) => TypeOK'
                /\ \A f \in Fixtures : OperatorNext(o, f) => TypeOK'
                /\ OperatorReturn(o) \/ OperatorRLock(o) \/ OperatorFixtureStates(o) => TypeOK'
           /\ \A g \in Callers : SetAndApply(g) \/ Applied(g) => TypeOK'
<1> USE Names DEF TypeOK, GoTo, NoFixture
<1>1. ASSUME NEW s \in Switches, NEW f \in Fixtures, ToggleFixtureEnabledByID(s, f) PROVE TypeOK'
  BY <1>1 DEF ToggleFixtureEnabledByID, fixtureVars, publishVars, Fixtures
<1>2. ASSUME NEW o \in Operators, NEW chosen \in SUBSET Fixtures, OperatorFixtures(o, chosen)
      PROVE  TypeOK'
  BY <1>2 DEF OperatorFixtures, fixtureVars, lockVars, publishVars
<1>3. ASSUME NEW o \in Operators, NEW f \in Fixtures, OperatorNext(o, f) PROVE TypeOK'
  BY <1>3 DEF OperatorNext, fixtureVars, lockVars, publishVars, Fixtures
<1>4. ASSUME NEW o \in Operators, OperatorReturn(o) PROVE TypeOK'
  BY <1>4 DEF OperatorReturn, fixtureVars, lockVars, publishVars
<1>5. ASSUME NEW o \in Operators, OperatorRLock(o) PROVE TypeOK'
  BY <1>5 DEF OperatorRLock, fixtureVars, loopVars, publishVars
<1>6. ASSUME NEW o \in Operators, OperatorFixtureStates(o) PROVE TypeOK'
  BY <1>6 DEF OperatorFixtureStates, fixtureVars, loopVars, publishVars
<1>7. ASSUME NEW g \in Callers, SetAndApply(g) PROVE TypeOK'
  <2>1. isPublishing' \in BOOLEAN /\ waiting' \subseteq Goroutines /\ dirty' \in BOOLEAN
    BY <1>7, TypeReport DEF SetAndApply, Apply, publishVars
  <2>2. QED BY <1>7, <2>1 DEF SetAndApply, fixtureVars, lockVars, loopVars
<1>8. ASSUME NEW g \in Callers, Applied(g) PROVE TypeOK'
  BY <1>8 DEF Applied, fixtureVars, publishVars
<1>9. QED BY <1>1, <1>2, <1>3, <1>4, <1>5, <1>6, <1>7, <1>8

\* What the broadcaster, managers, operators and switches never change: where
\* the providers' handlers are, and whom the fixtures belong to.
Elsewhere ==
    /\ \A p \in Providers :
         /\ pc'[Accept(p)] = pc[Accept(p)] /\ pc'[Goodbye(p)] = pc[Goodbye(p)]
         /\ target'[Accept(p)] = target[Accept(p)] /\ target'[Goodbye(p)] = target[Goodbye(p)]
    /\ UNCHANGED <<created, key, actor, takenBy, hired>>
    /\ known' \subseteq known
    /\ \/ writer' = writer
       \/ \E m \in Managers : writer = {} /\ writer' = {Manager(m)}
       \/ \E m \in Managers : writer = {Manager(m)} /\ writer' = {}

\* The steps of the providers' handlers.
ProviderStep(p) ==
    \/ HireProvider(p) \/ ContractDone(p) \/ ReceiveOffers(p) \/ AcceptLock(p)
    \/ \E offered \in SUBSET Keys : AddFixturesFromProviderMessage(p, offered)
    \/ \E f \in Fixtures : AcceptFixture(p, f) \/ GoodbyeFixture(p, f)
    \/ SetOnline(p) \/ Accepted(p) \/ AcceptReturn(p)
    \/ GoodbyeLock(p) \/ SetOffline(p) \/ SayGoodbye(p) \/ GoodbyeReturn(p)

\* A step is one of a provider, or leaves the goroutines of providers alone.
LEMMA OtherSteps ==
    ASSUME TypeOK, [Next]_vars PROVE Elsewhere \/ \E p \in Providers : ProviderStep(p)
<1> USE DEF TypeOK, GoTo
<1>1. CASE UNCHANGED vars
  BY <1>1 DEF Elsewhere, vars, fixtureVars, lockVars, loopVars
<1>2. CASE \/ BroadcasterRun \/ Publish \/ BroadcasterRLock \/ FixtureStates \/ SendStates
           \/ \E g \in Goroutines : PerformPublish(g)
  BY <1>2 DEF BroadcasterRun, Publish, BroadcasterRLock, FixtureStates, SendStates,
     PerformPublish, Elsewhere, fixtureVars, lockVars, loopVars
<1>3. ASSUME NEW m \in Managers,
             \/ ManagerLock(m) \/ SetName(m) \/ ManagerReturn(m)
             \/ \E f \in Fixtures : SetFixtureName(m, f) \/ DeleteFixture(m, f)
      PROVE  Elsewhere
  <2>1. UNCHANGED <<created, key, actor, takenBy, hired>> /\ known' \subseteq known
    BY <1>3 DEF ManagerLock, SetName, ManagerReturn, SetFixtureName, DeleteFixture, fixtureVars
  <2>2. \/ writer' = writer
        \/ writer = {} /\ writer' = {Manager(m)}
        \/ writer = {Manager(m)} /\ writer' = {}
    <3> HIDE DEF TypeOK
    <3>1. QED BY <1>3 DEF ManagerLock, SetName, ManagerReturn, SetFixtureName, DeleteFixture,
              LockFree, LockGranted, lockVars
  <2>3. \A g \in Goroutines \ {Manager(m)} : pc'[g] = pc[g] /\ target'[g] = target[g]
    BY <1>3 DEF ManagerLock, SetName, ManagerReturn, SetFixtureName, DeleteFixture, loopVars
  <2>4. QED BY <2>1, <2>2, <2>3, Names DEF Elsewhere
<1>4. ASSUME NEW g \in Callers,
             \/ \E s \in Switches, f \in Fixtures : g = Switch(s) /\ ToggleFixtureEnabledByID(s, f)
             \/ \E o \in Operators :
                  /\ g = Operator(o)
                  /\ \/ \E chosen \in SUBSET Fixtures : OperatorFixtures(o, chosen)
                     \/ \E f \in Fixtures : OperatorNext(o, f)
                     \/ OperatorReturn(o) \/ OperatorRLock(o) \/ OperatorFixtureStates(o)
             \/ SetAndApply(g) \/ Applied(g)
      PROVE  Elsewhere
  <2>1. UNCHANGED <<created, key, actor, takenBy, hired, known, writer>>
    BY <1>4 DEF ToggleFixtureEnabledByID, OperatorFixtures, OperatorNext, OperatorReturn,
       OperatorRLock, OperatorFixtureStates, SetAndApply, Applied, fixtureVars, lockVars
  <2>2. \A h \in Goroutines \ {g} : pc'[h] = pc[h] /\ target'[h] = target[h]
    BY <1>4 DEF ToggleFixtureEnabledByID, OperatorFixtures, OperatorNext, OperatorReturn,
       OperatorRLock, OperatorFixtureStates, SetAndApply, Applied, loopVars
  <2>3. QED BY <2>1, <2>2, Names DEF Elsewhere
<1>5. ASSUME NEW s \in Switches, NEW f \in Fixtures, ToggleFixtureEnabledByID(s, f)
      PROVE  Elsewhere
  BY <1>4, <1>5, Names
<1>6. ASSUME NEW o \in Operators,
             \/ \E chosen \in SUBSET Fixtures : OperatorFixtures(o, chosen)
             \/ \E f \in Fixtures : OperatorNext(o, f)
             \/ OperatorReturn(o) \/ OperatorRLock(o) \/ OperatorFixtureStates(o)
      PROVE  Elsewhere
  BY <1>4, <1>6, Names
<1>7. QED BY <1>1, <1>2, <1>3, <1>4, <1>5, <1>6 DEF Next, ProviderStep

\* Every step keeps the types.
LEMMA TypeStep == TypeOK /\ Targets /\ [Next]_vars => TypeOK'
<1> SUFFICES ASSUME TypeOK, Targets, [Next]_vars PROVE TypeOK'
  OBVIOUS
<1>1. CASE UNCHANGED vars
  BY <1>1 DEF TypeOK, vars, fixtureVars, lockVars, loopVars, publishVars
<1>2. CASE Next
  BY <1>2, TypeBroadcaster, TypeProvider, TypeManager, TypeCaller DEF Next
<1>3. QED BY <1>1, <1>2

\* A provider picks a target among the fixtures that it knows.
LEMMA TargetsStep == TypeOK /\ Targets /\ [Next]_vars => Targets'
<1> SUFFICES ASSUME TypeOK, Targets, [Next]_vars PROVE Targets'
  OBVIOUS
<1> USE DEF TypeOK, Targets, NoFixture
<1>1. CASE Elsewhere
  BY <1>1 DEF Elsewhere
<1>2. ASSUME NEW p \in Providers, NEW f \in 0..created, created' = created,
             target' = [target EXCEPT ![Accept(p)] = f]
      PROVE  Targets'
  BY <1>2, Names, ConstantsAssumption DEF Fixtures
<1>3. 0 \in 0..created /\ \A f \in known : f \in 0..created
  BY ConstantsAssumption
<1>4. ASSUME NEW p \in Providers,
             \/ HireProvider(p) \/ ContractDone(p) \/ ReceiveOffers(p) \/ AcceptLock(p)
             \/ SetOnline(p) \/ AcceptReturn(p) \/ GoodbyeLock(p) \/ SayGoodbye(p)
             \/ GoodbyeReturn(p) \/ SetOffline(p) \/ \E f \in Fixtures : GoodbyeFixture(p, f)
      PROVE  Targets'
  BY <1>4, Names DEF HireProvider, ContractDone, ReceiveOffers, AcceptLock, SetOnline,
     AcceptReturn, GoodbyeLock, SayGoodbye, GoodbyeReturn, SetOffline, GoodbyeFixture,
     fixtureVars, loopVars
<1>5. ASSUME NEW p \in Providers, NEW offered \in SUBSET Keys,
             AddFixturesFromProviderMessage(p, offered)
      PROVE  Targets'
  <2>1. created' >= created /\ created' \in Nat /\ target' = target
    BY <1>5, AddFixturesFacts, ConstantsAssumption DEF AddFixturesFromProviderMessage
  <2>2. QED BY <2>1, Names, ConstantsAssumption DEF Fixtures
<1>6. ASSUME NEW p \in Providers, Accepted(p) \/ \E f \in Fixtures : AcceptFixture(p, f)
      PROVE  Targets'
  BY <1>6, <1>2, <1>3 DEF Accepted, AcceptFixture, fixtureVars
<1> HIDE DEF TypeOK, Targets
<1>7. QED BY <1>1, <1>4, <1>5, <1>6, OtherSteps DEF ProviderStep

-----------------------------------------------------------------------------
\* manager.m excludes: a handler that takes fixtures online or offline is the
\* only one that has the lock.
Locks ==
    \A p \in Providers :
         /\ pc[Accept(p)] \in {"adding", "loop", "set", "applying"} => writer = {Accept(p)}
         /\ pc[Goodbye(p)] \in {"lock", "set", "return"} => writer = {Goodbye(p)}

\* manager.m is handed over only when it is free.
LEMMA LocksStep == TypeOK /\ Locks /\ [Next]_vars => Locks'
<1> SUFFICES ASSUME TypeOK, Locks, [Next]_vars PROVE Locks'
  OBVIOUS
<1>1. CASE Elsewhere
  BY <1>1, Names DEF Elsewhere, Locks
<1>2. ASSUME NEW p \in Providers, ProviderStep(p) PROVE Locks'
  <2>1. ASSUME NEW g \in {Accept(p), Goodbye(p)}, NEW l, pc' = [pc EXCEPT ![g] = l],
               \/ writer = {g} /\ writer' = {g}
               \/ writer = {} /\ writer' = {g}
               \/ writer = {g} /\ writer' = {} /\ l \in {"accept", "ok", "error", "early"}
        PROVE  Locks'
    <3> SUFFICES ASSUME NEW q \in Providers
                 PROVE  /\ pc'[Accept(q)] \in {"adding", "loop", "set", "applying"} => writer' = {Accept(q)}
                        /\ pc'[Goodbye(q)] \in {"lock", "set", "return"} => writer' = {Goodbye(q)}
      BY DEF Locks
    <3>1. /\ Accept(q) # g => pc'[Accept(q)] = pc[Accept(q)]
          /\ Goodbye(q) # g => pc'[Goodbye(q)] = pc[Goodbye(q)]
          /\ pc'[g] = l
      BY <2>1, Names DEF TypeOK
    <3>2. CASE Accept(q) = g
      BY <2>1, <3>1, <3>2, Names DEF Locks
    <3>3. CASE Goodbye(q) = g
      BY <2>1, <3>1, <3>3, Names DEF Locks
    <3>4. CASE Accept(q) # g /\ Goodbye(q) # g
      BY <2>1, <3>1, <3>4 DEF Locks
    <3>5. QED BY <3>2, <3>3, <3>4
  <2>2. CASE HireProvider(p) \/ ContractDone(p) \/ ReceiveOffers(p)
    BY <2>2, Names DEF HireProvider, ContractDone, ReceiveOffers, lockVars, TypeOK, Locks, GoTo
  <2>3. CASE AcceptLock(p)
    BY <2>1, <2>3 DEF AcceptLock, LockFree, GoTo
  <2>4. CASE GoodbyeLock(p)
    BY <2>1, <2>4 DEF GoodbyeLock, LockFree, GoTo
  <2>5. ASSUME NEW offered \in SUBSET Keys, AddFixturesFromProviderMessage(p, offered)
        PROVE  Locks'
    BY <2>1, <2>5 DEF AddFixturesFromProviderMessage, LockGranted, GoTo
  <2>6. ASSUME NEW f \in Fixtures, AcceptFixture(p, f) \/ GoodbyeFixture(p, f) PROVE Locks'
    BY <2>1, <2>6 DEF AcceptFixture, GoodbyeFixture, LockGranted, lockVars, GoTo
  <2>7. CASE SetOnline(p) \/ Accepted(p)
    BY <2>1, <2>7 DEF SetOnline, Accepted, lockVars, GoTo, Locks
  <2>8. CASE AcceptReturn(p)
    BY <2>1, <2>8 DEF AcceptReturn, LockGranted, GoTo
  <2>9. CASE SetOffline(p)
    BY <2>1, <2>9 DEF SetOffline, GoTo, Locks
  <2>10. CASE SayGoodbye(p)
    BY <2>1, <2>10 DEF SayGoodbye, LockGranted, lockVars, GoTo
  <2>11. CASE GoodbyeReturn(p)
    BY <2>1, <2>11 DEF GoodbyeReturn, GoTo, Locks
  <2>12. QED BY <1>2, <2>2, <2>3, <2>4, <2>5, <2>6, <2>7, <2>8, <2>9, <2>10, <2>11
         DEF ProviderStep
<1>3. QED BY <1>1, <1>2, OtherSteps

\* No two known fixtures have the same key.
UniqueKeys == \A f, g \in known : key[f] = key[g] => f = g

\* A fixture is added only for a key that none has.
LEMMA UniqueKeysStep == TypeOK /\ UniqueKeys /\ [Next]_vars => UniqueKeys'
<1> SUFFICES ASSUME TypeOK, UniqueKeys, [Next]_vars PROVE UniqueKeys'
  OBVIOUS
<1>1. ASSUME key' = key, known' \subseteq known PROVE UniqueKeys'
  BY <1>1 DEF UniqueKeys
<1>2. ASSUME NEW p \in Providers, NEW offered \in SUBSET Keys,
             AddFixturesFromProviderMessage(p, offered)
      PROVE  UniqueKeys'
  <2> DEFINE new == (created + 1)..created'
  <2>1. /\ known' = known \cup new
        /\ \A f \in Fixtures \ new : key'[f] = key[f]
        /\ \A f \in new : key'[f] \in {k \in offered : KnownFixture(k) = {}}
        /\ \A f, g \in new : key'[f] = key'[g] => f = g
    BY <1>2, AddFixturesFacts DEF AddFixturesFromProviderMessage
  <2>2. \A f \in known : f \in Fixtures \ new
    BY ConstantsAssumption DEF TypeOK, Fixtures
  <2> HIDE DEF new
  <2>3. \A f \in new, g \in known : key'[f] # key[g]
    BY <2>1 DEF KnownFixture
  <2>4. QED BY <2>1, <2>2, <2>3 DEF UniqueKeys
<1>3. ASSUME NEW p \in Providers, ProviderStep(p),
             ~ \E offered \in SUBSET Keys : AddFixturesFromProviderMessage(p, offered)
      PROVE  UniqueKeys'
  BY <1>1, <1>3 DEF ProviderStep, HireProvider, ContractDone, ReceiveOffers, AcceptLock,
     AcceptFixture, SetOnline, Accepted, AcceptReturn, GoodbyeLock, GoodbyeFixture, SetOffline,
     SayGoodbye, GoodbyeReturn, fixtureVars
<1>4. QED BY <1>1, <1>2, <1>3, OtherSteps DEF Elsewhere

\* Whom the fixtures belong to. A fixture goes offline only through the
\* goodbye of its actor, and an actor says goodbye only after its contract.
Belongs ==
    \A f \in Fixtures :
        /\ actor[f] = takenBy[f] \/ (actor[f] = NoProvider /\ takenBy[f] \notin hired)
        /\ f > created => actor[f] = NoProvider

\* A provider is hired once: nothing is taken before, and its goodbye comes
\* after the contract.
HiredOnce ==
    \A p \in Providers :
        /\ pc[Accept(p)] = "idle" => pc[Goodbye(p)] = "idle" /\ \A f \in Fixtures : takenBy[f] # p
        /\ pc[Goodbye(p)] # "idle" => p \notin hired

\* What a goodbye knows of the fixtures while it has the lock, and after.
GoodbyeKnows ==
    \A p \in Providers :
        /\ pc[Goodbye(p)] = "set" => actor[target[Goodbye(p)]] = p
        /\ pc[Goodbye(p)] \in {"return", "ok"} => \A f \in known : actor[f] # p
        /\ pc[Goodbye(p)] = "ok" => pc[Accept(p)] \in {"ok", "error"}

\* Nobody is hired a second time, and a fixture is taken by Accept only.
LEMMA HiredOnceStep == TypeOK /\ HiredOnce /\ [Next]_vars => HiredOnce'
<1> SUFFICES ASSUME TypeOK, HiredOnce, [Next]_vars PROVE HiredOnce'
  OBVIOUS
<1>1. CASE Elsewhere
  BY <1>1 DEF Elsewhere, HiredOnce
<1>2. ASSUME NEW p \in Providers, ProviderStep(p) PROVE HiredOnce'
  <2> USE Names DEF TypeOK, HiredOnce, GoTo
  <2>1. CASE HireProvider(p)
    BY <2>1 DEF HireProvider, fixtureVars
  <2>2. CASE ContractDone(p)
    BY <2>2 DEF ContractDone, fixtureVars
  <2>3. CASE ReceiveOffers(p) \/ AcceptLock(p) \/ AcceptReturn(p) \/ Accepted(p)
    BY <2>3 DEF ReceiveOffers, AcceptLock, AcceptReturn, Accepted, fixtureVars
  <2>4. ASSUME NEW offered \in SUBSET Keys, AddFixturesFromProviderMessage(p, offered)
        PROVE  HiredOnce'
    BY <2>4 DEF AddFixturesFromProviderMessage
  <2>5. ASSUME NEW f \in Fixtures, AcceptFixture(p, f) \/ GoodbyeFixture(p, f) PROVE HiredOnce'
    BY <2>5 DEF AcceptFixture, GoodbyeFixture, fixtureVars
  <2>6. CASE SetOnline(p)
    BY <2>6 DEF SetOnline
  <2>7. CASE GoodbyeLock(p) \/ SayGoodbye(p)
    BY <2>7 DEF GoodbyeLock, SayGoodbye, fixtureVars
  <2>8. CASE SetOffline(p)
    BY <2>8 DEF SetOffline
  <2>9. CASE GoodbyeReturn(p)
    BY <2>9 DEF GoodbyeReturn, fixtureVars
  <2>10. QED BY <1>2, <2>1, <2>2, <2>3, <2>4, <2>5, <2>6, <2>7, <2>8, <2>9 DEF ProviderStep
<1>3. QED BY <1>1, <1>2, OtherSteps

\* A fixture changes hands when it is taken online and by the goodbye of its actor.
LEMMA BelongsStep ==
    TypeOK /\ Targets /\ HiredOnce /\ GoodbyeKnows /\ Belongs /\ [Next]_vars => Belongs'
<1> SUFFICES ASSUME TypeOK, Targets, HiredOnce, GoodbyeKnows, Belongs, [Next]_vars PROVE Belongs'
  OBVIOUS
<1>1. ASSUME UNCHANGED <<created, actor, takenBy>>, hired' \subseteq hired PROVE Belongs'
  BY <1>1 DEF Belongs
<1>2. ASSUME NEW p \in Providers, HireProvider(p) PROVE Belongs'
  BY <1>2 DEF HireProvider, HiredOnce, Belongs, fixtureVars
<1>3. ASSUME NEW p \in Providers, NEW offered \in SUBSET Keys,
             AddFixturesFromProviderMessage(p, offered)
      PROVE  Belongs'
  <2>1. created' >= created /\ created' \in Nat /\ created \in Nat
    BY <1>3, AddFixturesFacts, ConstantsAssumption DEF AddFixturesFromProviderMessage, TypeOK
  <2>2. QED BY <1>3, <2>1, ConstantsAssumption DEF AddFixturesFromProviderMessage, Belongs, Fixtures
<1>4. ASSUME NEW p \in Providers, SetOnline(p) PROVE Belongs'
  <2>1. target[Accept(p)] \in Fixtures /\ target[Accept(p)] \in Nat /\ created \in Nat
        /\ target[Accept(p)] <= created
    BY <1>4, Names, ConstantsAssumption DEF SetOnline, TypeOK, Targets, NoFixture, Fixtures
  <2>2. /\ actor' = [actor EXCEPT ![target[Accept(p)]] = p]
        /\ takenBy' = [takenBy EXCEPT ![target[Accept(p)]] = p]
        /\ created' = created /\ hired' = hired
    BY <1>4 DEF SetOnline
  <2>3. \A f \in Fixtures : IF f = target[Accept(p)] THEN actor'[f] = p /\ takenBy'[f] = p
                            ELSE actor'[f] = actor[f] /\ takenBy'[f] = takenBy[f]
    BY <2>2 DEF TypeOK
  <2>4. QED BY <2>1, <2>2, <2>3 DEF Belongs
<1>5. ASSUME NEW p \in Providers, SetOffline(p) PROVE Belongs'
  <2>1. p \notin hired /\ actor[target[Goodbye(p)]] = p
    BY <1>5 DEF SetOffline, HiredOnce, GoodbyeKnows
  <2>2. target[Goodbye(p)] \in Fixtures /\ p # NoProvider
    BY <1>5, Names, ConstantsAssumption DEF SetOffline, TypeOK
  <2>3. QED BY <1>5, <2>1, <2>2 DEF SetOffline, TypeOK, Belongs
<1>6. ASSUME NEW p \in Providers,
             \/ ContractDone(p) \/ ReceiveOffers(p) \/ AcceptLock(p)
             \/ \E f \in Fixtures : AcceptFixture(p, f) \/ GoodbyeFixture(p, f)
             \/ Accepted(p) \/ AcceptReturn(p) \/ GoodbyeLock(p) \/ SayGoodbye(p) \/ GoodbyeReturn(p)
      PROVE  Belongs'
  BY <1>1, <1>6 DEF ContractDone, ReceiveOffers, AcceptLock, AcceptFixture, GoodbyeFixture,
     Accepted, AcceptReturn, GoodbyeLock, SayGoodbye, GoodbyeReturn, fixtureVars
<1>7. QED BY <1>1, <1>2, <1>3, <1>4, <1>5, <1>6, OtherSteps DEF Elsewhere, ProviderStep

\* A goodbye under way has the lock, so that nobody gives it fixtures back.
LEMMA GoodbyeKnowsStep ==
    ASSUME TypeOK, Targets, Locks, Belongs, HiredOnce, GoodbyeKnows, [Next]_vars
    PROVE  GoodbyeKnows'
<1>1. CASE Elsewhere
  BY <1>1 DEF Elsewhere, GoodbyeKnows
<1>2. ASSUME NEW p \in Providers, ProviderStep(p) PROVE GoodbyeKnows'
  <2> USE Names DEF TypeOK, GoodbyeKnows, GoTo
  <2>1. CASE HireProvider(p)
    BY <2>1 DEF HireProvider, HiredOnce, fixtureVars, loopVars
  <2>2. CASE ContractDone(p)
    BY <2>2 DEF ContractDone, fixtureVars, loopVars
  <2>3. ASSUME UNCHANGED <<known, actor>>,
               pc[Accept(p)] \notin {"ok", "error"},
               \A q \in Providers : /\ pc'[Goodbye(q)] = pc[Goodbye(q)]
                                    /\ target'[Goodbye(q)] = target[Goodbye(q)]
                                    /\ q # p => pc'[Accept(q)] = pc[Accept(q)]
        PROVE  GoodbyeKnows'
    BY <2>3
  <2>4. CASE ReceiveOffers(p) \/ AcceptLock(p) \/ Accepted(p) \/ AcceptReturn(p)
    BY <2>3, <2>4 DEF ReceiveOffers, AcceptLock, Accepted, AcceptReturn, fixtureVars, loopVars
  <2>5. ASSUME NEW offered \in SUBSET Keys, AddFixturesFromProviderMessage(p, offered)
        PROVE  GoodbyeKnows'
    <3>1. known' = known \cup (created + 1)..created' /\ created' \in created..MaxFixtures
      BY <2>5, AddFixturesFacts DEF AddFixturesFromProviderMessage
    <3>2. \A f \in (created + 1)..created' : f \in Fixtures /\ f > created
      BY <3>1, ConstantsAssumption DEF Fixtures
    <3>3. \A q \in Providers, f \in known' : actor[f] # q \/ f \in known
      BY <3>1, <3>2, ConstantsAssumption DEF Belongs
    <3>4. /\ actor' = actor /\ target' = target
          /\ \A q \in Providers : pc'[Goodbye(q)] = pc[Goodbye(q)]
          /\ \A q \in Providers : pc[Accept(q)] \in {"ok", "error"} => pc'[Accept(q)] = pc[Accept(q)]
      BY <2>5 DEF AddFixturesFromProviderMessage
    <3>5. ASSUME NEW q \in Providers
          PROVE  /\ pc'[Goodbye(q)] = "set" => actor'[target'[Goodbye(q)]] = q
                 /\ pc'[Goodbye(q)] = "ok" => pc'[Accept(q)] \in {"ok", "error"}
      BY <3>4
    <3>6. ASSUME NEW q \in Providers, pc'[Goodbye(q)] \in {"return", "ok"}, NEW f \in known'
          PROVE  actor'[f] # q
      BY <3>3, <3>4, <3>6
    <3>7. QED BY <3>5, <3>6
  <2>6. ASSUME NEW f \in Fixtures, AcceptFixture(p, f) PROVE GoodbyeKnows'
    <3>1. /\ UNCHANGED <<known, actor>> /\ pc[Accept(p)] \notin {"ok", "error"}
          /\ pc' = [pc EXCEPT ![Accept(p)] = "set"]
          /\ target' = [target EXCEPT ![Accept(p)] = f]
      BY <2>6 DEF AcceptFixture, fixtureVars
    <3>2. QED BY <2>3, <3>1
  <2>7. ASSUME NEW f \in Fixtures, GoodbyeFixture(p, f) PROVE GoodbyeKnows'
    BY <2>7 DEF GoodbyeFixture, FixturesOf, fixtureVars
  <2>8. CASE SetOnline(p)
    <3>1. writer = {Accept(p)} /\ pc[Accept(p)] = "set"
      BY <2>8 DEF SetOnline, Locks
    <3>2. \A q \in Providers : pc[Goodbye(q)] \notin {"set", "return"}
      <4>1. \A q \in Providers : writer # {Goodbye(q)}
        BY <3>1
      <4>2. QED BY <4>1 DEF Locks
    <3>3. pc[Goodbye(p)] # "ok"
      BY <3>1
    <3>4. /\ pc' = [pc EXCEPT ![Accept(p)] = "applying"]
          /\ actor' = [actor EXCEPT ![target[Accept(p)]] = p]
          /\ known' = known
      BY <2>8 DEF SetOnline
    <3>5. known \subseteq Fixtures
      BY ConstantsAssumption DEF Fixtures
    <3>6. QED BY <3>1, <3>2, <3>3, <3>4, <3>5
  <2>9. CASE GoodbyeLock(p)
    BY <2>9 DEF GoodbyeLock, fixtureVars, loopVars
  <2>10. CASE SetOffline(p)
    <3>1. writer = {Goodbye(p)}
      BY <2>10 DEF SetOffline, Locks
    <3>2. \A q \in Providers \ {p} : pc[Goodbye(q)] \notin {"set", "return"}
      <4>1. \A q \in Providers \ {p} : writer # {Goodbye(q)}
        BY <3>1
      <4>2. QED BY <4>1 DEF Locks
    <3>3. PICK l \in {"lock", "error"} : pc' = [pc EXCEPT ![Goodbye(p)] = l]
      BY <2>10 DEF SetOffline
    <3>4. actor' = [actor EXCEPT ![target[Goodbye(p)]] = NoProvider] /\ known' = known
      BY <2>10 DEF SetOffline
    <3>5. known \subseteq Fixtures
      BY ConstantsAssumption DEF Fixtures
    <3>6. QED BY <3>2, <3>3, <3>4, <3>5, ConstantsAssumption
  <2>11. CASE SayGoodbye(p)
    BY <2>11 DEF SayGoodbye, FixturesOf, fixtureVars, loopVars
  <2>12. CASE GoodbyeReturn(p)
    BY <2>12 DEF GoodbyeReturn, fixtureVars, loopVars
  <2>13. QED BY <1>2, <2>1, <2>2, <2>3, <2>4, <2>5, <2>6, <2>7, <2>8, <2>9, <2>10, <2>11, <2>12
         DEF ProviderStep
<1>3. QED BY <1>1, <1>2, OtherSteps

ManagerInv == TypeOK /\ Targets /\ Locks /\ UniqueKeys /\ Belongs /\ HiredOnce /\ GoodbyeKnows

\* At the start there is no fixture and nobody is hired.
LEMMA ManagerInit == Init => ManagerInv
<1> SUFFICES ASSUME Init PROVE ManagerInv
  OBVIOUS
<1> USE Names DEF Init
<1>1. TypeOK
  BY OneWriter, ConstantsAssumption DEF TypeOK, NoFixture
<1>2. Targets
  BY ConstantsAssumption DEF Targets, NoFixture
<1>3. Locks /\ HiredOnce /\ GoodbyeKnows
  BY ConstantsAssumption DEF Locks, HiredOnce, GoodbyeKnows
<1>4. UniqueKeys /\ Belongs
  BY DEF UniqueKeys, Belongs
<1>5. QED BY <1>1, <1>2, <1>3, <1>4 DEF ManagerInv

\* The invariant of the fixtures holds of all behaviours.
LEMMA ManagerInvariant == Spec => []ManagerInv
<1>1. ManagerInv /\ [Next]_vars => ManagerInv'
  BY TypeStep, TargetsStep, LocksStep, UniqueKeysStep, BelongsStep, HiredOnceStep,
     GoodbyeKnowsStep DEF ManagerInv
<1>2. QED BY <1>1, ManagerInit, PTL DEF Spec

\* Providers that offer the same fixture at once never get two fixtures for it:
\* addFixturesFromProviderMessage looks up and creates under manager.m.
THEOREM FixtureIsAlwaysUnique == Spec => []FixtureIsUnique
<1>1. ManagerInv => FixtureIsUnique
  BY DEF ManagerInv, UniqueKeys, FixtureIsUnique
<1>2. QED BY <1>1, ManagerInvariant, PTL

\* After a goodbye that succeeded, none of the manager's fixtures sends its
\* state to the actor that quit, when AcceptFixtureProvider had returned.
THEOREM GoodbyeIsAlwaysComplete == Spec => []GoodbyeIsComplete
<1>1. ManagerInv => GoodbyeIsComplete
  BY DEF ManagerInv, GoodbyeKnows, GoodbyeIsComplete
<1>2. QED BY <1>1, ManagerInvariant, PTL

\* No goodbye takes away a fixture that another, hired provider has taken.
THEOREM TakenIsAlwaysKept == Spec => []TakenIsKept
<1>1. ManagerInv => TakenIsKept
  BY ConstantsAssumption DEF ManagerInv, TypeOK, Belongs, Fixtures, TakenIsKept
<1>2. QED BY <1>1, ManagerInvariant, PTL

-----------------------------------------------------------------------------
(* Who waits for whom.  Gridlock is the only way in which the goroutines of  *)
(* this package can wait for ever, and there is no way out of it.            *)

\* Where the goroutines of each kind can be.
Stations ==
    /\ \A p \in Providers :
         /\ pc[Accept(p)] \in {"idle", "offers", "add", "adding", "accept", "loop", "set",
                               "applying", "ok", "error"}
         /\ pc[Goodbye(p)] \in {"idle", "lock", "set", "return", "ok", "early", "error"}
    /\ \A m \in Managers : pc[Manager(m)] \in {"idle", "lock", "set", "return"}
    /\ \A s \in Switches : pc[Switch(s)] \in {"idle", "set", "applying"}
    /\ \A o \in Operators : pc[Operator(o)] \in {"idle", "loop", "set", "applying", "nested"}

\* Who waits at performPublish waits for a broadcaster that was started.
Waiters ==
    /\ waiting # {} => broadcaster # "off"
    /\ \A g \in waiting : pc[g] \in {"applying", "return"}

\* A read lock is held by a switch at work and by whoever reads the states.
ReadLocks ==
    /\ \A g \in readers : pc[g] \in {"set", "applying", "nested"}
    /\ \A s \in Switches : pc[Switch(s)] # "idle" => Switch(s) \in readers
    /\ \A o \in Operators : pc[Operator(o)] = "nested" <=> Operator(o) \in readers

\* The writer is at work in a method that locks, and shares the lock with nobody
\* once it has got it.
WriteLocks ==
    /\ \A g \in writer :
         /\ g \notin Callers /\ pc[g] \in {"adding", "loop", "lock", "set", "applying", "return"}
         /\ pc[g] \in {"set", "applying", "return"} => readers = {} /\ broadcaster # "nested"
    /\ \A m \in Managers : pc[Manager(m)] # "idle" => writer = {Manager(m)}

\* While AcceptFixtureProvider applies a fixture's state, the fixture is its own.
AppliesOwn ==
    \A p \in Providers : pc[Accept(p)] = "applying" => actor[target[Accept(p)]] = p

Positions == Stations /\ Waiters /\ ReadLocks /\ WriteLocks /\ AppliesOwn

\* The goroutines are of five kinds, all different, and none is the broadcaster.
LEMMA Kinds ==
    /\ \A o, q \in Operators : Operator(o) = Operator(q) => o = q
    /\ \A s, r \in Switches : Switch(s) = Switch(r) => s = r
    /\ \A m, n \in Managers : Manager(m) = Manager(n) => m = n
    /\ \A o \in Operators, s \in Switches : Operator(o) # Switch(s)
    /\ \A g \in Goroutines :
         \/ \E p \in Providers : g = Accept(p) \/ g = Goodbye(p)
         \/ \E m \in Managers : g = Manager(m)
         \/ \E s \in Switches : g = Switch(s)
         \/ \E o \in Operators : g = Operator(o)
    /\ \A p \in Providers : Accept(p)[1] # "goodbye" /\ Goodbye(p)[1] = "goodbye"
    /\ \A m \in Managers : Manager(m)[1] # "goodbye"
    /\ \A g \in Callers : g[1] # "goodbye"
BY DEF Goroutines, Callers, Accept, Goodbye, Manager, Operator, Switch

\* The broadcaster has a name of its own.
LEMMA BroadcasterIsNone == Broadcaster \notin Goroutines
BY DEF Broadcaster, Goroutines, Callers, Accept, Goodbye, Manager, Operator, Switch

BroadcasterStep ==
    \/ BroadcasterRun \/ Publish \/ BroadcasterRLock \/ FixtureStates \/ SendStates
    \/ \E g \in Goroutines : PerformPublish(g)

ManagerStep(m) ==
    \/ ManagerLock(m) \/ SetName(m) \/ ManagerReturn(m)
    \/ \E f \in Fixtures : SetFixtureName(m, f) \/ DeleteFixture(m, f)

SwitchStep(s) ==
    \/ \E f \in Fixtures : ToggleFixtureEnabledByID(s, f)
    \/ SetAndApply(Switch(s)) \/ Applied(Switch(s))

OperatorStep(o) ==
    \/ \E chosen \in SUBSET Fixtures : OperatorFixtures(o, chosen)
    \/ \E f \in Fixtures : OperatorNext(o, f)
    \/ OperatorReturn(o) \/ OperatorRLock(o) \/ OperatorFixtureStates(o)
    \/ SetAndApply(Operator(o)) \/ Applied(Operator(o))

\* Every step is one of the broadcaster or of one kind of goroutine.
LEMMA WhoSteps ==
    ASSUME Next
    PROVE  \/ BroadcasterStep
           \/ \E p \in Providers : ProviderStep(p)
           \/ \E m \in Managers : ManagerStep(m)
           \/ \E s \in Switches : SwitchStep(s)
           \/ \E o \in Operators : OperatorStep(o)
<1>1. ASSUME NEW g \in Callers, SetAndApply(g) \/ Applied(g)
      PROVE  (\E s \in Switches : SwitchStep(s)) \/ \E o \in Operators : OperatorStep(o)
  BY <1>1 DEF Callers, SwitchStep, OperatorStep
<1> QED
  BY <1>1 DEF Next, BroadcasterStep, ProviderStep, ManagerStep, SwitchStep, OperatorStep

\* The goroutines go from station to station.
LEMMA StationsStep ==
    ASSUME TypeOK, Stations, ReadLocks, [Next]_vars PROVE Stations'
<1> USE Names, Kinds
<1>1. ASSUME NEW g \in Goroutines, NEW l, pc' = [pc EXCEPT ![g] = l],
             \/ \E p \in Providers :
                  \/ g = Accept(p) /\ l \in {"offers", "add", "adding", "accept", "loop", "set",
                                             "applying", "ok", "error"}
                  \/ g = Goodbye(p) /\ l \in {"lock", "set", "return", "ok", "early", "error"}
             \/ \E m \in Managers : g = Manager(m) /\ l \in {"idle", "lock", "set", "return"}
             \/ \E s \in Switches : g = Switch(s) /\ l \in {"idle", "set", "applying"}
             \/ \E o \in Operators :
                  g = Operator(o) /\ l \in {"idle", "loop", "set", "applying", "nested"}
      PROVE  Stations'
  <2>1. pc'[g] = l /\ \A h \in Goroutines : h # g => pc'[h] = pc[h]
    BY <1>1 DEF TypeOK
  <2> QED BY <1>1, <2>1 DEF Stations
<1>2. ASSUME pc' = pc PROVE Stations'
  BY <1>2 DEF Stations
<1>3. ASSUME BroadcasterStep PROVE Stations'
  BY <1>2, <1>3 DEF BroadcasterStep, BroadcasterRun, Publish, BroadcasterRLock, FixtureStates,
     SendStates, PerformPublish
<1>4. ASSUME NEW p \in Providers, ProviderStep(p) PROVE Stations'
  <2>1. CASE HireProvider(p) \/ ContractDone(p) \/ ReceiveOffers(p) \/ AcceptLock(p)
    BY <1>1, <1>2, <2>1 DEF HireProvider, ContractDone, ReceiveOffers, AcceptLock, GoTo
  <2>2. CASE \/ \E offered \in SUBSET Keys : AddFixturesFromProviderMessage(p, offered)
             \/ SetOnline(p) \/ Accepted(p) \/ AcceptReturn(p)
             \/ \E f \in Fixtures : AcceptFixture(p, f)
    BY <1>1, <2>2 DEF AddFixturesFromProviderMessage, SetOnline, Accepted, AcceptReturn,
       AcceptFixture, GoTo
  <2>3. CASE \/ GoodbyeLock(p) \/ SetOffline(p) \/ SayGoodbye(p) \/ GoodbyeReturn(p)
             \/ \E f \in Fixtures : GoodbyeFixture(p, f)
    BY <1>1, <2>3 DEF GoodbyeLock, SetOffline, SayGoodbye, GoodbyeReturn, GoodbyeFixture, GoTo
  <2> QED BY <1>4, <2>1, <2>2, <2>3 DEF ProviderStep
<1>5. ASSUME NEW m \in Managers, ManagerStep(m) PROVE Stations'
  BY <1>1, <1>5 DEF ManagerStep, ManagerLock, SetName, ManagerReturn, SetFixtureName,
     DeleteFixture, GoTo
<1>6. ASSUME NEW s \in Switches, SwitchStep(s) PROVE Stations'
  BY <1>1, <1>6 DEF SwitchStep, ToggleFixtureEnabledByID, SetAndApply, Applied, GoTo, ReadLocks
<1>7. ASSUME NEW o \in Operators, OperatorStep(o) PROVE Stations'
  BY <1>1, <1>7 DEF OperatorStep, OperatorFixtures, OperatorNext, OperatorReturn, OperatorRLock,
     OperatorFixtureStates, SetAndApply, Applied, GoTo
<1> QED BY <1>2, <1>3, <1>4, <1>5, <1>6, <1>7, WhoSteps DEF vars

\* A request is made only when the broadcaster runs, and taken by it.
LEMMA WaitersStep ==
    ASSUME TypeOK, Waiters, [Next]_vars PROVE Waiters'
<1> USE Names
<1>1. ASSUME NEW g \in Goroutines, NEW l, pc' = [pc EXCEPT ![g] = l],
             broadcaster' = broadcaster, g \notin waiting,
             \/ waiting' = waiting
             \/ l \in {"applying", "return"} /\ HandleFixtureStateUpdated(g)
      PROVE  Waiters'
  <2>1. pc'[g] = l /\ \A h \in Goroutines : h # g => pc'[h] = pc[h]
    BY <1>1 DEF TypeOK
  <2>2. waiting' = waiting \/ (waiting' \subseteq waiting \cup {g} /\ broadcaster # "off")
    BY <1>1 DEF HandleFixtureStateUpdated, publishVars
  <2>3. waiting' \subseteq Goroutines
    BY <1>1, TypeReport DEF TypeOK
  <2>4. \A h \in waiting' : pc'[h] \in {"applying", "return"}
    BY <1>1, <2>1, <2>2, <2>3 DEF Waiters
  <2> QED BY <1>1, <2>2, <2>4 DEF Waiters
<1>2. ASSUME pc' = pc, waiting' \subseteq waiting, broadcaster' # "off" PROVE Waiters'
  BY <1>2 DEF Waiters
<1>3. ASSUME BroadcasterStep PROVE Waiters'
  BY <1>2, <1>3 DEF BroadcasterStep, BroadcasterRun, Publish, BroadcasterRLock, FixtureStates,
     SendStates, PerformPublish, publishVars
<1>4. ASSUME NEW g \in Goroutines, NEW l, pc' = [pc EXCEPT ![g] = l],
             broadcaster' = broadcaster, pc[g] \notin {"applying", "return"},
             \/ waiting' = waiting
             \/ l \in {"applying", "return"} /\ HandleFixtureStateUpdated(g)
      PROVE  Waiters'
  BY <1>1, <1>4 DEF Waiters
<1>5. ASSUME NEW p \in Providers, ProviderStep(p) PROVE Waiters'
  <2>1. CASE HireProvider(p) \/ ReceiveOffers(p) \/ AcceptLock(p)
    BY <1>4, <2>1 DEF HireProvider, ReceiveOffers, AcceptLock, GoTo, publishVars
  <2>2. CASE ContractDone(p)
    BY <2>2 DEF ContractDone, publishVars, Waiters
  <2>3. CASE \/ \E offered \in SUBSET Keys : AddFixturesFromProviderMessage(p, offered)
             \/ SetOnline(p) \/ AcceptReturn(p)
             \/ \E f \in Fixtures : AcceptFixture(p, f)
    BY <1>4, <2>3 DEF AddFixturesFromProviderMessage, SetOnline, AcceptReturn,
       AcceptFixture, GoTo, publishVars
  <2>4. CASE Accepted(p) \/ GoodbyeReturn(p)
    BY <1>1, <2>4 DEF Accepted, GoodbyeReturn, GoTo, publishVars
  <2>5. CASE \/ GoodbyeLock(p) \/ SetOffline(p) \/ SayGoodbye(p)
             \/ \E f \in Fixtures : GoodbyeFixture(p, f)
    BY <1>4, <2>5 DEF GoodbyeLock, SetOffline, SayGoodbye, GoodbyeFixture, GoTo, publishVars
  <2> QED BY <1>5, <2>1, <2>2, <2>3, <2>4, <2>5 DEF ProviderStep
<1>6. ASSUME NEW m \in Managers, ManagerStep(m) PROVE Waiters'
  <2>1. CASE ManagerReturn(m)
    BY <1>1, <2>1 DEF ManagerReturn, GoTo, publishVars
  <2>2. CASE ~ManagerReturn(m)
    BY <1>4, <1>6, <2>2 DEF ManagerStep, ManagerLock, SetName, SetFixtureName,
       DeleteFixture, GoTo, publishVars
  <2> QED BY <2>1, <2>2
<1>7. ASSUME NEW g \in Callers, SetAndApply(g) \/ Applied(g) PROVE Waiters'
  BY <1>1, <1>4, <1>7 DEF SetAndApply, Applied, Apply, GoTo, publishVars
<1>8. ASSUME NEW s \in Switches, SwitchStep(s) PROVE Waiters'
  BY <1>4, <1>7, <1>8 DEF SwitchStep, ToggleFixtureEnabledByID, GoTo, publishVars
<1>9. ASSUME NEW o \in Operators, OperatorStep(o) PROVE Waiters'
  BY <1>4, <1>7, <1>9 DEF OperatorStep, OperatorFixtures, OperatorNext, OperatorReturn,
     OperatorRLock, OperatorFixtureStates, GoTo, publishVars
<1>10. CASE UNCHANGED vars
  BY <1>10 DEF Waiters, vars, publishVars
<1> QED BY <1>3, <1>5, <1>6, <1>8, <1>9, <1>10, WhoSteps

\* A read lock is given back at the end of the method that took it.
LEMMA ReadLocksStep ==
    ASSUME TypeOK, Stations, ReadLocks, [Next]_vars PROVE ReadLocks'
<1> USE Names, Kinds
<1>1. ASSUME readers' = readers, \A g \in Callers : pc'[g] = pc[g] PROVE ReadLocks'
  BY <1>1 DEF ReadLocks, TypeOK
<1>2. ASSUME NEW g \in Goroutines \ Callers, NEW l, readers' = readers, pc' = [pc EXCEPT ![g] = l]
      PROVE  ReadLocks'
  BY <1>1, <1>2 DEF TypeOK
<1>3. ASSUME NEW g \in Callers, NEW l, pc' = [pc EXCEPT ![g] = l],
             \/ readers' = readers \cup {g} /\ l \in {"set", "applying", "nested"}
             \/ readers' = readers \ {g}
             \/ readers' = readers /\ pc[g] # "nested" /\ l \in {"set", "applying"},
             \A s \in Switches : g = Switch(s) => l = "idle" \/ g \in readers',
             \A o \in Operators : g = Operator(o) => (l = "nested" <=> g \in readers')
      PROVE  ReadLocks'
  <2>1. pc'[g] = l /\ \A h \in Goroutines : h # g => pc'[h] = pc[h]
    BY <1>3 DEF TypeOK
  <2>2. \A h \in Callers : h # g => (h \in readers' <=> h \in readers)
    BY <1>3
  <2>3. \A h \in readers' : pc'[h] \in {"set", "applying", "nested"}
    BY <1>3, <2>1 DEF ReadLocks, TypeOK
  <2> QED BY <1>3, <2>1, <2>2, <2>3 DEF ReadLocks
<1>4. ASSUME BroadcasterStep PROVE ReadLocks'
  BY <1>1, <1>4 DEF BroadcasterStep, BroadcasterRun, Publish, BroadcasterRLock, FixtureStates,
     SendStates, PerformPublish, lockVars
<1>5. ASSUME NEW p \in Providers, ProviderStep(p) PROVE ReadLocks'
  <2>1. CASE HireProvider(p) \/ ContractDone(p) \/ ReceiveOffers(p) \/ AcceptLock(p)
    BY <1>1, <1>2, <2>1 DEF HireProvider, ContractDone, ReceiveOffers, AcceptLock, GoTo, lockVars
  <2>2. CASE \/ \E offered \in SUBSET Keys : AddFixturesFromProviderMessage(p, offered)
             \/ SetOnline(p) \/ Accepted(p) \/ AcceptReturn(p)
             \/ \E f \in Fixtures : AcceptFixture(p, f)
    BY <1>2, <2>2 DEF AddFixturesFromProviderMessage, SetOnline, Accepted, AcceptReturn,
       AcceptFixture, GoTo, lockVars
  <2>3. CASE \/ GoodbyeLock(p) \/ SetOffline(p) \/ SayGoodbye(p) \/ GoodbyeReturn(p)
             \/ \E f \in Fixtures : GoodbyeFixture(p, f)
    BY <1>2, <2>3 DEF GoodbyeLock, SetOffline, SayGoodbye, GoodbyeReturn, GoodbyeFixture, GoTo,
       lockVars
  <2> QED BY <1>5, <2>1, <2>2, <2>3 DEF ProviderStep
<1>6. ASSUME NEW m \in Managers, ManagerStep(m) PROVE ReadLocks'
  BY <1>2, <1>6 DEF ManagerStep, ManagerLock, SetName, ManagerReturn, SetFixtureName,
     DeleteFixture, GoTo, lockVars
<1>7. ASSUME NEW g \in Callers, SetAndApply(g) PROVE ReadLocks'
  BY <1>3, <1>7 DEF SetAndApply, GoTo, lockVars, ReadLocks
<1>8. ASSUME NEW g \in Callers, Applied(g) PROVE ReadLocks'
  <2> DEFINE l == IF g \in readers THEN "idle" ELSE "loop"
  <2>1. pc' = [pc EXCEPT ![g] = l] /\ readers' = readers \ {g} /\ pc[g] = "applying"
    BY <1>8 DEF Applied, GoTo
  <2>2. \A s \in Switches : g = Switch(s) => l = "idle"
    BY <2>1 DEF ReadLocks
  <2>3. l # "nested" /\ g \notin readers'
    BY <2>1
  <2>4. \A o \in Operators : g = Operator(o) => (l = "nested" <=> g \in readers')
    BY <2>3
  <2> HIDE DEF l
  <2> QED BY <1>3, <1>8, <2>1, <2>2, <2>4
<1>9. ASSUME NEW s \in Switches, SwitchStep(s) PROVE ReadLocks'
  BY <1>3, <1>7, <1>8, <1>9 DEF SwitchStep, ToggleFixtureEnabledByID, GoTo
<1>10. ASSUME NEW o \in Operators, OperatorStep(o) PROVE ReadLocks'
  <2>1. ASSUME NEW l \in {"idle", "loop", "set"}, pc[Operator(o)] \in {"idle", "loop"},
               pc' = [pc EXCEPT ![Operator(o)] = l], readers' = readers
        PROVE  ReadLocks'
    <3>1. Operator(o) \notin readers /\ readers' = readers \ {Operator(o)}
      BY <2>1 DEF ReadLocks
    <3>2. /\ \A s \in Switches : Operator(o) # Switch(s)
          /\ \A q \in Operators : Operator(o) = Operator(q) =>
               (l = "nested" <=> Operator(o) \in readers')
      BY <2>1, <3>1
    <3> QED BY <1>3, <2>1, <3>1, <3>2
  <2>2. CASE \/ \E chosen \in SUBSET Fixtures : OperatorFixtures(o, chosen)
             \/ \E f \in Fixtures : OperatorNext(o, f)
             \/ OperatorReturn(o)
    BY <2>1, <2>2 DEF OperatorFixtures, OperatorNext, OperatorReturn, GoTo, lockVars
  <2>3. CASE OperatorRLock(o) \/ OperatorFixtureStates(o)
    BY <1>3, <2>3 DEF OperatorRLock, OperatorFixtureStates, GoTo
  <2> QED BY <1>7, <1>8, <1>10, <2>2, <2>3 DEF OperatorStep
<1>11. CASE UNCHANGED vars
  BY <1>1, <1>11 DEF vars, lockVars
<1> QED BY <1>4, <1>5, <1>6, <1>9, <1>10, <1>11, WhoSteps

\* Nobody gets a read lock while a writer has the lock or waits for it.
LEMMA WriteLocksStep ==
    ASSUME TypeOK, Stations, Locks, WriteLocks, [Next]_vars PROVE WriteLocks'
<1> USE Names, Kinds
<1> DEFINE Work == {"adding", "loop", "lock", "set", "applying", "return"}
           Granted == {"set", "applying", "return"}
           Shared == readers # {} \/ broadcaster = "nested"
\* A goroutine that writes goes on.
<1>1. ASSUME NEW g \in Goroutines \ Callers, NEW l, pc' = [pc EXCEPT ![g] = l],
             \/ writer = {g} /\ writer' = {g} /\ l \in Work
             \/ writer = {} /\ writer' = {g} /\ l \in Work \ Granted
             \/ writer = {g} /\ writer' = {} /\ \A m \in Managers : g = Manager(m) => l = "idle"
             \/ writer' = writer /\ g \notin writer /\ \A m \in Managers : g # Manager(m),
             l \in Granted => ~Shared,
             readers' = readers, broadcaster' = broadcaster
      PROVE  WriteLocks'
  <2>1. pc'[g] = l /\ \A h \in Goroutines : h # g => pc'[h] = pc[h]
    BY <1>1 DEF TypeOK
  <2>2. \A h \in writer' : /\ h \notin Callers /\ pc'[h] \in Work
                           /\ pc'[h] \in Granted => ~Shared
    BY <1>1, <2>1 DEF WriteLocks, TypeOK
  <2>3. \A m \in Managers : pc'[Manager(m)] # "idle" => writer' = {Manager(m)}
    BY <1>1, <2>1 DEF WriteLocks
  <2> QED BY <1>1, <2>2, <2>3 DEF WriteLocks
\* The others join only when there is no writer.
<1>2. ASSUME writer' = writer, \A h \in Goroutines \ Callers : pc'[h] = pc[h],
             \/ readers' \subseteq readers /\ (broadcaster' = "nested" => broadcaster = "nested")
             \/ writer = {}
      PROVE  WriteLocks'
  BY <1>2 DEF WriteLocks, TypeOK
<1>3. ASSUME BroadcasterStep PROVE WriteLocks'
  <2>1. pc' = pc /\ UNCHANGED lockVars
    BY <1>3 DEF BroadcasterStep, BroadcasterRun, Publish, BroadcasterRLock, FixtureStates,
       SendStates, PerformPublish
  <2>2. broadcaster' = "nested" => broadcaster = "nested" \/ writer = {}
    BY <1>3 DEF BroadcasterStep, BroadcasterRun, Publish, BroadcasterRLock, FixtureStates,
       SendStates, PerformPublish, RLockFree
  <2> QED BY <1>2, <2>1, <2>2 DEF lockVars
<1>4. ASSUME NEW p \in Providers, ProviderStep(p) PROVE WriteLocks'
  <2>1. \A g \in writer : pc[g] \in Work
    BY DEF WriteLocks
  <2>2. CASE HireProvider(p) \/ ReceiveOffers(p)
    <3>1. CASE HireProvider(p)
      BY <1>1, <2>1, <3>1 DEF HireProvider, GoTo, lockVars
    <3>2. CASE ReceiveOffers(p)
      BY <1>1, <2>1, <3>2 DEF ReceiveOffers, GoTo, lockVars
    <3> QED BY <2>2, <3>1, <3>2
  <2>3. CASE ContractDone(p)
    BY <1>2, <2>3 DEF ContractDone, lockVars
  <2>4. CASE AcceptLock(p) \/ GoodbyeLock(p)
    BY <1>1, <2>4 DEF AcceptLock, GoodbyeLock, GoTo, LockFree
  <2>5. CASE \/ \E offered \in SUBSET Keys : AddFixturesFromProviderMessage(p, offered)
             \/ AcceptReturn(p)
             \/ \E f \in Fixtures : AcceptFixture(p, f) \/ GoodbyeFixture(p, f)
             \/ SayGoodbye(p)
    BY <1>1, <2>5 DEF AddFixturesFromProviderMessage, AcceptReturn, AcceptFixture,
       GoodbyeFixture, SayGoodbye, GoTo, lockVars, LockGranted
  <2>6. pc[Accept(p)] \in {"set", "applying"} => writer = {Accept(p)} /\ ~Shared
    BY DEF Locks, WriteLocks
  <2>7. pc[Goodbye(p)] \in {"set", "return"} => writer = {Goodbye(p)} /\ ~Shared
    BY DEF Locks, WriteLocks
  <2>8. CASE SetOnline(p) \/ Accepted(p)
    BY <1>1, <2>6, <2>8 DEF SetOnline, Accepted, GoTo, lockVars
  <2>9. CASE SetOffline(p) \/ GoodbyeReturn(p)
    BY <1>1, <2>7, <2>9 DEF SetOffline, GoodbyeReturn, GoTo, lockVars
  <2> QED BY <1>4, <2>2, <2>3, <2>4, <2>5, <2>8, <2>9 DEF ProviderStep
<1>5. ASSUME NEW m \in Managers, ManagerStep(m) PROVE WriteLocks'
  <2>1. pc[Manager(m)] = "set" => writer = {Manager(m)} /\ ~Shared
    BY DEF WriteLocks
  <2>2. CASE ManagerLock(m) \/ ManagerReturn(m)
    BY <1>1, <2>2 DEF ManagerLock, ManagerReturn, GoTo, LockFree, LockGranted
  <2>3. CASE SetName(m)
    BY <1>1, <2>1, <2>3 DEF SetName, GoTo, lockVars
  <2>4. CASE \E f \in Fixtures : SetFixtureName(m, f) \/ DeleteFixture(m, f)
    BY <1>1, <2>4 DEF SetFixtureName, DeleteFixture, GoTo, lockVars, LockGranted
  <2> QED BY <1>5, <2>2, <2>3, <2>4 DEF ManagerStep
<1>6. ASSUME NEW g \in Callers, NEW l, pc' = [pc EXCEPT ![g] = l] 
      PROVE  \A h \in Goroutines \ Callers : pc'[h] = pc[h]
  BY <1>6 DEF TypeOK
<1>7. ASSUME NEW g \in Callers, SetAndApply(g) \/ Applied(g) PROVE WriteLocks'
  BY <1>2, <1>6, <1>7 DEF SetAndApply, Applied, GoTo, lockVars
<1>8. ASSUME NEW s \in Switches, SwitchStep(s) PROVE WriteLocks'
  BY <1>2, <1>6, <1>7, <1>8 DEF SwitchStep, ToggleFixtureEnabledByID, GoTo, RLockFree
<1>9. ASSUME NEW o \in Operators, OperatorStep(o) PROVE WriteLocks'
  BY <1>2, <1>6, <1>7, <1>9 DEF OperatorStep, OperatorFixtures, OperatorNext, OperatorReturn,
     OperatorRLock, OperatorFixtureStates, GoTo, lockVars, RLockFree
<1>10. CASE UNCHANGED vars
  BY <1>2, <1>10 DEF vars, lockVars
<1> QED BY <1>3, <1>4, <1>5, <1>8, <1>9, <1>10, WhoSteps

\* setActor waits for the fixture's mutex while Apply read-locks it.
LEMMA AppliesOwnStep ==
    ASSUME TypeOK, AppliesOwn, [Next]_vars PROVE AppliesOwn'
<1> USE Names
<1>1. ASSUME NEW p \in Providers, pc'[Accept(p)] = "applying" => pc[Accept(p)] = "applying",
             \A q \in Providers \ {p} : pc'[Accept(q)] = pc[Accept(q)],
             \A q \in Providers : pc'[Accept(q)] = "applying" =>
                 target'[Accept(q)] = target[Accept(q)],
             \/ actor' = actor
             \/ \E f \in Fixtures \cup {NoFixture}, a \in Providers \cup {NoProvider} :
                  Settable(f) /\ actor' = [actor EXCEPT ![f] = a]
      PROVE  AppliesOwn'
  <2> SUFFICES ASSUME NEW q \in Providers, pc'[Accept(q)] = "applying"
               PROVE  actor'[target'[Accept(q)]] = q
    BY DEF AppliesOwn
  <2>1. pc[Accept(q)] = "applying" /\ target'[Accept(q)] = target[Accept(q)]
    BY <1>1
  <2>2. actor'[target[Accept(q)]] = actor[target[Accept(q)]]
    BY <1>1, <2>1 DEF Settable, TypeOK
  <2> QED BY <2>1, <2>2 DEF AppliesOwn
<1>2. ASSUME NEW p \in Providers, NEW g \in {Accept(p), Goodbye(p)}, NEW l, l # "applying",
             pc' = [pc EXCEPT ![g] = l],
             target' = target \/ \E f : target' = [target EXCEPT ![g] = f],
             \/ actor' = actor
             \/ \E f \in Fixtures \cup {NoFixture}, a \in Providers \cup {NoProvider} :
                  Settable(f) /\ actor' = [actor EXCEPT ![f] = a]
      PROVE  AppliesOwn'
  <2>1. pc'[g] = l /\ \A h \in Goroutines : h # g => pc'[h] = pc[h] /\ target'[h] = target[h]
    BY <1>2 DEF TypeOK
  <2> QED BY <1>1, <1>2, <2>1
<1>3. CASE Elsewhere
  BY <1>3 DEF Elsewhere, AppliesOwn
<1>4. ASSUME NEW p \in Providers, ProviderStep(p) PROVE AppliesOwn'
  <2>1. CASE HireProvider(p) \/ ReceiveOffers(p) \/ AcceptLock(p)
    BY <1>2, <2>1 DEF HireProvider, ReceiveOffers, AcceptLock, GoTo, fixtureVars, loopVars
  <2>2. CASE ContractDone(p)
    BY <2>2 DEF ContractDone, fixtureVars, loopVars, AppliesOwn
  <2>3. CASE \/ \E offered \in SUBSET Keys : AddFixturesFromProviderMessage(p, offered)
             \/ Accepted(p) \/ AcceptReturn(p)
             \/ \E f \in Fixtures : AcceptFixture(p, f)
    BY <1>2, <2>3 DEF AddFixturesFromProviderMessage, Accepted, AcceptReturn, AcceptFixture,
       GoTo, fixtureVars
  <2>4. CASE \/ GoodbyeLock(p) \/ SayGoodbye(p) \/ GoodbyeReturn(p)
             \/ \E f \in Fixtures : GoodbyeFixture(p, f)
    BY <1>2, <2>4 DEF GoodbyeLock, SayGoodbye, GoodbyeReturn, GoodbyeFixture, GoTo,
       fixtureVars, loopVars
  <2>5. CASE SetOffline(p)
    BY <1>2, <2>5 DEF SetOffline, GoTo, TypeOK
  <2>6. CASE SetOnline(p)
    <3> SUFFICES ASSUME NEW q \in Providers, pc'[Accept(q)] = "applying"
                 PROVE  actor'[target'[Accept(q)]] = q
      BY DEF AppliesOwn
    <3>1. target' = target /\ target[Accept(p)] \in Fixtures
      BY <2>6 DEF SetOnline, loopVars, TypeOK, NoFixture
    <3>2. CASE q = p
      BY <2>6, <3>1, <3>2 DEF SetOnline, TypeOK
    <3>3. CASE q # p
      <4>1. pc[Accept(q)] = "applying"
        BY <2>6, <3>3 DEF SetOnline, GoTo, TypeOK
      <4>2. target[Accept(q)] # target[Accept(p)]
        BY <2>6, <4>1 DEF SetOnline, Settable
      <4>3. actor'[target[Accept(q)]] = actor[target[Accept(q)]]
        BY <2>6, <4>2 DEF SetOnline, TypeOK
      <4> QED BY <3>1, <4>1, <4>3 DEF AppliesOwn
    <3> QED BY <3>2, <3>3
  <2> QED BY <1>4, <2>1, <2>2, <2>3, <2>4, <2>5, <2>6 DEF ProviderStep
<1> QED BY <1>3, <1>4, OtherSteps

WaitInv == ManagerInv /\ Positions

\* The invariant of the locks and positions holds of all behaviours.
LEMMA WaitInvariant == Spec => []WaitInv
<1>1. Init => Positions
  <2> SUFFICES ASSUME Init PROVE Positions
    OBVIOUS
  <2> USE Names DEF Init
  <2>1. \A g \in Goroutines : pc[g] = "idle"
    OBVIOUS
  <2>2. Stations /\ AppliesOwn
    BY <2>1 DEF Stations, AppliesOwn
  <2>3. Waiters /\ ReadLocks /\ WriteLocks
    BY <2>1 DEF Waiters, ReadLocks, WriteLocks
  <2> QED BY <2>2, <2>3 DEF Positions
<1>2. ManagerInv /\ Positions /\ [Next]_vars => Positions'
  BY StationsStep, WaitersStep, ReadLocksStep, WriteLocksStep, AppliesOwnStep
     DEF ManagerInv, Positions
<1> QED
  BY <1>1, <1>2, ManagerInvariant, PTL DEF Spec, WaitInv

\* Who waits for whom, edge by edge.
Waits(g, h) ==
    \/ g \in waiting /\ h = Broadcaster
    \/ broadcaster \in {"snapshot", "nested"} /\ g = Broadcaster /\ h \in writer
    \/ broadcaster = "nested" /\ g \in writer /\ h = Broadcaster
    \/ g \in writer /\ h \in readers
    \/ g \in Goroutines /\ pc[g] = "nested" /\ h \in writer
    \/ /\ g \in ReadsFixtures \/ (broadcaster = "nested" /\ g = Broadcaster)
       /\ h \in Goroutines /\ pc[h] = "set" /\ target[h] \in known
    \/ /\ g \in Goroutines /\ h \in Goroutines /\ target[g] = target[h]
       /\ \/ pc[g] = "set" /\ pc[h] = "applying"
          \/ pc[g] = "applying" /\ pc[h] = "set" /\ g \notin waiting /\ actor[target[g]] = NoProvider

\* The graph WaitsFor has these edges.
LEMMA WaitsForMeans == \A g, h : <<g, h>> \in WaitsFor <=> Waits(g, h)
BY DEF WaitsFor, Waits

\* Goroutines that wait for each other.
Circle == \E circle : circle # {} /\ \A g \in circle : \E h \in circle : Waits(g, h)

\* Such a circle is all that Gridlock says.
LEMMA GridlockMeans == Gridlock <=> Circle
<1>1. ASSUME NEW circle, \A g \in circle : \E h \in circle : Waits(g, h)
      PROVE  circle \in SUBSET {e[1] : e \in WaitsFor}
  <2> SUFFICES ASSUME NEW g \in circle PROVE g \in {e[1] : e \in WaitsFor}
    OBVIOUS
  <2>1. PICK h \in circle : Waits(g, h)
    BY <1>1
  <2>2. <<g, h>> \in WaitsFor /\ <<g, h>>[1] = g
    BY <2>1, WaitsForMeans
  <2> QED BY <2>2
<1> QED
  BY <1>1, WaitsForMeans DEF Gridlock, Circle

\* Can a goroutine, or the broadcaster, go on? These are the guards of their
\* actions after the start (ENABLED is beyond the provers).
AcceptCanGoOn(p) ==
    LET g == Accept(p) IN
    \/ pc[g] \in {"add", "accept"} /\ LockFree
    \/ pc[g] = "adding" /\ LockGranted(g) /\ Readable(known)
    \/ pc[g] = "loop" /\ LockGranted(g)
    \/ pc[g] = "set" /\ Settable(target[g])
    \/ pc[g] = "applying" /\ g \notin waiting

GoodbyeCanGoOn(p) ==
    LET g == Goodbye(p) IN
    \/ pc[g] = "idle" /\ pc[Accept(p)] # "idle" /\ p \notin hired /\ LockFree
    \/ pc[g] = "lock" /\ LockGranted(g) /\ Readable(known)
    \/ pc[g] = "set" /\ Settable(target[g])
    \/ pc[g] = "return" /\ g \notin waiting

ManagerCanGoOn(m) ==
    LET g == Manager(m) IN
    \/ pc[g] \in {"lock", "return"} /\ g \notin waiting /\ LockGranted(g)
    \/ pc[g] = "set" /\ Settable(target[g])

CallerCanGoOn(g) ==
    \/ pc[g] = "set" /\ Settable(target[g])
    \/ /\ pc[g] = "applying" /\ g \notin waiting
       /\ actor[target[g]] = NoProvider => Readable({target[g]})
    \/ pc[g] = "nested" /\ RLockFree /\ Readable(known)
    \/ pc[g] = "loop"

BroadcasterCanGoOn ==
    \/ broadcaster = "idle" /\ waiting # {}
    \/ broadcaster \in {"buffer", "send"}
    \/ broadcaster = "snapshot" /\ RLockFree
    \/ broadcaster = "nested" /\ RLockFree /\ Readable(known)

SomeoneCanGoOn ==
    \/ BroadcasterCanGoOn
    \/ \E p \in Providers : AcceptCanGoOn(p) \/ GoodbyeCanGoOn(p)
    \/ \E m \in Managers : ManagerCanGoOn(m)
    \/ \E g \in Callers : CallerCanGoOn(g)

\* Nothing is left to do: no call is under way, but for providers whose offers
\* have not come yet.
AtRest ==
    /\ broadcaster \in {"off", "idle"} /\ waiting = {}
    /\ \A g \in Goroutines : pc[g] \in {"idle", "offers", "ok", "early", "error"}
    /\ \A p \in Providers : pc[Accept(p)] # "idle" /\ pc[Goodbye(p)] = "idle" => p \in hired

\* Without a circle in the graph of who waits for whom nobody is stuck: the
\* graph leaves out no way to wait.
NoDeadlock == Gridlock \/ SomeoneCanGoOn \/ AtRest

\* The goroutines of lighting/ come to a standstill only in a Gridlock: whatever
\* the handlers, switches and the broadcaster do with manager.m and the mutexes
\* of the fixtures, somebody can go on unless some of them wait in a circle.
THEOREM OnlyGridlockIsDeadlock == Spec => []NoDeadlock
<1>1. WaitInv => NoDeadlock
  <2> SUFFICES ASSUME WaitInv, ~SomeoneCanGoOn, ~AtRest PROVE Gridlock
    BY DEF NoDeadlock
  <2> USE Names, Kinds
  <2>1. TypeOK /\ Locks /\ Stations /\ Waiters /\ ReadLocks /\ WriteLocks
    BY DEF WaitInv, ManagerInv, Positions
  <2> DEFINE Work == {"adding", "loop", "set", "applying", "lock", "return", "nested"}
             Busy == {g \in Goroutines : pc[g] \in Work}
             Reading == IF broadcaster \in {"snapshot", "nested"} THEN {Broadcaster} ELSE {}
             circle == Busy \cup Reading
  <2>2. writer \subseteq Busy /\ readers \subseteq Busy
    BY <2>1 DEF TypeOK, WriteLocks, ReadLocks
  <2>3. broadcaster \notin {"buffer", "send"} /\ (waiting # {} => Broadcaster \in circle)
    BY <2>1 DEF TypeOK, Waiters, SomeoneCanGoOn, BroadcasterCanGoOn
  <2>4. ASSUME NEW g \in waiting PROVE \E h \in circle : Waits(g, h)
    BY <2>3, <2>4 DEF Waits
  <2>5. ASSUME NEW g \in Goroutines, pc[g] = "set", ~Settable(target[g])
        PROVE  \E h \in circle : Waits(g, h)
    BY <2>5 DEF Settable, Waits
  <2>6. ASSUME NEW g \in Goroutines, writer = {g}, ~LockGranted(g)
        PROVE  \E h \in circle : Waits(g, h)
    BY <2>2, <2>6 DEF LockGranted, Waits
  <2>7. ASSUME NEW g, g \in ReadsFixtures \/ (broadcaster = "nested" /\ g = Broadcaster),
               ~Readable(known)
        PROVE  \E h \in circle : Waits(g, h)
    BY <2>7 DEF Readable, Waits
  <2>8. ASSUME Broadcaster \in Reading PROVE \E h \in circle : Waits(Broadcaster, h)
    <3>1. writer # {} \/ (broadcaster = "nested" /\ ~Readable(known))
      BY <2>8 DEF SomeoneCanGoOn, BroadcasterCanGoOn, RLockFree
    <3> QED BY <2>2, <2>7, <2>8, <3>1 DEF Waits
  <2>9. ASSUME NEW p \in Providers, Accept(p) \in Busy
        PROVE  \E h \in circle : Waits(Accept(p), h)
    <3>1. pc[Accept(p)] \in {"adding", "loop", "set", "applying"} /\ writer = {Accept(p)}
      BY <2>1, <2>9 DEF Stations, Locks
    <3>2. ~AcceptCanGoOn(p)
      BY DEF SomeoneCanGoOn
    <3>3. pc[Accept(p)] = "adding" => Accept(p) \in ReadsFixtures
      BY DEF ReadsFixtures
    <3> QED BY <2>4, <2>5, <2>6, <2>7, <3>1, <3>2, <3>3 DEF AcceptCanGoOn
  <2>10. ASSUME NEW p \in Providers, Goodbye(p) \in Busy
         PROVE  \E h \in circle : Waits(Goodbye(p), h)
    <3>1. pc[Goodbye(p)] \in {"lock", "set", "return"} /\ writer = {Goodbye(p)}
      BY <2>1, <2>10 DEF Stations, Locks
    <3>2. ~GoodbyeCanGoOn(p)
      BY DEF SomeoneCanGoOn
    <3>3. pc[Goodbye(p)] = "lock" => Goodbye(p) \in ReadsFixtures
      BY DEF ReadsFixtures
    <3> QED BY <2>4, <2>5, <2>6, <2>7, <3>1, <3>2, <3>3 DEF GoodbyeCanGoOn
  <2>11. ASSUME NEW m \in Managers, Manager(m) \in Busy
         PROVE  \E h \in circle : Waits(Manager(m), h)
    <3>1. pc[Manager(m)] \in {"lock", "set", "return"} /\ writer = {Manager(m)}
      BY <2>1, <2>11 DEF Stations, WriteLocks
    <3>2. ~ManagerCanGoOn(m)
      BY DEF SomeoneCanGoOn
    <3> QED BY <2>4, <2>5, <2>6, <3>1, <3>2 DEF ManagerCanGoOn
  <2>12. ASSUME NEW g \in Callers, g \in Busy PROVE \E h \in circle : Waits(g, h)
    <3>1. pc[g] \in {"set", "applying", "nested"} /\ ~CallerCanGoOn(g)
      BY <2>1, <2>12 DEF Stations, SomeoneCanGoOn, CallerCanGoOn, Callers
    <3>2. CASE pc[g] = "nested"
      <4>1. g \in ReadsFixtures
        BY <3>2 DEF ReadsFixtures
      <4>2. writer # {} \/ ~Readable(known)
        BY <3>1, <3>2 DEF CallerCanGoOn, RLockFree
      <4> QED BY <2>2, <2>7, <3>2, <4>1, <4>2 DEF Waits
    <3>3. CASE pc[g] = "applying" /\ g \notin waiting
      <4>1. actor[target[g]] = NoProvider /\ ~Readable({target[g]})
        BY <3>1, <3>3 DEF CallerCanGoOn
      <4>2. PICK h \in Goroutines : pc[h] = "set" /\ target[h] = target[g]
        BY <4>1 DEF Readable
      <4> QED BY <3>3, <4>1, <4>2 DEF Waits
    <3> QED BY <2>4, <2>5, <3>1, <3>2, <3>3 DEF CallerCanGoOn
  <2>13. \A g \in circle : \E h \in circle : Waits(g, h)
    <3> HIDE DEF Work
    <3> SUFFICES ASSUME NEW g \in circle PROVE \E h \in circle : Waits(g, h)
      OBVIOUS
    <3>1. CASE g \in Reading
      BY <2>8, <3>1
    <3>2. CASE g \in Busy
      <4>1. g \in Goroutines
        BY <3>2
      <4> HIDE DEF circle, Busy
      <4> QED BY <2>9, <2>10, <2>11, <2>12, <3>2, <4>1
    <3> QED BY <3>1, <3>2
  <2>14. circle # {}
    <3> SUFFICES ASSUME Busy = {}, Reading = {} PROVE FALSE
      OBVIOUS
    <3>1. writer = {} /\ broadcaster \in {"off", "idle"} /\ waiting = {}
      BY <2>1, <2>2, <2>3 DEF TypeOK
    <3>2. \A p \in Providers : /\ pc[Accept(p)] \notin {"add", "accept"}
                               /\ pc[Accept(p)] # "idle" /\ pc[Goodbye(p)] = "idle" => p \in hired
      BY <3>1 DEF SomeoneCanGoOn, AcceptCanGoOn, GoodbyeCanGoOn, LockFree
    <3>3. \A g \in Goroutines : pc[g] \in {"idle", "offers", "ok", "early", "error"}
      <4> SUFFICES ASSUME NEW g \in Goroutines
                   PROVE  pc[g] \in {"idle", "offers", "ok", "early", "error"}
        OBVIOUS
      <4>1. pc[g] \notin Work
        OBVIOUS
      <4>2. pc[g] \notin {"add", "accept"}
        BY <2>1, <3>2 DEF Stations
      <4> QED BY <2>1, <4>1, <4>2 DEF TypeOK
    <3> QED BY <3>1, <3>2, <3>3 DEF AtRest
  <2> HIDE DEF circle
  <2> QED BY <2>13, <2>14, GridlockMeans DEF Circle
<1> QED
  BY <1>1, WaitInvariant, PTL

\* Whoever takes a step waits for nobody, and changes little of what the others
\* wait for: where it is itself, the locks that it holds, and the actor of a
\* fixture that nobody applies. Only with the lock to itself it may delete.
Moves(g) ==
    /\ \A h : ~Waits(g, h)
    /\ \A h \in Goroutines \ {g} :
         /\ pc'[h] = pc[h] /\ target'[h] = target[h]
         /\ (h \in waiting' <=> h \in waiting) /\ (h \in readers' <=> h \in readers)
         /\ (h \in writer' <=> h \in writer)
    /\ broadcaster' = broadcaster
    /\ \A h \in Goroutines : pc[h] = "applying" => actor'[target[h]] = actor[target[h]]
    /\ known \subseteq known' \/ (writer = {g} /\ readers = {} /\ broadcaster # "nested")

\* So does the broadcaster.
BroadcasterMoves ==
    /\ \A h : ~Waits(Broadcaster, h)
    /\ UNCHANGED <<pc, target, readers, writer, known, actor>>
    /\ waiting' \subseteq waiting

\* A goroutine that is ready waits for nobody.
LEMMA ReadyWaitsForNobody ==
    ASSUME WaitInv, NEW g \in Goroutines, g \notin waiting,
           g \in writer => readers = {} /\ broadcaster # "nested",
           pc[g] = "nested" => RLockFree,
           g \in ReadsFixtures => Readable(known),
           pc[g] = "set" => Settable(target[g]),
           pc[g] = "applying" /\ actor[target[g]] = NoProvider => Readable({target[g]})
    PROVE  \A h : ~Waits(g, h)
BY BroadcasterIsNone DEF Waits, RLockFree, Readable, Settable

\* A step of one goroutine, without a deletion and without a change of actors.
LEMMA MovesAlone ==
    ASSUME TypeOK, NEW g \in Goroutines, \A h : ~Waits(g, h),
           \E l : pc' = [pc EXCEPT ![g] = l],
           target' = target \/ \E f : target' = [target EXCEPT ![g] = f],
           waiting' = waiting \/ HandleFixtureStateUpdated(g),
           readers' \in {readers, readers \cup {g}, readers \ {g}},
           writer' \in {writer, writer \cup {g}, writer \ {g}},
           broadcaster' = broadcaster,
           \A h \in Goroutines : pc[h] = "applying" => actor'[target[h]] = actor[target[h]],
           known \subseteq known' \/ (writer = {g} /\ readers = {} /\ broadcaster # "nested")
    PROVE  Moves(g)
<1>1. \A h \in Goroutines \ {g} : pc'[h] = pc[h] /\ target'[h] = target[h]
  BY DEF TypeOK
<1>2. \A h \in Goroutines \ {g} : h \in waiting' <=> h \in waiting
  BY DEF HandleFixtureStateUpdated, publishVars
<1>3. \A h \in Goroutines \ {g} : (h \in readers' <=> h \in readers) /\ (h \in writer' <=> h \in writer)
  OBVIOUS
<1> QED BY <1>1, <1>2, <1>3 DEF Moves

\* Only what waits for nobody moves.
LEMMA OnlyTheFreeMove ==
    ASSUME WaitInv, Next
    PROVE  BroadcasterMoves \/ (\E g \in Goroutines : Moves(g)) \/ \E p \in Providers : ContractDone(p)
<1> USE Names, Kinds
<1>1. TypeOK /\ Locks /\ Stations /\ Waiters /\ ReadLocks /\ WriteLocks /\ AppliesOwn
  BY DEF WaitInv, ManagerInv, Positions
<1>2. ASSUME BroadcasterStep PROVE BroadcasterMoves
  <2>1. UNCHANGED <<pc, target, readers, writer, known, actor>> /\ waiting' \subseteq waiting
    BY <1>2 DEF BroadcasterStep, BroadcasterRun, Publish, BroadcasterRLock, FixtureStates,
       SendStates, PerformPublish, lockVars, fixtureVars, loopVars, publishVars
  <2>2. broadcaster \in {"snapshot", "nested"} => RLockFree
    BY <1>2 DEF BroadcasterStep, BroadcasterRun, Publish, BroadcasterRLock, FixtureStates,
       SendStates, PerformPublish
  <2>3. broadcaster = "nested" => Readable(known)
    BY <1>2 DEF BroadcasterStep, BroadcasterRun, Publish, BroadcasterRLock, FixtureStates,
       SendStates, PerformPublish
  <2>4. Broadcaster \notin waiting \cup writer \cup ReadsFixtures
    BY <1>1, BroadcasterIsNone DEF TypeOK, ReadsFixtures
  <2>5. \A h : ~Waits(Broadcaster, h)
    BY <2>2, <2>3, <2>4, BroadcasterIsNone DEF Waits, RLockFree, Readable
  <2> QED BY <2>1, <2>5 DEF BroadcasterMoves
<1>3. ASSUME NEW p \in Providers, ProviderStep(p), ~ContractDone(p)
      PROVE  Moves(Accept(p)) \/ Moves(Goodbye(p))
  <2> DEFINE a == Accept(p)
             b == Goodbye(p)
  <2>1. /\ a \in waiting => pc[a] = "applying"
        /\ b \in waiting => pc[b] = "return"
    BY <1>1 DEF Waiters, Stations
  <2>2. /\ a \in writer => pc[a] \in {"adding", "loop", "set", "applying"}
        /\ b \in writer => pc[b] \in {"lock", "set", "return"}
    BY <1>1 DEF WriteLocks, Stations
  <2>3. /\ pc[a] \in {"set", "applying"} => writer = {a} /\ readers = {} /\ broadcaster # "nested"
        /\ pc[b] \in {"set", "return"} => writer = {b} /\ readers = {} /\ broadcaster # "nested"
    BY <1>1 DEF Locks, WriteLocks
  <2>4. pc[a] # "nested" /\ pc[b] \notin {"nested", "applying"}
    BY <1>1 DEF Stations
  <2>5. (a \in ReadsFixtures => pc[a] = "adding") /\ (b \in ReadsFixtures => pc[b] = "lock")
    BY <1>1 DEF ReadsFixtures, Stations
  <2>6. pc[a] = "applying" => actor[target[a]] # NoProvider
    BY <1>1, ConstantsAssumption DEF AppliesOwn
  <2> HIDE DEF a, b
  <2>7. a \in Goroutines /\ b \in Goroutines
    BY DEF a, b
  <2>8. CASE \/ HireProvider(p) \/ ReceiveOffers(p) \/ AcceptLock(p)
    <3>1. pc[a] \in {"idle", "offers", "add", "accept"}
      BY <2>8 DEF a, HireProvider, ReceiveOffers, AcceptLock
    <3>2. \A h : ~Waits(a, h)
      BY <2>1, <2>2, <2>5, <2>7, <3>1, ReadyWaitsForNobody
    <3>3. \E l : pc' = [pc EXCEPT ![a] = l]
      BY <2>8 DEF a, HireProvider, ReceiveOffers, AcceptLock, GoTo
    <3>4. writer' \in {writer, writer \cup {a}}
      BY <2>8 DEF a, HireProvider, ReceiveOffers, AcceptLock, LockFree, lockVars
    <3> QED BY <1>1, <2>7, <2>8, <3>2, <3>3, <3>4, MovesAlone DEF a, HireProvider, ReceiveOffers,
        AcceptLock, lockVars, fixtureVars, loopVars, publishVars
  <2>9. CASE \/ \E offered \in SUBSET Keys : AddFixturesFromProviderMessage(p, offered)
             \/ AcceptReturn(p)
             \/ \E f \in Fixtures : AcceptFixture(p, f)
    <3>1. pc[a] \in {"adding", "loop"} /\ LockGranted(a) /\ (pc[a] = "adding" => Readable(known))
      BY <2>9 DEF a, AddFixturesFromProviderMessage, AcceptReturn, AcceptFixture
    <3>2. \A h : ~Waits(a, h)
      BY <2>1, <2>5, <2>7, <3>1, ReadyWaitsForNobody DEF LockGranted
    <3>3. \E l : pc' = [pc EXCEPT ![a] = l]
      BY <2>9 DEF a, AddFixturesFromProviderMessage, AcceptReturn, AcceptFixture, GoTo
    <3>4. writer' \in {writer, writer \ {a}} /\ known \subseteq known'
      BY <2>9, <3>1 DEF AddFixturesFromProviderMessage, AddFixtures, AcceptReturn, AcceptFixture,
         LockGranted, lockVars, fixtureVars
    <3> QED BY <1>1, <2>7, <2>9, <3>2, <3>3, <3>4, MovesAlone DEF a, AddFixturesFromProviderMessage,
        AcceptReturn, AcceptFixture, lockVars, fixtureVars, publishVars
  <2>10. CASE SetOnline(p) \/ Accepted(p)
    <3>1. /\ pc[a] \in {"set", "applying"} /\ a \notin waiting
          /\ pc[a] = "set" => Settable(target[a])
      BY <2>1, <2>10 DEF a, SetOnline, Accepted
    <3>2. \A h : ~Waits(a, h)
      BY <2>3, <2>5, <2>6, <2>7, <3>1, ReadyWaitsForNobody
    <3>3. \E l : pc' = [pc EXCEPT ![a] = l]
      BY <2>10 DEF a, SetOnline, Accepted, GoTo
    <3>4. \A h \in Goroutines : pc[h] = "applying" => actor'[target[h]] = actor[target[h]]
      BY <1>1, <2>10 DEF SetOnline, Settable, Accepted, fixtureVars, TypeOK
    <3> QED BY <1>1, <2>7, <2>10, <3>2, <3>3, <3>4, MovesAlone DEF a, SetOnline, Accepted,
        lockVars, fixtureVars, loopVars, publishVars
  <2>11. CASE GoodbyeLock(p)
    <3>1. pc[b] = "idle"
      BY <2>11 DEF b, GoodbyeLock
    <3>2. \A h : ~Waits(b, h)
      BY <2>1, <2>2, <2>5, <2>7, <3>1, ReadyWaitsForNobody
    <3>3. writer' \in {writer, writer \cup {b}} /\ \E l : pc' = [pc EXCEPT ![b] = l]
      BY <2>11 DEF b, GoodbyeLock, LockFree, GoTo
    <3> QED BY <1>1, <2>7, <2>11, <3>2, <3>3, MovesAlone DEF b, GoodbyeLock,
        fixtureVars, loopVars, publishVars
  <2>12. CASE SayGoodbye(p) \/ \E f \in Fixtures : GoodbyeFixture(p, f)
    <3>1. pc[b] = "lock" /\ LockGranted(b) /\ Readable(known)
      BY <2>12 DEF b, SayGoodbye, GoodbyeFixture
    <3>2. \A h : ~Waits(b, h)
      BY <2>1, <2>7, <3>1, ReadyWaitsForNobody DEF LockGranted
    <3>3. \E l : pc' = [pc EXCEPT ![b] = l]
      BY <2>12 DEF b, SayGoodbye, GoodbyeFixture, GoTo
    <3> QED BY <1>1, <2>7, <2>12, <3>2, <3>3, MovesAlone DEF b, SayGoodbye, GoodbyeFixture,
        lockVars, fixtureVars, loopVars, publishVars
  <2>13. CASE SetOffline(p) \/ GoodbyeReturn(p)
    <3>1. /\ pc[b] \in {"set", "return"} /\ b \notin waiting
          /\ pc[b] = "set" => Settable(target[b])
      BY <2>1, <2>13 DEF b, SetOffline, GoodbyeReturn
    <3>2. \A h : ~Waits(b, h)
      BY <2>3, <2>5, <2>7, <3>1, ReadyWaitsForNobody
    <3>3. \E l : pc' = [pc EXCEPT ![b] = l]
      BY <2>13 DEF b, SetOffline, GoodbyeReturn, GoTo
    <3>4. \A h \in Goroutines : pc[h] = "applying" => actor'[target[h]] = actor[target[h]]
      BY <1>1, <2>13 DEF SetOffline, Settable, GoodbyeReturn, fixtureVars, TypeOK
    <3>5. writer' \in {writer, writer \ {b}}
      BY <2>3, <2>13, <3>1 DEF SetOffline, GoodbyeReturn
    <3> QED BY <1>1, <2>7, <2>13, <3>2, <3>3, <3>4, <3>5, MovesAlone DEF b, SetOffline,
        GoodbyeReturn, lockVars, fixtureVars, loopVars, publishVars
  <2> QED BY <1>3, <2>8, <2>9, <2>10, <2>11, <2>12, <2>13 DEF ProviderStep, a, b
<1>4. ASSUME NEW m \in Managers, ManagerStep(m) PROVE Moves(Manager(m))
  <2> DEFINE g == Manager(m)
  <2>1. pc[g] \in {"idle", "lock", "set", "return"} /\ g \notin ReadsFixtures
    BY <1>1 DEF Stations, ReadsFixtures
  <2>2. /\ g \in waiting => pc[g] = "return"
        /\ g \in writer => pc[g] # "idle"
        /\ pc[g] \in {"set", "return"} => writer = {g} /\ readers = {} /\ broadcaster # "nested"
    BY <1>1, <2>1 DEF Waiters, WriteLocks
  <2> HIDE DEF g
  <2>3. g \in Goroutines
    BY DEF g
  <2>4. /\ (pc[g] = "idle" /\ writer = {}) \/ (pc[g] # "idle" /\ writer = {g})
        /\ pc[g] = "lock" => LockGranted(g)
        /\ pc[g] = "set" => Settable(target[g])
        /\ g \notin waiting
    <3>1. CASE ManagerLock(m) \/ SetName(m)
      BY <2>2, <3>1 DEF ManagerLock, SetName, LockFree, g
    <3>2. CASE ManagerReturn(m) \/ \E f \in Fixtures : SetFixtureName(m, f) \/ DeleteFixture(m, f)
      BY <2>2, <3>2 DEF ManagerReturn, SetFixtureName, DeleteFixture, LockGranted, g
    <3> QED BY <1>4, <3>1, <3>2 DEF ManagerStep
  <2>5. \A h : ~Waits(g, h)
    BY <2>1, <2>2, <2>3, <2>4, ReadyWaitsForNobody DEF LockGranted
  <2>6. CASE ManagerLock(m) \/ SetName(m) \/ ManagerReturn(m)
    <3>1. writer' \in {writer, writer \cup {g}, writer \ {g}} /\ \E l : pc' = [pc EXCEPT ![g] = l]
      BY <2>4, <2>6 DEF ManagerLock, SetName, ManagerReturn, GoTo, lockVars, g
    <3> QED BY <1>1, <2>3, <2>5, <2>6, <3>1, MovesAlone DEF ManagerLock, SetName, ManagerReturn,
        lockVars, fixtureVars, loopVars, publishVars, g
  <2>7. CASE \E f \in Fixtures : SetFixtureName(m, f) \/ DeleteFixture(m, f)
    <3>1. (\E l : pc' = [pc EXCEPT ![g] = l]) /\ writer = {g} /\ readers = {} /\ broadcaster # "nested"
      BY <2>7 DEF SetFixtureName, DeleteFixture, LockGranted, GoTo, g
    <3> QED BY <1>1, <2>3, <2>5, <2>7, <3>1, MovesAlone DEF SetFixtureName, DeleteFixture,
        lockVars, fixtureVars, loopVars, publishVars, g
  <2> QED BY <1>4, <2>6, <2>7 DEF ManagerStep, g
<1>5. ASSUME NEW g \in Callers, g \notin waiting,
             g \in ReadsFixtures => Readable(known) /\ RLockFree,
             pc[g] = "set" => Settable(target[g]),
             pc[g] = "applying" /\ actor[target[g]] = NoProvider => Readable({target[g]})
      PROVE  \A h : ~Waits(g, h)
  <2>1. g \notin writer /\ (pc[g] = "nested" => g \in ReadsFixtures)
    BY <1>1 DEF WriteLocks, ReadsFixtures
  <2> QED BY <1>5, <2>1, ReadyWaitsForNobody
<1>6. \A g \in Callers : /\ g \in waiting => pc[g] = "applying"
                         /\ g \in ReadsFixtures => pc[g] = "nested"
  BY <1>1 DEF Waiters, Stations, ReadsFixtures, Callers
<1>7. ASSUME NEW g \in Callers, SetAndApply(g) \/ Applied(g) PROVE Moves(g)
  <2>1. \A h : ~Waits(g, h)
    BY <1>5, <1>6, <1>7 DEF SetAndApply, Applied
  <2>2. \E l : pc' = [pc EXCEPT ![g] = l]
    BY <1>7 DEF SetAndApply, Applied, GoTo
  <2> QED BY <1>1, <1>7, <2>1, <2>2, MovesAlone DEF SetAndApply, Applied, Apply,
      lockVars, fixtureVars, loopVars, publishVars
<1>8. ASSUME NEW s \in Switches, SwitchStep(s) PROVE Moves(Switch(s))
  <2>1. CASE \E f \in Fixtures : ToggleFixtureEnabledByID(s, f)
    <3>1. \A h : ~Waits(Switch(s), h)
      BY <1>5, <1>6, <2>1 DEF ToggleFixtureEnabledByID
    <3>2. \E l : pc' = [pc EXCEPT ![Switch(s)] = l]
      BY <2>1 DEF ToggleFixtureEnabledByID, GoTo
    <3> QED BY <1>1, <2>1, <3>1, <3>2, MovesAlone DEF ToggleFixtureEnabledByID,
        fixtureVars, publishVars
  <2> QED BY <1>7, <1>8, <2>1 DEF SwitchStep
<1>9. ASSUME NEW o \in Operators, OperatorStep(o) PROVE Moves(Operator(o))
  <2>1. CASE \/ \E chosen \in SUBSET Fixtures : OperatorFixtures(o, chosen)
             \/ \E f \in Fixtures : OperatorNext(o, f)
             \/ OperatorReturn(o) \/ OperatorRLock(o) \/ OperatorFixtureStates(o)
    <3>1. \A h : ~Waits(Operator(o), h)
      BY <1>5, <1>6, <2>1 DEF OperatorFixtures, OperatorNext, OperatorReturn, OperatorRLock,
         OperatorFixtureStates
    <3>2. \E l : pc' = [pc EXCEPT ![Operator(o)] = l]
      BY <2>1 DEF OperatorFixtures, OperatorNext, OperatorReturn, OperatorRLock,
         OperatorFixtureStates, GoTo
    <3> QED BY <1>1, <2>1, <3>1, <3>2, MovesAlone DEF OperatorFixtures, OperatorNext,
        OperatorReturn, OperatorRLock, OperatorFixtureStates,
        lockVars, fixtureVars, loopVars, publishVars
  <2> QED BY <1>7, <1>9, <2>1 DEF OperatorStep
<1> QED
  BY <1>2, <1>3, <1>4, <1>8, <1>9, WhoSteps

\* What a goroutine waits for stays when others move.
LEMMA EdgesStay ==
    ASSUME WaitInv, NEW g, NEW h, Waits(g, h),
           \/ BroadcasterMoves /\ g # Broadcaster /\ h # Broadcaster
           \/ \E x \in Goroutines \ {g, h} : Moves(x)
    PROVE  Waits(g, h)'
<1> USE BroadcasterIsNone
<1>1. TypeOK /\ Locks /\ Stations /\ ReadLocks
  BY DEF WaitInv, ManagerInv, Positions
<1>2. CASE BroadcasterMoves /\ g # Broadcaster /\ h # Broadcaster
  BY <1>2 DEF Waits, BroadcasterMoves, ReadsFixtures
<1>3. ASSUME NEW x \in Goroutines \ {g, h}, Moves(x) PROVE Waits(g, h)'
  <2>1. \A y \in {g, h} \cap Goroutines :
          /\ pc'[y] = pc[y] /\ target'[y] = target[y]
          /\ (y \in waiting' <=> y \in waiting) /\ (y \in readers' <=> y \in readers)
          /\ (y \in writer' <=> y \in writer)
    BY <1>3 DEF Moves
  <2>2. broadcaster' = broadcaster
    BY <1>3 DEF Moves
  <2>3. waiting \cup readers \cup writer \subseteq Goroutines
    BY <1>1, Names DEF TypeOK
  <2>4. CASE \/ g \in waiting /\ h = Broadcaster
             \/ broadcaster \in {"snapshot", "nested"} /\ g = Broadcaster /\ h \in writer
             \/ broadcaster = "nested" /\ g \in writer /\ h = Broadcaster
             \/ g \in writer /\ h \in readers
             \/ g \in Goroutines /\ pc[g] = "nested" /\ h \in writer
    BY <2>1, <2>2, <2>3, <2>4 DEF Waits
  <2>5. CASE /\ g \in ReadsFixtures \/ (broadcaster = "nested" /\ g = Broadcaster)
             /\ h \in Goroutines /\ pc[h] = "set" /\ target[h] \in known
    <3>1. g \in ReadsFixtures => g \in ReadsFixtures'
      BY <2>1 DEF ReadsFixtures
    <3>2. g \in ReadsFixtures => g \in readers \/ writer = {g}
      BY <1>1, Kinds DEF ReadsFixtures, Stations, ReadLocks, Locks
    <3>3. known \subseteq known'
      BY <1>3, <2>5, <3>2 DEF Moves
    <3> QED BY <2>1, <2>2, <2>5, <3>1, <3>3 DEF Waits
  <2>6. CASE /\ g \in Goroutines /\ h \in Goroutines /\ target[g] = target[h]
             /\ \/ pc[g] = "set" /\ pc[h] = "applying"
                \/ /\ pc[g] = "applying" /\ pc[h] = "set" /\ g \notin waiting
                   /\ actor[target[g]] = NoProvider
    <3>1. pc[g] = "applying" => actor'[target[g]] = actor[target[g]]
      BY <1>3, <2>6 DEF Moves
    <3> QED BY <2>1, <2>6, <3>1 DEF Waits
  <2> QED BY <2>4, <2>5, <2>6 DEF Waits
<1> QED BY <1>2, <1>3

\* A Gridlock is for good.
GridlockIsForGood == [][Gridlock => Gridlock']_vars

\* No message, no end of a contract, no other goroutine and no timer opens such a
\* circle again, so whoever comes to wait for one of its goroutines waits for good.
THEOREM GridlocksAreForGood == Spec => GridlockIsForGood
<1>0. Gridlock' <=> Circle'
  BY GridlockMeans, PTL
<1>1. WaitInv /\ [Next]_vars => (Gridlock => Gridlock')
  <2> SUFFICES ASSUME WaitInv, [Next]_vars, Gridlock PROVE Gridlock'
    OBVIOUS
  <2>1. PICK circle : circle # {} /\ \A g \in circle : \E h \in circle : Waits(g, h)
    BY GridlockMeans DEF Circle
  <2>2. CASE UNCHANGED vars \/ \E p \in Providers : ContractDone(p)
    <3>1. UNCHANGED <<fixtureVars, lockVars, pc, loopVars, broadcaster, publishVars>>
      BY <2>2 DEF vars, ContractDone
    <3>2. \A g, h : Waits(g, h) => Waits(g, h)'
      BY <3>1 DEF Waits, ReadsFixtures, fixtureVars, lockVars, loopVars, publishVars
    <3> QED BY <2>1, <3>2, <1>0 DEF Circle
  <2>3. CASE BroadcasterMoves
    <3>1. Broadcaster \notin circle
      BY <2>1, <2>3 DEF BroadcasterMoves
    <3>2. \A g \in circle : \E h \in circle : Waits(g, h)'
      BY <2>1, <2>3, <3>1, EdgesStay
    <3> QED BY <2>1, <3>2, <1>0 DEF Circle
  <2>4. ASSUME NEW x \in Goroutines, Moves(x) PROVE Gridlock'
    <3>1. x \notin circle
      BY <2>1, <2>4 DEF Moves
    <3>2. \A g \in circle : \E h \in circle : Waits(g, h)'
      BY <2>1, <2>4, <3>1, EdgesStay
    <3> QED BY <2>1, <3>2, <1>0 DEF Circle
  <2> QED BY <2>2, <2>3, <2>4, OnlyTheFreeMove
<1> QED
  BY <1>1, WaitInvariant, PTL DEF Spec, GridlockIsForGood
=============================================================================
