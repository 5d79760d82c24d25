-------------------------- MODULE LightingManager --------------------------
(***************************************************************************)
(* lighting/: the StoredManager with its fixtures, the state broadcaster,   *)
(* and the goroutines that use them: the handlers of fixture providers,     *)
(* fixture managers and fixture operators, and light switches.              *)
(*                                                                         *)
(* Names, brightness and enabled states are data without influence on the   *)
(* control and left out: a change of them is an update to be published.     *)
(* What sendStateUpdate sends to the fixture's actor is left out as well.   *)
(* The locks are not: manager.m, and the mutex of every fixture.            *)
(***************************************************************************)
EXTENDS Naturals, FiniteSets

CONSTANTS
    Keys,         \* device id and provider id of fixtures
    Providers,    \* hired actors that provide fixtures
    NoProvider,
    Managers,     \* handlers of fixture managers
    Operators,    \* handlers of fixture operators
    Switches,     \* light switches that toggle fixtures
    MaxFixtures   \* bound: fixture ids handed out by the store

ASSUME ConstantsAssumption ==
    /\ Keys # {} /\ IsFiniteSet(Keys)
    /\ NoProvider \notin Providers
    /\ MaxFixtures \in Nat

Fixtures == 1..MaxFixtures
NoFixture == 0

\* The goroutines: two of every provider's handler, and the other callers.
Accept(p) == <<"accept", p>>
Goodbye(p) == <<"goodbye", p>>
Manager(m) == <<"manager", m>>
Operator(o) == <<"operator", o>>
Switch(s) == <<"switch", s>>

Callers == {Operator(o) : o \in Operators} \cup {Switch(s) : s \in Switches}
Goroutines == Callers \cup {Manager(m) : m \in Managers}
    \cup {Accept(p) : p \in Providers} \cup {Goodbye(p) : p \in Providers}

VARIABLES
    created,       \* the store's sequence of fixture ids
    known,         \* manager.fixtures and the rows of the store
    key,           \* what identifies each fixture at its provider
    actor,         \* fixture.actor, the fixture is online when it is set
    notifier,      \* fixtures whose updateNotifier is set
    writer,        \* the goroutine that waits for manager.m.Lock or holds it
    readers,       \* the goroutines that hold manager.m.RLock
    pc,            \* where each goroutine is
    todo,          \* fixtures that a goroutine's loop has still ahead
    target,        \* the fixture that a goroutine sets or applies
    hired,         \* providers whose contract is valid
    broadcaster,   \* fixtureStateBroadcaster.run
    isPublishing,
    waiting,       \* goroutines waiting at performPublish
    dirty,         \* history: an update was reported after the last snapshot
    takenBy        \* history: the provider that last took a fixture online

fixtureVars == <<created, known, key, actor, notifier, takenBy>>
lockVars == <<writer, readers>>
loopVars == <<todo, target>>
publishVars == <<isPublishing, waiting, dirty>>
vars == <<fixtureVars, lockVars, pc, loopVars, hired, broadcaster, publishVars>>

TypeOK ==
    /\ created \in 0..MaxFixtures
    /\ known \subseteq 1..created
    /\ key \in [Fixtures -> Keys]
    /\ actor \in [Fixtures -> Providers \cup {NoProvider}]
    /\ notifier \subseteq 1..created
    /\ writer \subseteq Goroutines /\ Cardinality(writer) <= 1
    /\ readers \subseteq Callers
    /\ pc \in [Goroutines -> {"idle", "offers", "add", "adding", "accept", "loop", "set",
                              "applying", "lock", "return", "nested", "ok", "early", "error"}]
    /\ todo \in [Goroutines -> SUBSET Fixtures]
    /\ target \in [Goroutines -> Fixtures \cup {NoFixture}]
    /\ \A g \in Goroutines : pc[g] \in {"set", "applying"} <=> target[g] # NoFixture
    /\ hired \subseteq Providers
    /\ broadcaster \in {"off", "idle", "buffer", "snapshot", "nested", "send"}
    /\ isPublishing \in BOOLEAN
    /\ waiting \subseteq Goroutines
    /\ dirty \in BOOLEAN
    /\ takenBy \in [Fixtures -> Providers \cup {NoProvider}]

\* LoadKnownFixtures has loaded the fixtures of the store.
Init ==
    /\ created \in 0..MaxFixtures
    /\ known = 1..created /\ notifier = known
    /\ key \in {k \in [Fixtures -> Keys] : \A f, g \in 1..created : k[f] = k[g] => f = g}
    /\ actor = [f \in Fixtures |-> NoProvider]
    /\ takenBy = [f \in Fixtures |-> NoProvider]
    /\ writer = {} /\ readers = {}
    /\ pc = [g \in Goroutines |-> "idle"]
    /\ todo = [g \in Goroutines |-> {}]
    /\ target = [g \in Goroutines |-> NoFixture]
    /\ hired = {}
    /\ broadcaster = "off"
    /\ isPublishing = FALSE /\ waiting = {} /\ dirty = FALSE

GoTo(g, label) == pc' = [pc EXCEPT ![g] = label]

----------------------------------------------------------------------------
(* The mutexes, Go RWMutexes: a Lock that waits keeps new readers out.  The  *)
(* broadcaster holds manager.m.RLock while it is at "nested".  A goroutine   *)
(* at "set" has called f.m.Lock, one at "applying" holds f.m.RLock.          *)

RLockFree == writer = {}
LockFree == writer = {}
LockGranted(g) == writer = {g} /\ readers = {} /\ broadcaster # "nested"

Settable(f) == \A g \in Goroutines : pc[g] = "applying" => target[g] # f
Readable(fs) == \A g \in Goroutines : pc[g] = "set" => target[g] \notin fs

----------------------------------------------------------------------------
(* The broadcaster.                                                         *)

\* Mutant: a publication under way is not noticed.
NotifyAlways(g) ==
    IF broadcaster = "off"
    THEN UNCHANGED publishVars
    ELSE /\ dirty' = TRUE
         /\ isPublishing' = TRUE
         /\ waiting' = waiting \cup {g}

\* HandleFixtureStateUpdated, up to the send on performPublish.
HandleFixtureStateUpdated(g) ==
    IF broadcaster = "off"
    THEN UNCHANGED publishVars
    ELSE /\ dirty' = TRUE
         /\ isPublishing' = TRUE
         /\ waiting' = IF isPublishing THEN waiting ELSE waiting \cup {g}

\* Fixture.Apply reports to the notifier, if the fixture has one.
Apply(g, f) ==
    IF f \in notifier THEN HandleFixtureStateUpdated(g) ELSE UNCHANGED publishVars

BroadcasterRun ==
    /\ broadcaster = "off"
    /\ broadcaster' = "idle"
    /\ UNCHANGED <<fixtureVars, lockVars, pc, loopVars, hired, publishVars>>

\* case <-bc.performPublish
PerformPublish(g) ==
    /\ broadcaster = "idle"
    /\ g \in waiting
    /\ waiting' = waiting \ {g}
    /\ broadcaster' = "buffer"
    /\ UNCHANGED <<fixtureVars, lockVars, pc, loopVars, hired, isPublishing, dirty>>

\* Mutant: isPublishing is not reset.
PublishKeepsFlag ==
    /\ broadcaster = "buffer"
    /\ broadcaster' = "snapshot"
    /\ UNCHANGED <<fixtureVars, lockVars, pc, loopVars, hired, publishVars>>

\* The buffer time has passed.
Publish ==
    /\ broadcaster = "buffer"
    /\ isPublishing' = FALSE
    /\ broadcaster' = "snapshot"
    /\ UNCHANGED <<fixtureVars, lockVars, pc, loopVars, hired, waiting, dirty>>

\* manager.FixtureStates read-locks, and manager.Fixtures does again.
BroadcasterRLock ==
    /\ broadcaster = "snapshot"
    /\ RLockFree
    /\ broadcaster' = "nested"
    /\ dirty' = FALSE
    /\ UNCHANGED <<fixtureVars, lockVars, pc, loopVars, hired, isPublishing, waiting>>

\* All fixtures have been read.
FixtureStates ==
    /\ broadcaster = "nested"
    /\ RLockFree /\ Readable(known)
    /\ broadcaster' = "send"
    /\ UNCHANGED <<fixtureVars, lockVars, pc, loopVars, hired, publishVars>>

\* bc.statesBroadcast <- ..., read by the operators' handler.
SendStates ==
    /\ broadcaster = "send"
    /\ broadcaster' = "idle"
    /\ UNCHANGED <<fixtureVars, lockVars, pc, loopVars, hired, publishVars>>

----------------------------------------------------------------------------
(* A provider's handler: AcceptFixtureProvider in a goroutine of its own,    *)
(* SayGoodbyeToFixtureProvider when the contract is done.                    *)

\* The provider is hired; its newsletter is there and its offers are requested.
HireProvider(p) ==
    /\ p \notin hired /\ pc[Accept(p)] = "idle"
    /\ hired' = hired \cup {p}
    /\ \/ GoTo(Accept(p), "offers")
       \/ GoTo(Accept(p), "error")
    /\ UNCHANGED <<fixtureVars, lockVars, loopVars, broadcaster, publishVars>>

ContractDone(p) ==
    /\ p \in hired
    /\ hired' = hired \ {p}
    /\ UNCHANGED <<fixtureVars, lockVars, pc, loopVars, broadcaster, publishVars>>

\* The offers arrive, or the newsletter was closed and yields a message without
\* fixtures, or the handler's lifetime is over.
ReceiveOffers(p) ==
    /\ pc[Accept(p)] = "offers"
    /\ \/ GoTo(Accept(p), "add")
       \/ pc[Goodbye(p)] \in {"early", "error"} /\ GoTo(Accept(p), "error")
    /\ UNCHANGED <<fixtureVars, lockVars, loopVars, hired, broadcaster, publishVars>>

\* manager.m.Lock, in addFixturesFromProviderMessage and afterwards.
AcceptLock(p) ==
    /\ pc[Accept(p)] \in {"add", "accept"}
    /\ LockFree
    /\ writer' = {Accept(p)}
    /\ GoTo(Accept(p), IF pc[Accept(p)] = "add" THEN "adding" ELSE "loop")
    /\ UNCHANGED <<fixtureVars, readers, loopVars, hired, broadcaster, publishVars>>

\* The fixture with the given key, if it is known.
KnownFixture(k) == {f \in known : key[f] = k}

\* Mutant: a known fixture is not recognised.
AddAlways(p, offered) ==
    LET new == (created + 1)..(created + Cardinality(offered)) IN
    /\ created + Cardinality(offered) <= MaxFixtures
    /\ created' = created + Cardinality(offered)
    /\ known' = known \cup new
    /\ key' \in {k \in [Fixtures -> Keys] :
                   {k[f] : f \in new} = offered /\ \A f \in Fixtures \ new : k[f] = key[f]}
    /\ todo' = [todo EXCEPT ![Accept(p)] = new]

\* Every offered fixture is looked up by its key, unknown ones are created.
AddFixtures(p, offered) ==
    LET unknown == {k \in offered : KnownFixture(k) = {}}
        new == (created + 1)..(created + Cardinality(unknown)) IN
    /\ created + Cardinality(unknown) <= MaxFixtures
    /\ created' = created + Cardinality(unknown)
    /\ known' = known \cup new
    /\ key' \in {k \in [Fixtures -> Keys] :
                   {k[f] : f \in new} = unknown /\ \A f \in Fixtures \ new : k[f] = key[f]}
    /\ todo' = [todo EXCEPT ![Accept(p)] = new \cup UNION {KnownFixture(k) : k \in offered}]

\* An error (a type that changed, a failing store) ends the acceptance; what
\* was added before it stays.
AddFixturesFromProviderMessage(p, offered) ==
    /\ pc[Accept(p)] = "adding"
    /\ LockGranted(Accept(p)) /\ Readable(known)
    /\ AddFixtures(p, offered)
    /\ writer' = {}
    /\ \/ GoTo(Accept(p), "accept")
       \/ GoTo(Accept(p), "error")
    /\ UNCHANGED <<actor, notifier, takenBy, target, readers, hired, broadcaster, publishVars>>

\* RefreshLastSeenForFixture succeeds: the fixture's row exists.  The fixture
\* is to be set.
AcceptFixture(p, f) ==
    /\ pc[Accept(p)] = "loop"
    /\ LockGranted(Accept(p))
    /\ f \in todo[Accept(p)] /\ f \in known
    /\ todo' = [todo EXCEPT ![Accept(p)] = @ \ {f}]
    /\ target' = [target EXCEPT ![Accept(p)] = f]
    /\ GoTo(Accept(p), "set")
    /\ UNCHANGED <<fixtureVars, lockVars, hired, broadcaster, publishVars>>

\* setActor, setUpdateNotifier, Reset and Apply.
SetOnline(p) ==
    LET f == target[Accept(p)] IN
    /\ pc[Accept(p)] = "set"
    /\ Settable(f)
    /\ actor' = [actor EXCEPT ![f] = p]
    /\ takenBy' = [takenBy EXCEPT ![f] = p]
    /\ notifier' = notifier \cup {f}
    /\ HandleFixtureStateUpdated(Accept(p))
    /\ GoTo(Accept(p), "applying")
    /\ UNCHANGED <<created, known, key, lockVars, loopVars, hired, broadcaster>>

\* Apply returns.
Accepted(p) ==
    /\ pc[Accept(p)] = "applying" /\ Accept(p) \notin waiting
    /\ target' = [target EXCEPT ![Accept(p)] = NoFixture]
    /\ GoTo(Accept(p), "loop")
    /\ UNCHANGED <<fixtureVars, lockVars, todo, hired, broadcaster, publishVars>>

\* The loop ends, or RefreshLastSeenForFixture or Apply has failed.
AcceptReturn(p) ==
    /\ pc[Accept(p)] = "loop"
    /\ LockGranted(Accept(p))
    /\ \/ todo[Accept(p)] = {} /\ GoTo(Accept(p), "ok")
       \/ GoTo(Accept(p), "error")
    /\ todo' = [todo EXCEPT ![Accept(p)] = {}]
    /\ writer' = {}
    /\ UNCHANGED <<fixtureVars, readers, target, hired, broadcaster, publishVars>>

GoodbyeLock(p) ==
    /\ p \notin hired
    /\ pc[Accept(p)] # "idle" /\ pc[Goodbye(p)] = "idle"
    /\ LockFree
    /\ writer' = {Goodbye(p)}
    /\ GoTo(Goodbye(p), "lock")
    /\ UNCHANGED <<fixtureVars, readers, loopVars, hired, broadcaster, publishVars>>

\* Mutant: all online fixtures are taken for the actor's.
OnlineFixtures(p) == {f \in known : actor[f] # NoProvider}

\* Mutant: only the fixture with the highest id is looked at.
LastFixtureOf(p) == {f \in known : actor[f] = p /\ \A g \in known : g <= f}

\* The fixtures whose actorID is the actor's.
FixturesOf(p) == {f \in known : actor[f] = p}

GoodbyeFixture(p, f) ==
    /\ pc[Goodbye(p)] = "lock"
    /\ LockGranted(Goodbye(p)) /\ Readable(known)
    /\ f \in FixturesOf(p)
    /\ target' = [target EXCEPT ![Goodbye(p)] = f]
    /\ GoTo(Goodbye(p), "set")
    /\ UNCHANGED <<fixtureVars, lockVars, todo, hired, broadcaster, publishVars>>

\* setActor(nil); when the store fails then, nothing is reported.
SetOffline(p) ==
    /\ pc[Goodbye(p)] = "set"
    /\ Settable(target[Goodbye(p)])
    /\ actor' = [actor EXCEPT ![target[Goodbye(p)]] = NoProvider]
    /\ target' = [target EXCEPT ![Goodbye(p)] = NoFixture]
    /\ \/ GoTo(Goodbye(p), "lock") /\ UNCHANGED writer
       \/ GoTo(Goodbye(p), "error") /\ writer' = {}
    /\ UNCHANGED <<created, known, key, notifier, takenBy, readers, todo, hired,
                   broadcaster, publishVars>>

SayGoodbye(p) ==
    /\ pc[Goodbye(p)] = "lock"
    /\ LockGranted(Goodbye(p)) /\ Readable(known)
    /\ FixturesOf(p) = {}
    /\ HandleFixtureStateUpdated(Goodbye(p))
    /\ GoTo(Goodbye(p), "return")
    /\ UNCHANGED <<fixtureVars, lockVars, loopVars, hired, broadcaster>>

\* AcceptFixtureProvider has returned before or is still at work.
GoodbyeReturn(p) ==
    /\ pc[Goodbye(p)] = "return" /\ Goodbye(p) \notin waiting
    /\ writer' = {}
    /\ GoTo(Goodbye(p), IF pc[Accept(p)] \in {"ok", "error"} THEN "ok" ELSE "early")
    /\ UNCHANGED <<fixtureVars, readers, loopVars, hired, broadcaster, publishVars>>

----------------------------------------------------------------------------
(* Fixture managers, light switches and fixture operators.                  *)

ManagerLock(m) ==
    /\ pc[Manager(m)] = "idle"
    /\ LockFree
    /\ writer' = {Manager(m)}
    /\ GoTo(Manager(m), "lock")
    /\ UNCHANGED <<fixtureVars, readers, loopVars, hired, broadcaster, publishVars>>

\* The fixture is found and its row updated ...
SetFixtureName(m, f) ==
    /\ pc[Manager(m)] = "lock"
    /\ LockGranted(Manager(m))
    /\ f \in known
    /\ target' = [target EXCEPT ![Manager(m)] = f]
    /\ GoTo(Manager(m), "set")
    /\ UNCHANGED <<fixtureVars, lockVars, todo, hired, broadcaster, publishVars>>

\* ... setName and the report follow.
SetName(m) ==
    /\ pc[Manager(m)] = "set"
    /\ Settable(target[Manager(m)])
    /\ target' = [target EXCEPT ![Manager(m)] = NoFixture]
    /\ HandleFixtureStateUpdated(Manager(m))
    /\ GoTo(Manager(m), "return")
    /\ UNCHANGED <<fixtureVars, lockVars, todo, hired, broadcaster>>

DeleteFixture(m, f) ==
    /\ pc[Manager(m)] = "lock"
    /\ LockGranted(Manager(m))
    /\ f \in known
    /\ known' = known \ {f}
    /\ HandleFixtureStateUpdated(Manager(m))
    /\ GoTo(Manager(m), "return")
    /\ UNCHANGED <<created, key, actor, notifier, takenBy, lockVars, loopVars, hired, broadcaster>>

\* The fixture is not found, the store fails, or the update is reported.
ManagerReturn(m) ==
    /\ pc[Manager(m)] \in {"lock", "return"} /\ Manager(m) \notin waiting
    /\ LockGranted(Manager(m))
    /\ writer' = {}
    /\ GoTo(Manager(m), "idle")
    /\ UNCHANGED <<fixtureVars, readers, loopVars, hired, broadcaster, publishVars>>

\* The read lock is kept until the fixture has applied its state.
ToggleFixtureEnabledByID(s, f) ==
    /\ pc[Switch(s)] = "idle"
    /\ RLockFree
    /\ f \in known
    /\ readers' = readers \cup {Switch(s)}
    /\ target' = [target EXCEPT ![Switch(s)] = f]
    /\ GoTo(Switch(s), "set")
    /\ UNCHANGED <<fixtureVars, writer, todo, hired, broadcaster, publishVars>>

\* handleSetFixturesEnabled and handleSetFixturesLocating: the fixtures are read
\* with the lock and used without it.
OperatorFixtures(o, chosen) ==
    /\ pc[Operator(o)] = "idle"
    /\ RLockFree /\ Readable(known)
    /\ chosen \subseteq known /\ chosen # {}
    /\ todo' = [todo EXCEPT ![Operator(o)] = chosen]
    /\ GoTo(Operator(o), "loop")
    /\ UNCHANGED <<fixtureVars, lockVars, target, hired, broadcaster, publishVars>>

OperatorNext(o, f) ==
    /\ pc[Operator(o)] = "loop"
    /\ f \in todo[Operator(o)]
    /\ todo' = [todo EXCEPT ![Operator(o)] = @ \ {f}]
    /\ target' = [target EXCEPT ![Operator(o)] = f]
    /\ GoTo(Operator(o), "set")
    /\ UNCHANGED <<fixtureVars, lockVars, hired, broadcaster, publishVars>>

\* The message is done, names an unknown fixture, or Apply failed.
OperatorReturn(o) ==
    /\ pc[Operator(o)] = "loop"
    /\ todo' = [todo EXCEPT ![Operator(o)] = {}]
    /\ GoTo(Operator(o), "idle")
    /\ UNCHANGED <<fixtureVars, lockVars, target, hired, broadcaster, publishVars>>

\* ToggleEnabled, SetEnabled or SetLocating, and Apply.
SetAndApply(g) ==
    /\ pc[g] = "set"
    /\ Settable(target[g])
    /\ Apply(g, target[g])
    /\ GoTo(g, "applying")
    /\ UNCHANGED <<fixtureVars, lockVars, loopVars, hired, broadcaster>>

\* Apply returns; without an actor it read-locks the fixture once more (f.ID()).
Applied(g) ==
    /\ pc[g] = "applying" /\ g \notin waiting
    /\ actor[target[g]] = NoProvider => Readable({target[g]})
    /\ target' = [target EXCEPT ![g] = NoFixture]
    /\ readers' = readers \ {g}
    /\ GoTo(g, IF g \in readers THEN "idle" ELSE "loop")
    /\ UNCHANGED <<fixtureVars, writer, todo, hired, broadcaster, publishVars>>

\* handleGetFixtureStates: FixtureStates read-locks, Fixtures does again.
OperatorRLock(o) ==
    /\ pc[Operator(o)] = "idle"
    /\ RLockFree
    /\ readers' = readers \cup {Operator(o)}
    /\ GoTo(Operator(o), "nested")
    /\ UNCHANGED <<fixtureVars, writer, loopVars, hired, broadcaster, publishVars>>

OperatorFixtureStates(o) ==
    /\ pc[Operator(o)] = "nested"
    /\ RLockFree /\ Readable(known)
    /\ readers' = readers \ {Operator(o)}
    /\ GoTo(Operator(o), "idle")
    /\ UNCHANGED <<fixtureVars, writer, loopVars, hired, broadcaster, publishVars>>

----------------------------------------------------------------------------
Next ==
    \/ BroadcasterRun \/ Publish \/ BroadcasterRLock \/ FixtureStates \/ SendStates
    \/ \E g \in Goroutines : PerformPublish(g)
    \/ \E p \in Providers :
         \/ HireProvider(p) \/ ContractDone(p)
         \/ ReceiveOffers(p) \/ AcceptLock(p)
         \/ \E offered \in SUBSET Keys : AddFixturesFromProviderMessage(p, offered)
         \/ \E f \in Fixtures : AcceptFixture(p, f)
         \/ SetOnline(p) \/ Accepted(p) \/ AcceptReturn(p)
         \/ GoodbyeLock(p)
         \/ \E f \in Fixtures : GoodbyeFixture(p, f)
         \/ SetOffline(p) \/ SayGoodbye(p) \/ GoodbyeReturn(p)
    \/ \E m \in Managers :
         \/ ManagerLock(m) \/ SetName(m) \/ ManagerReturn(m)
         \/ \E f \in Fixtures : SetFixtureName(m, f) \/ DeleteFixture(m, f)
    \/ \E s \in Switches, f \in Fixtures : ToggleFixtureEnabledByID(s, f)
    \/ \E o \in Operators :
         \/ \E chosen \in SUBSET Fixtures : OperatorFixtures(o, chosen)
         \/ \E f \in Fixtures : OperatorNext(o, f)
         \/ OperatorReturn(o) \/ OperatorRLock(o) \/ OperatorFixtureStates(o)
    \/ \E g \in Callers : SetAndApply(g) \/ Applied(g)

Spec == Init /\ [][Next]_vars

(* Goroutines that can run do run, and whoever waits for a mutex is let in   *)
(* when others leave (sync.RWMutex): the broadcaster, and a setter of a      *)
(* fixture.  Requests are not promised.                                      *)
Fairness ==
    /\ WF_vars(Publish) /\ SF_vars(BroadcasterRLock) /\ SF_vars(FixtureStates)
    /\ WF_vars(SendStates)
    /\ WF_vars(\E g \in Goroutines : PerformPublish(g))
    /\ \A p \in Providers :
         /\ WF_vars(\E offered \in SUBSET Keys : AddFixturesFromProviderMessage(p, offered))
         /\ WF_vars(AcceptReturn(p) \/ \E f \in Fixtures : AcceptFixture(p, f))
         /\ WF_vars(SetOnline(p) \/ Accepted(p))
         /\ WF_vars(SayGoodbye(p) \/ \E f \in Fixtures : GoodbyeFixture(p, f))
         /\ WF_vars(SetOffline(p) \/ GoodbyeReturn(p))
    /\ \A m \in Managers : WF_vars(SetName(m) \/ ManagerReturn(m))
    /\ \A g \in Callers : SF_vars(SetAndApply(g)) /\ WF_vars(Applied(g))

FairSpec == Spec /\ Fairness

----------------------------------------------------------------------------
(* Properties. *)

\* However many updates are reported, at most one goroutine waits at
\* performPublish, and none while the buffer time runs.
OnePublication ==
    /\ \A g, h \in waiting : g = h
    /\ waiting # {} => isPublishing /\ broadcaster # "buffer"

\* An update that was reported after the last snapshot began has a snapshot
\* still to come: "Reset publishing state here as otherwise update calls might
\* get lost during channel send" (publish).
NoUpdateLost == dirty => broadcaster \in {"buffer", "snapshot"} \/ waiting # {}

\* Two providers that offer the same fixture at once do not create it twice.
FixtureIsUnique == TypeOK /\ \A f, g \in known : key[f] = key[g] => f = g

\* When SayGoodbyeToFixtureProvider has succeeded after AcceptFixtureProvider
\* returned, no fixture is left that sends its state to the actor that quit.
GoodbyeIsComplete == \A p \in Providers : pc[Goodbye(p)] = "ok" =>
    \A f \in known : actor[f] # p

\* A fixture stays with the provider that took it online last as long as that
\* provider is hired, whoever else says goodbye.
TakenIsKept == \A f \in known : takenBy[f] \in hired => actor[f] = takenBy[f]

\* Who waits for whom: for the broadcaster at performPublish, for manager.m, for
\* the mutex of a fixture.
Broadcaster == <<"broadcaster", NoProvider>>
ReadsFixtures ==
    {g \in Goroutines : pc[g] \in {"nested", "adding"} \cup (IF g[1] = "goodbye" THEN {"lock"} ELSE {})}
WaitsFor ==
    (waiting \X {Broadcaster})
    \cup (IF broadcaster \in {"snapshot", "nested"} THEN {Broadcaster} \X writer ELSE {})
    \cup (IF broadcaster = "nested" THEN writer \X {Broadcaster} ELSE {})
    \cup (writer \X readers)
    \cup ({g \in Goroutines : pc[g] = "nested"} \X writer)
    \cup {e \in (ReadsFixtures \cup (IF broadcaster = "nested" THEN {Broadcaster} ELSE {})) \X Goroutines :
            pc[e[2]] = "set" /\ target[e[2]] \in known}
    \cup {e \in Goroutines \X Goroutines :
            /\ target[e[1]] = target[e[2]]
            /\ \/ pc[e[1]] = "set" /\ pc[e[2]] = "applying"
               \/ /\ pc[e[1]] = "applying" /\ pc[e[2]] = "set"
                  /\ e[1] \notin waiting /\ actor[target[e[1]]] = NoProvider}

\* Goroutines wait for each other in a circle, which nobody ever leaves.
Gridlock == \E circle \in SUBSET {e[1] : e \in WaitsFor} :
    circle # {} /\ \A g \in circle : \E h \in circle : <<g, h>> \in WaitsFor

\* Every update that was reported gets into a snapshot and every snapshot is
\* sent, unless goroutines wait in a circle.
UpdateIsPublished ==
    /\ dirty ~> (~dirty \/ Gridlock)
    /\ (broadcaster = "nested") ~> (broadcaster = "idle" \/ Gridlock)
=============================================================================
