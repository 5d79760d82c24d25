# TLA+ models of masc-server

masc-server connects devices (websocket clients) to server-side logic. A device
offers *actors* in *roles*; handlers of the server hire actors, exchange
messages with them and fire them. These modules model the concurrent core of
that: the subscription manager, the contract of an actor, the routers of a
device, the way of a connection through hub, gatekeeper and agency, the
lighting manager with its handlers, the light switches, the bridge to MQTT
devices, the database migrations, and the setup of a match with its casting.

Paths below are relative to the repository root (`src/` in `PROJECT.json`).

## 1. Inventory

| Component | State | Operations | Interacts with |
|---|---|---|---|
| Subscription manager, `acting/subscriptions.go` | counter, two indexes, Lifetime per subscription, RWMutex | SubscribeMessageType, HandleMessage, Unsubscribe, CancelAllSubscriptions; one forwarder goroutine per newsletter | called by routeIncoming, handlers and fire() |
| Actor contract, `acting/acting.go` (`netActor`) | contract with Context, isConnected, current manager, two RWMutexes | Hire, fire, Cancel, Send, Subscribe, Unsubscribe | device routers, handlers, shutdown |
| Device routers, `acting/acting.go` (`netActorDevice`) | channels `send`, `device.Send`, `device.Receive`, router Context, actorsMutex | routeIncoming, routeOutgoing, boot, shutdown | gatekeeper pumps, actors |
| Agency, `acting/acting.go` (`ProtectedAgency`) | actorDevices, newsletter recipients | WelcomeDevice, SayGoodbyeToDevice, SubscribeNewActors | gatekeeper, reception handlers |
| Gatekeeper, `gatekeeping/net.go` | onlineDevices, pumps per device | AcceptClient, SayGoodbyeToClient, DeleteDevice | hub, agency, store |
| Hub and client, `ws/` | clients, buffered Send (256), Receive | register, unregister, readPump, writePump | gatekeeper |
| Device management, `device_management/` | active managers | HandleNewActor, message handlers | agency, gatekeeper |
| Lighting, `lighting/` | fixtures, online actor, broadcaster flag | Accept/SayGoodbye provider, toggle, name, delete, publish | actors, store, operator handlers |
| Light switches, `lightswitch/` | active switches, assignments | Accept provider, Update, Delete, run | lighting manager, store |
| MQTT bridge, `mqttbridge/` | bridged devices with a timeout | detect, create, boot, meow, remove | hub interface, MQTT |
| Casting, `casting/` | casting state, requests, winners | AddRequest, PerformAndHire, GetWinner | actors |
| Games, `games/` | ready states, players, match phases | RequestAndAwaitReady, Add/RemovePlayer, Start | casting, actors |
| Logging, `logging/`, `logpublish/` | bounded log channel | Write, publish | actors |
| Migrations, `app/db.go` | schema version | performDBMigrations | database |
| Stores, `stores/` | database rows | SQL statements | all |
| Web server, app, messages, errors, util | none of their own | wiring, I/O, data types | all |

`casting` and `games` do not build at this commit (an unused variable in
`casting/casting.go:274`) and are not imported by the application. Their models
read the code as if that variable were not there.

**What is hard here.** Nearly every operation waits at an unbuffered channel or
a mutex that another goroutine holds while *it* waits. A device can vanish at
any moment, also half-way through its handshake, a hire or a message, and can be
back before the server noticed. The goroutines started for a device or a
newsletter only end when somebody else cleans up. `PROJECT.json` lists these
hazards at their lines.

**What makes the parts correct.** Subscriptions: both indexes agree, each
subscription is removed once, messages reach readers in order, nothing is
delivered after it was refused, and everything started comes to an end. Actor:
device and server agree on whether it is hired, and a contract ends when it was
cancelled and because of a disconnect. Routers: shutdown returns and leaves
nobody behind. Connection: a connected device is served by its own actors, a
connection that is gone is not served anymore. Lighting: a fixture exists once
and belongs to the provider that took it online last, every update reaches the
operators. Light switches: the registry has exactly the switches of the
providers that are there, and they do what the store says. MQTT: a device has one
bridge and one identity, and goes offline when it falls silent. Migrations: a
server that is up has all its tables. Match: all winners are hired or nobody is,
and everybody learns of players and ready-states.

## 2. Modules

| Module | Models | Granularity |
|---|---|---|
| `SubscriptionManager` | `acting/subscriptions.go` | one step per critical section or channel operation |
| `Newsletters` | abstract promise of subscriptions | refined by `SubscriptionManager` |
| `NetActor` | contract part of `acting/acting.go` | manager operations atomic, Hire in two steps |
| `NetActorDevice` | routers and shutdown of `acting/acting.go` | every wait for a mutex or a channel |
| `Gatekeeper` | `ws/hub.go`, `gatekeeping/net.go`, agency | goroutines per client, shutdown takes two steps |
| `DeviceService` | abstract promise of hub, gatekeeper and agency | refined by `Gatekeeper` |
| `LightingManager` | `lighting/` | every wait for `manager.m`, a fixture's mutex or the broadcaster |
| `LightSwitches` | `lightswitch/`, `stores/light_switches.go` | critical sections of `activeLightSwitchesMutex`, store statements |
| `MQTTBridge` | `mqttbridge/`, `stores/mqtt.go` | handler, wrapper, timer, AcceptClient and remove listener of every bridge |
| `Migrations` | `app/db.go` | one step per statement and commit |
| `Contracts` | what casting and games see of actors | hired, fired, gone |
| `Casting` | `casting/casting.go` | one step per message of the jury and per hire |
| `ReadyAwaiter` | `games/ready.go` | `modeMutex`, every channel, one goroutine per actor |
| `PlayerJoins` | `games/player_management.go` | mutex of the player management, one goroutine per team base |
| `TeamDeathmatch` | `games/mode_team_deathmatch/` | composes `Casting`, `ReadyAwaiter`, `PlayerJoins` |
| `SubscriptionManagerProofs`, `GatekeeperProofs`, `LightingManagerProofs`, `LightSwitchesProofs`, `MQTTBridgeProofs`, `MigrationsProofs`, `TeamDeathmatchProofs` | theorems about the module of that name | |
| `NetActorProofs` | theorems about `NetActor` and `NetActorDevice`, whose names all differ | |
| `MC...` | instances for TLC | |

**Locks.** A Go `RWMutex` blocks new readers as soon as a writer waits. In
`SubscriptionManager` the lock is the announced writer (`lockWaiter`) plus the
only reader that keeps the lock across steps (`reading`); `AnnounceLock` and
`LockGranted` are the two halves of `Lock()`. Several writers queue at Go's
internal mutex before they are announced, hence at most one. In
`NetActorDevice` each mutex is an expression over the positions of its holders
(`ContractReaders`, `ConnectedRLock`, `ActorsReader`, ...). In
`LightingManager`, `writer` is the goroutine that waits for `manager.m.Lock` or
holds it, `readers` hold the read lock across steps; the mutex of a fixture is
an expression over the goroutines that set it or apply it (`Settable`,
`Readable`).

**SubscriptionManager.** `subscriptionsByToken` and
`subscriptionsByMessageType` are the two maps, `alive` the subscriptions whose
Lifetime Context is not done. The router is `reading`, `message`, `pos`
(position in the subscriber list) and `forwards`. The 20-odd
`SubscribeMessageType...` helpers are the same goroutine with different types:
receive, decode (a message that is not `wellFormed` is dropped), offer to the
reader, end with the Lifetime. The owner leaves its read loop (`OwnerStops`) and
calls Unsubscribe (`OwnerUnsubscribe`) in a later step or never: a deferred
`UnsubscribeOrLogError` comes after everything else that the owner has to do, and
the error returns of `handlePlayerJoins` forget it.
`refused` and `delivered` are history. `Newsletters` is the same without locks,
lists, positions and calls: a message is offered once to each subscriber of its
type, only one whose Lifetime is done may miss it, whoever takes it reads it
before the next one, a message that nobody took is refused, and subscriptions
come and go between messages.

**NetActor.** Managers are numbered by the Hire that created them; a contract is
that number. `Hire` is split where it has sent you-are-in and the contract is
not valid yet, because `shutdown` reads the contract meanwhile. `fire()` has
three steps: it is entered (the receiver of the deferred
`CancelAllSubscriptions` is read there), the locked part, the deferred call.
`deviceLog` is what the device got to see. `Firers` are callers of
`FireAllActors`; the application at this commit has none, only casting does.

**NetActorDevice.** `sender` says for each goroutine that sends in the actor's
name which lock or channel it waits for. `WritePump` drains the client's buffer
while the connection is up and stops then, since shutdown is a consequence of
the connection's loss. `routeIncoming` sends, too: the answer to a message that
nobody has subscribed to, with `actorsMutex` locked for reading and also while
the actor is hired and connected, and the answer to an unknown actor, without a
mutex. `UnknownActors` and `EncodeErrors` switch on two inputs: a message to an
actor that does not exist, a content that `json.Marshal` refuses.

**Gatekeeper.** `accept[c]` and `goodbye[c]` are the two goroutines the hub
spawns for client `c`. `EarlyDisconnect`, `Overlap` and `DeleteDevices` say what
devices and device managers may do; the first two each break one of the
properties of the orderly run (section 3), which has deletions. The store may fail
at every hello and at every goodbye; `abandoned` is history, the connections
whose goodbye ended with such an error and left their device entered and running.
The client's buffer is unbounded here. A send on the closed `client.Send` sets
`panicked`, after which nothing runs.

**LightingManager.** A goroutine's position is `pc`, the fixture it sets or
applies `target`, the fixtures its loop has still ahead `todo`. Every provider
has two goroutines: `AcceptFixtureProvider` and, after its contract,
`SayGoodbyeToFixtureProvider`. Setting a fixture (`setActor`, `setName`,
`SetEnabled`, ...) is a step that waits for the fixture's mutex;
`sendStateUpdate` keeps its read lock from then (`applying`) until it returns,
also while it waits at `performPublish`. The broadcaster goes from `buffer`
(timer) over `snapshot` (about to lock) and `nested` (first of its two read
locks) to `send`. What is changed about a fixture is left out, that a change was
reported after the last snapshot began is `dirty`. The messages to the
fixture's actor are left out, too: a `Send` that blocks is the subject of
`NetActorDevice`.

**LightSwitches.** A provider is one contract: `pc` is first
`AcceptLightSwitchProvider` (per offered switch a lookup, perhaps an insert, and
the creation of the object from its row; then all are registered under the
lock), later the goroutine that waits for the end of the contract and removes
them one by one under the lock: each switch is asked for its id and answers when
no press holds its mutex. The store is `rows`, `key` and `stored`, with operators
that fail for an unknown id. `DeleteFixtures` is what other parts of
the server do to it: a fixture is deleted, or a device with its fixtures
(`deleted`, `forgotten`), and the cascade takes the assignments out of the store;
switches that are online keep them, and a switch of a deleted device is not found
anymore. A manager's `UpdateLightSwitch` writes the store
and then the running switch. A press sets `toggling`, the fixtures whose goroutines
have not returned; the switch's mutex is locked until the last one has.

**MQTTBridge.** Bridges are numbered by boot. `handler` is the one message
handler of the library with `bridge.m` held from `accept` to `meow`; per bridge
there are `accept` (what a bridge sees of `AcceptClient`), `wrapper`
(`deviceWrapper.run`), the timer (its lifetime, `alive`) and the remove listener
(`removers`). The `Shelly` may fail with every publication, which ends the
wrapper. The store may fail at the hello, after it has created the device or
before, and at the goodbye. The agency finds the actors of a device by its id
(`actorDevices`), so that a late goodbye may shut down those of the next bridge;
`running` are the bridges whose actors are up. It is taken for granted that the
gatekeeper's mutex is available and that the shutdown of actors returns, as in
`Gatekeeper`. `mqttDevices` is the table with `mqtt_id` as its key.

**Migrations.** A database version is a position in `dbMigrations`. Each server
goes through `connectDB`: read the version, execute the migrations in a
transaction, commit, write the version in a second one. `DBError` and `Crash` may
happen at every step; tables that another server has committed meanwhile make
the execution fail.

**Casting, ReadyAwaiter, PlayerJoins, TeamDeathmatch.** The three components are
modules of their own with their own variables, actions and `Init_...`; they
share the actors' contracts (`Contracts`), which anybody may hire away before
the match does and which end at any time. FireAllActors, of this casting or of
another match's, ends a contract and wakes the goroutine of its Hire, which
calls fire() once more (`LateFire`, `late` counts them), whatever contract the
actor has by then. `TeamDeathmatch` conjoins each
component's action with what it leaves alone and adds the match's own:
`handleMatchConfigRequest`, the requests, the casting, the offices, the wait for
ready and the filling of the teams. The panic in `Abort` is `crashed`.
`winners` is the list of assignments (key and actor) of the jury's message,
`remaining` the positions that `hireWinners` has still ahead. The code walks a
map of lists; the model takes any order, also within a list. `WinnersOf` is
`GetWinners`. After that only the winners matter, and only whether they are still
employed: `DropCasting` forgets the others, and a winner that loses its contract to
a late goroutine afterwards is one that quits. That it could be hired again by
somebody else is left out then. What `ReadyAwaiter` and `PlayerJoins` send to actors
and their calls of Unsubscribe are taken to return; `NetActorDevice` and
`SubscriptionManager` name the ways in which they would not. An update is announced
when its reader has taken it; its broadcast to an actor that is gone may still fail,
which the code logs.

## 3. Runs

| Run | Bounds | Shows |
|---|---|---|
| `subscriptions` | 1 type, 2 tokens, 2 messages, 1 canceller and the owner, fair | indexes agree, removal happens once, CancelAll is complete, refused is refused; implements `Newsletters` (offered once, read in order); calls return unless `Stuck` or `Abandoned`, newsletters close |
| `actor_lifecycle` | 3 hires, 1 token each, 2 types, 1 message, fair | engagements, agreement, contract kept, its end complete |
| `device_routers` | 2 incoming (subscribed, forbidden or unknown), 1 send, buffer 1, all inputs, fair | nobody left at the routers' channel; shutdown and sends return unless `Jammed` |
| `gatekeeper_faults` | 2 clients, 2 devices, 1 hello each, all faults, fair | agency consistent, lost connections cleaned up |
| `gatekeeper_orderly` | 2 clients, 2 devices, 2 hellos each, deletions and store errors | gone forgotten, connected served; implements `DeviceService` |
| `gatekeeper_reconnect` | 2 clients, 1 device, 1 hello each | expected violation: the goodbye of the old connection shuts down the actors of the new one |
| `lighting_fixtures` | 2 providers, 2 keys, 2 fixtures, 1 manager, symmetric | fixtures unique, kept, given up completely |
| `lighting_publish` | 1 provider, manager, operator and switch, 1 fixture, fair | one request at a time, no update lost, all published unless `Gridlock` |
| `light_switches` | 2 providers with 2 offers and 1, 1 key, 1 fixture, 2 ids, 1 manager, 2 edits or deletions, fair | registry exact, switches follow the store, a press toggles what was assigned, gone goes offline if presses end |
| `mqtt_bridge` | 2 devices, 2 boots, buffer 1, fair | one bridge per device, run as remembered; messages handled and silent devices offline unless `Jammed` |
| `migrations` | 2 servers, 3 migrations, 2 faults, every initial version | up is migrated; a stranded database takes a fault |
| `match` | game master and 2 actors, 2 assignments, 2 late goroutines per actor, 1 player, 0 to 2 teams, fair | all or nobody hired, ready-states published, teams as announced, the wait for ready returns |

Two messages are needed for an order, two subscriptions of one type for a
removal that moves another one, three hires for a stale contract between two
others, two clients for a reconnect, two hellos for a retry. Two providers and
two fixtures are needed to take a fixture over and to give up one of several.
One caller of each kind at one fixture already reaches circles through
`manager.m`, through the fixture's mutex and through both. A provider that
offers one key twice, and another that offers the same key, are the ways to a
registration that fails half-way; two ids let a deleted switch be created anew,
two edits overlap with a registration. Two boots are a bridge and its successor,
or the bridges of two devices that share `bridge.m`. Two faults are a failure
during the repair of a failure, three migrations leave some before and some
behind the failing one. Two actors and two assignments suffice to assign an
actor twice, to lack one and to lose the first winner while the second is being
hired; two late goroutines are a fired contract before the one that is fired
next. Two teams are the first count whose requests clash. What is proved
(section 4) does not depend on these bounds.

The type invariant of a module is a conjunct of one of its invariants
(`NobodyLeftAtChannel`, `AgencyKnowsOnlyRunning`, `FixtureIsUnique`,
`RegistryIsExact`, `OneBridge`, `TeamsAreAnnounced`) or proved on its own
(`SubscriptionManager`, `NetActor`, `Migrations`).

**Exemptions.** Some properties name states they do not speak of. TLC reaches
all of them, so the runs say that *nothing else* keeps the system from what it
promises; `PROJECT.json` has a finding or a hazard with the line for each. Of
the standstills among them (`Stuck`, both `Jammed`, `Gridlock`, `NobodyReads`)
section 4 proves, for all bounds, that they are the only ones and for good; only
`Abandoned` ends if the owner comes round to its call.

- `Stuck` (`CallsReturn`): `Unsubscribe` waits for the read lock behind a
  writer, the writer for `HandleMessage`, and that for the subscriber whose
  Lifetime `Unsubscribe` was about to end.
- `Abandoned` (`CallsReturn`): `HandleMessage` waits for a subscriber whose owner
  has left its read loop and has not called `Unsubscribe`. What the owner does
  meanwhile is its own business; `handlePlayerJoins` never calls after an error.
- `Jammed` of `NetActorDevice` (`ShutdownReturns`, `SendReturns`): the outgoing
  router is gone, because of a message that it could not encode or after its
  context, and a message was offered to it before the shutdown set
  `isConnected` (by a handler, a hirer, `fire()` or the incoming router with its
  answer to a message that nobody subscribed to), or at any time by the incoming
  router as an answer to an unknown actor; or
  router and pump both hold a message for a full buffer that nobody drains since
  the shutdown has begun.
- `Gridlock` (`UpdateIsPublished`): a circle in the graph `WaitsFor` of
  goroutines that wait for each other.
- `abandoned` (`GoneIsForgotten`, `ImplementsDeviceService`): the connections whose
  own goodbye met an error of the store, any error: `SayGoodbyeToClient` returns
  before anything is shut down. What is left of them keeps no other connection
  from being served or forgotten.
- `"early"` goodbyes (`GoodbyeIsComplete`): the contract ended while
  `AcceptFixtureProvider` was at work; its fixtures are set online afterwards.
- `raced` (`ActiveAgreesWithStore`): ids that were edited between the creation
  of a switch's object and its registration (reached with one manager), or by
  two managers at once (reached with `Handlers = {h1, h2}`).
- `deleted` (`ActiveAgreesWithStore`): fixtures that do not exist anymore, which a
  running switch keeps and the store does not.
- a press that never ends (`GoneGoesOffline`): the removal of a switch waits for it
  with the registry locked. The property has the hypothesis that no switch
  is pressed for ever; whether a toggle returns is the subject of
  `LightingManager`.
- `Jammed` of `MQTTBridge` (`HandlerReturns`, `SilentGoesOffline`): the handler
  waits with `bridge.m` locked for a hello or for a timer that is gone.
- `missed` (`SilentGoesOffline`): the goodbye of a bridge did not end its own
  actors, as it came before its device was online, after the next bridge was
  welcomed under the same id, or when the store failed.
- `fired` (`AllOrNobodyHired`): actors that a casting, this one or another, has fired
  before. The goroutine of that contract may end the next one at any time.
- `NobodyReads` and `crashed` (`ReadyReturns`): the reader of updates stopped
  before the sender of one, or the match was aborted, which panics.

**Findings.** Only `gatekeeper_reconnect` has a run of its own. The other
findings follow from reading the code and from the states above: the mutex of
the subscriptions, the answer to an unknown actor, the broadcaster and
`manager.m`, migrations and version in two transactions, `RememberDevice` of a
known device, the bridge's mutex, the casting that never is done after an error,
the late `fire()` after a casting's failed attempt, the join offices that leave
without unsubscribing,
the clashing monitor requests of two teams, the offices that are never closed,
the copy of `matchMonitors` into itself, and the ready update without a reader.
With other constants the modules show more: `Gatekeeper` with
`EarlyDisconnect = TRUE` refutes `GoneIsForgotten`, and reaches `panicked` when the outgoing pump sends on the closed `client.Send`;
`NetActor` with `Firers = {f1}` refutes `ContractEndsOnRequest`.

**Deadlock** is not checked with TLC's option: the bounds, a panic or one of the
states above stop every one of these systems, and devices need not do anything.
That goroutines do not wait for each other is what the liveness properties say
on the runs' instances, and the theorems about standstills (section 4) for all
values of the constants.

**Fairness.** A goroutine that can go on does (weak fairness, Go's scheduler).
Strong fairness is only assumed where a `select` or a lock is ready again and
again: Go chooses among ready cases at random, a mutex that waits longer than a
millisecond is handed over, and an `RWMutex` lets waiting readers in when a
writer leaves. Nothing is assumed about devices, hirers,
cancellation, faults, the jury, managers, players, timers and the loss of
connections. `SendReadyAccepted` is a `select` that a goroutine visits again and
again until it notices the cancelled context, the removal of light switches and
the handlers of managers compete with presses for a switch's mutex, and
the remove listener of a bridge with messages for `bridge.m`; these have strong
fairness. The wrapper of a bridge notices the end of its lifetime (`Cancel`) although
messages keep it busy, and nothing is assumed of toggles, of the store, or of an
owner's call of Unsubscribe. In `Gatekeeper` it is assumed that
`netActorDevice.shutdown` returns; `NetActorDevice` is about when it does.

## 4. Proofs

TLAPS proves every invariant that a run checks, the two safety properties of
steps (`ContractEndsOnRequest`, `NoForwardAfterRemoval`), the refinements of
`DeviceService` and of `Newsletters`, and that the concurrent modules come to a
standstill only where they are said to, for all values of the constants. What is assumed of the
constants is the `ConstantsAssumption` of each module: bounds are natural
numbers, names that stand for nothing are not members of the sets they are
missing from, some sets are not empty (`Types`, `Keys`, `MQTTDevices`), and a
provider of fixtures offers finitely many of them (`IsFiniteSet(Keys)` of
`LightingManager`, which numbers new fixtures by counting); a few bounds are
positive (`ClientBuffer`, and `MaxLate` of `Contracts`). A theorem with a
further hypothesis says so below. Hardly any property is inductive as it stands;
each proof module begins with what has to be added, and TLC checked that on the
runs' instances before it was proved.

**Standstills.** `ENABLED` is beyond the provers, so the theorems say it with the
guards of the actions: `SomeoneCanMove` (`SomeoneCanGoOn` of `LightingManager`)
lists the steps that need nothing from outside (no message, call, failure,
cancellation or lost connection), `AtRest` is where no call is under way and
everything that was started and is over has been cleaned up, and `NoDeadlock`
is that a state is one of the exempted ones, or somebody can move, or all is at
rest. TLC compared these guards with `ENABLED` on the runs' instances. The
theorems hold without fairness and say what the liveness properties leave open:
that no *other* circle of mutexes and channels exists for more goroutines,
buffers and messages than a run has. Each comes with one that says that the
exempted state is never left again, but for `Abandoned`, which ends when the owner
calls and becomes `Stuck` when a writer comes first.

| Module | Only standstill | For good |
|---|---|---|
| `SubscriptionManager` | `OnlyStuckIsDeadlock` (`Stuck`; `Abandoned`) | `StuckStaysStuck` |
| `NetActorDevice` | `RoutersDoNotDeadlock` (`Jammed`) | `RoutersJamsAreForGood` |
| `LightingManager` | `OnlyGridlockIsDeadlock` | `GridlocksAreForGood` |
| `LightSwitches` | `SwitchesNeverDeadlock` (none) | |
| `MQTTBridge` | `HandlerIsServedOrJammed` | `JamsAreForGood` |
| `TeamDeathmatch` | `OnlyUnreadUpdatesDeadlock` | `UnreadUpdatesAreForGood` |

`SubscriptionManagerProofs`: `TypeCorrect`, `IndexesAlwaysAgree`,
`UnsubscribeNeverCorrupt`, `ExactlyOneRemoves`, `RemovedAreDone`,
`CancelAllIsComplete`, `NoLateForward` follow from the inductive invariant
`IInv`. What the properties lack on their own: that registered tokens were
handed out (`TokensHandedOut`), that an announced writer is at the matching
point of its operation (`WaiterAtLock`), that an Unsubscribe past its first half
has ended the Lifetime (`UnsubscribeProgress`), and that CancelAll waits for
calls it has started (`CancelAllProgress`). The swap-removal has lemmas of its
own. `NoLateForward` uses that the list which `HandleMessage` walks does not
change while it holds the read lock. `AlwaysDeliveredInOrder` and
`NoRefusedIsDelivered` need `Delivery` on top: what a forwarder holds is newer
than all that its subscriber has read (`Newest`), and the message at hand has
not reached the subscribers that the router has still ahead, nor anybody while
no forward is counted (`Ahead`); that a list has no token twice, from
`IndexesAgree`, carries this over a forward. `OnlyStuckIsDeadlock` needs what the
goroutines know of each other (`WaitsInv`): a forwarder is there from the
subscription on and closes only after the Lifetime, and CancelAll waits for the
lock as the announced writer. At rest, a forwarder may still hold a message for
an owner that has stopped reading and not called Unsubscribe.
`NewslettersAreImplemented` maps the position in the list to the set of
subscribers that have been asked; the tokens before it are those, since no token
is in a list twice and the list stays as it is while the router holds its read
lock. The two critical sections of Unsubscribe become `End` and `Remove`, a
token that another call has removed already is a stutter.

`NetActorProofs`: `TypeCorrect`, `ShutdownCancelsContract`,
`EngagementsWellFormed`, `DeviceAndServerAgree`, for any number of callers of
`FireAllActors`; `IInv` adds that the connection is up until shutdown begins and
that Hire is only under way without a valid contract. `ContractIsKept` assumes
that nobody calls `FireAllActors`, and needs in addition that a fire() under way
belongs to a contract that was cancelled (`PendingFire`). Two theorems are about
what a contract leaves behind. `DisconnectedIsFiredForGood`, with any callers:
when a device is gone and the goroutines of the cancelled contracts have had
their turn, the actor has no contract, and it never gets one again; its
invariant says that the contracts before the current one are over and fired
(`ContractsPass`). `FireIsThorough`, without callers: the deferred call of fire()
takes all subscriptions of its own contract, since the manager that it has read
at its entry is that contract's (`FiresOwn`). With a caller TLC refutes
`ContractEndsOnRequest` and `FireTakesSubscriptions`.

The second half is about `NetActorDevice`, which the module extends, too.
`NobodyIsLeftAtChannel` holds since shutdown gets `isConnectedMutex` only when
nobody is at the channel and nobody gets there afterwards (`ChannelIsLeft`), and
since the one send without a mutex is routeIncoming's own, for which shutdown
waits (`ErrorIsRouters`). The answer to a forbidden message of a hired actor is a
send like any other's, but with `actorsMutex` locked for reading. `RoutersDoNotDeadlock` adds what routers, fire() and
shutdown know of each other (`WaitsInv`), `RoutersJamsAreForGood` that routeIncoming
and fire() send one message at a time (`OneAtATime`).

`GatekeeperProofs`: `AgencyAlwaysKnowsOnlyRunning` holds whatever clients and
managers do; its invariant counts the hello messages of a connection
(`Accounts`) and relates the positions of its two goroutines to what they have
set (`Stages`). `GoneIsAlwaysForgotten`, `ConnectedIsAlwaysServed` and the
refinement `DeviceServiceIsImplemented` assume `Orderly`: no early disconnect and
no overlap of connections; devices may be deleted and the store may fail, as in
`gatekeeper_orderly`. Section 3 says how they fail otherwise. The orderly
invariant says that the two goroutines of a connection do not overlap (`Course`),
that a connection is served from its handshake to its goodbye (`IsServed`,
`IsGone`), and that a device has one connection at a time (`Exclusive`). A goodbye
that the store ended is `Abandon` of `DeviceService`; the next arrival of that
device or a goodbye that finds the actors left behind takes over from there. For the refinement,
`WelcomeDevice` is the abstract arrival, and the step of the goodbye that leaves
the gatekeeper is the departure; all other steps are stutters.

`LightingManagerProofs`: `OnlyOnePublication` and `NoUpdateIsLost` need what
`isPublishing` stands for: exactly one request, which either waits at
`performPublish` or has started the buffer time (`FlagIsRequest`), and that an
update is covered by a request or by the snapshot about to begin
(`DirtyIsPending`). `FixtureIsAlwaysUnique`, `GoodbyeIsAlwaysComplete` and
`TakenIsAlwaysKept` share a second invariant: `manager.m` excludes the handlers
of providers (`Locks`), a fixture that was taken is with that provider or
offline after its contract (`Belongs`), a provider is hired once (`HiredOnce`),
and a goodbye that has seen all fixtures leaves none (`GoodbyeKnows`). For
`OnlyGridlockIsDeadlock`, `Positions` says where each kind of goroutine can be
and what it holds there; if nobody can go on, everybody at work waits for another
one at work, which is what `Gridlock` asks of the graph `WaitsFor`.
`GridlocksAreForGood` shows that nobody in such a circle moves.

`LightSwitchesProofs`: `RegistryIsAlwaysExact`, `ActiveAlwaysAgreesWithStore`,
`AlwaysTogglesAssigned`. The agreement with the store begins long before a
switch is active: `Fresh` says that a switch that is made and not registered has
the stored assignments, `Updating` that a handler on its way from the store to
the switch carries them, both but for deleted fixtures and the ids in `raced`.
`SwitchesNeverDeadlock` has no exemption: presses come to an end first, then the
handlers and the removal that wait for a switch's mutex, then the providers
that wait for those. It counts the return of a toggle as a step that is possible;
whether the lighting manager answers is said by `LightingManager`.

`MQTTBridgeProofs`: `OnlyOneBridge` and `AlwaysRunsAsRemembered`. Since
`bridge.m` is held over AcceptClient, bridges are booted one after the other
(`OneBoots`); `Entries` says that a remove listener deletes the entry of its own
bridge, `Remembered` that an id that is claimed is the one in the table. The rest
needs `Bookkeeping`: an entry has a listener for its end until the server shuts
down, a goodbye that had an effect came after `AcceptClient` put the device
online, and who waits for a hello has a wrapper that has still to send it, or
none. `EntriesAreRemoved` says that no entry stays behind, `GoodbyesAreFinal`
that `AcceptClient` never has the last word after such a goodbye.

`MigrationsProofs`: `TypeIsCorrect`, `VersionIsAlwaysApplied`,
`UpIsAlwaysMigrated`, for any number of servers, migrations and faults. The
version alone does not say what a server may still write: the inductive
invariant adds `ServerKnows`, that the tables up to the version a server has read
are committed, and after its own commit all of them. That a committed
table is never dropped carries it over the steps of the other servers.
`StrandedAlwaysNeedsFault` needs that without faults servers exclude each other:
only one can have created tables or be about to write the version
(`OneMigrates`).

`TeamDeathmatchProofs`: one invariant per component. `AlwaysAllOrNobodyHired`
needs who has a contract at each stage of the casting, and who may have lost it to
a late goroutine (`Hiring`),
`ReadyIsAlwaysPublished` that `modeMutex` excludes and that the acceptance of
updates ends with an error or with an update in which everybody is ready
(`Publishing`), `TeamsAreAlwaysAnnounced` that players and announcement differ
only by the update of the office that holds the mutex (`Announcing`).
`OnlyUnreadUpdatesDeadlock` needs which goroutines a match has at each stage
(`Stages`) and that nobody is left unasked or untold (`Waiting`). It has one
standstill more than the exemptions of section 3: a player joins or leaves after
the reader of such updates has stopped (`NobodyReadsPlayers`), so its office
keeps the mutex for which `fillTeams` waits. `ReadyReturns` does not depend on
players.

`GatekeeperProofs` and `MigrationsProofs` have no theorem about standstills. In
`Gatekeeper` nothing is waited for with a mutex held but `shutdown`, which is
assumed to return; in `Migrations` the database is the only thing to wait for.

Left to TLC: the eleven liveness properties under fairness (out of the prover's
reach), and the expected violation. `NeverCorrupt`, `RemovedIsDone`,
`NoForwardAfterRemoval`, `DeliveredInOrder`, `VersionIsApplied`, the type
invariants of `SubscriptionManager`, `NetActor` and `Migrations`, and the
formulas that the proof modules define themselves (standstills,
`DisconnectedIsFired`, `FiredStaysFired`, `FireTakesSubscriptions`,
`NoStaleEntry`, `GoodbyeIsFinal`) are in no run: their theorems say more. TLC
checked each of them on the runs' instances before the proof.

## 5. Not modelled, and the plan

Not modelled, and why:

- web server, application wiring, configuration, message and error types, test
  doubles: no state, or pure I/O at start-up;
- log publishing: a bounded channel that drops what it cannot take, nothing a
  property could relate;
- ping/pong deadlines, log wording, names, brightness and last-seen times;
- the relay and input states of the Shelly and the queue to the broker;
- the agency's lists of actors and newsletter recipients: the modules start the
  handlers of new actors themselves;
- match phases and status updates: what follows the setup of a match is not
  written yet in the repository;
- the shutdown of the whole process, in which several loops
  (`lighting/state_broadcast.go:55`, `gatekeeping/net.go:110`) do not return.

Left to do:

1. The agency's notification of new actors with the bookkeeping of the handlers
   (device management, lighting, log publishing).
2. A hire after a hire: `NetActor` lets a subscription of an earlier contract be
   taken for one of the current contract, since tokens restart, and lets a
   handler subscribe after fire() has cancelled everything. No property excludes
   either (`PROJECT.json`, hazards), and nothing that builds at this commit hires
   an actor twice.
