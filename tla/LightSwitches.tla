--------------------------- MODULE LightSwitches ---------------------------
(***************************************************************************)
(* lightswitch/ with stores/light_switches.go: the manager of light         *)
(* switches, the handlers of light switch providers and managers, and the   *)
(* goroutine of every switch.                                               *)
(*                                                                         *)
(* A provider is one contract with an actor: a device that connects anew    *)
(* is another provider that offers the same keys. Names, last-seen times    *)
(* and answers to managers are left out. activeLightSwitchesMutex is kept:  *)
(* what runs between Lock and Unlock is one step, what holds the read lock  *)
(* while it talks to the store is several, and a waiting writer lets no new *)
(* reader in.                                                               *)
(***************************************************************************)
EXTENDS Naturals, Sequences, SequencesExt

CONSTANTS
    Providers,    \* contracts with light switch providers
    NoProvider,
    Keys,         \* device id and provider id of a switch
    Fixtures,     \* fixtures that switches are assigned to
    Handlers,     \* goroutines that handle messages of light switch managers
    MaxRows,      \* bound: ids handed out by the store
    MaxOffers,    \* bound: switches that each provider offers
    MaxUpdates    \* bound: updates, and deletions of whatever kind

ASSUME ConstantsAssumption ==
    /\ NoProvider \notin Providers /\ Keys # {}
    /\ MaxOffers \in [Providers -> Nat]
    /\ MaxRows \in Nat /\ MaxUpdates \in Nat

IDs == 1..MaxRows
NoID == 0
Offers(p) == UNION {[1..n -> Keys] : n \in 0..MaxOffers[p]}

VARIABLES
    created,      \* the store's sequence of ids
    rows,         \* ids with a row in light_switches
    key,          \* the key in each row
    stored,       \* assignments in the store
    deleted,      \* fixtures that have been deleted; their ids do not come back
    forgotten,    \* keys whose device has been deleted
    hired,        \* providers whose contract is valid
    pc,           \* AcceptLightSwitchProvider and, later, its cleanup goroutine
    offered,      \* keys of the provider's message that are still ahead
    made,         \* switches that Accept has created: id and assignments read;
                  \* the cleanup goroutine has those that it has not removed yet
    active,       \* activeLightSwitches: the provider of the entry's switch
    assigned,     \* assignments held by the switch of a provider
    running,      \* switches whose run has not returned
    isHigh,
    toggling,     \* fixtures that a switch waits for, holding its mutex
    handler,      \* "idle" or "set": where UpdateLightSwitchByID is
    target,       \* id that a handler updates
    payload,      \* assignments that a handler sets
    updates,
    raced         \* history: ids updated or deleted between two steps of others

storeVars == <<created, rows, key, stored, deleted, forgotten>>
acceptVars == <<hired, pc, offered, made>>
switchVars == <<running, isHigh, toggling>>
handlerVars == <<handler, target, payload, updates>>
vars == <<storeVars, acceptVars, active, assigned, switchVars, handlerVars, raced>>

Init ==
    /\ created = 0 /\ rows = {}
    /\ key = [i \in IDs |-> CHOOSE k \in Keys : TRUE]
    /\ stored = [i \in IDs |-> {}]
    /\ deleted = {} /\ forgotten = {}
    /\ hired = {}
    /\ pc = [p \in Providers |-> "idle"]
    /\ offered = [p \in Providers |-> <<>>]
    /\ made = [p \in Providers |-> <<>>]
    /\ active = [i \in IDs |-> NoProvider]
    /\ assigned = [p \in Providers |-> [i \in IDs |-> {}]]
    /\ running = {}
    /\ isHigh = [p \in Providers |-> {}]
    /\ toggling = [p \in Providers |-> [i \in IDs |-> {}]]
    /\ handler = [h \in Handlers |-> "idle"]
    /\ target = [h \in Handlers |-> NoID]
    /\ payload = [h \in Handlers |-> {}]
    /\ updates = 0
    /\ raced = {}

-----------------------------------------------------------------------------
(* activeLightSwitchesMutex: the goroutines of providers lock it, those that *)
(* create switches and those of managers lock it for reading.                *)
RLockFree == \A p \in Providers : pc[p] \notin {"lock", "remove", "removing"}
LockFree ==
    /\ \A p \in Providers : pc[p] \notin {"lookup", "insert", "removing"}
    /\ \A h \in Handlers : handler[h] # "set"

MadeIDs(p) == {made[p][n].id : n \in DOMAIN made[p]}

\* Switches that exist as objects but are not in activeLightSwitches yet.
Pending == UNION {MadeIDs(p) : p \in {q \in Providers : pc[q] \in {"lookup", "insert", "created", "lock"}}}

-----------------------------------------------------------------------------
(* The store. Each operation is one statement or one transaction. Nothing     *)
(* makes the key of a row unique. Looking for a switch joins the devices: the *)
(* row of a switch stays when its device is deleted, but is not found.        *)
StoreLookup(k) == {i \in rows : key[i] = k /\ k \notin forgotten}

StoreCreate(id, k) ==
    /\ created' = id
    /\ rows' = rows \cup {id}
    /\ key' = [key EXCEPT ![id] = k]
    /\ stored' = [stored EXCEPT ![id] = {}]
    /\ UNCHANGED <<deleted, forgotten>>

\* Fails for an unknown id and for fixtures that are not there anymore.
StoreUpdate(id, a) ==
    /\ id \in rows /\ a \cap deleted = {}
    /\ stored' = [stored EXCEPT ![id] = a]
    /\ UNCHANGED <<created, rows, key, deleted, forgotten>>

StoreDelete(id) ==
    /\ id \in rows
    /\ rows' = rows \ {id}
    /\ UNCHANGED <<created, key, stored, deleted, forgotten>>

\* The lighting manager deletes a fixture or the gatekeeper a device, keys ks,
\* with its fixtures. The cascade takes the assignments of the fixtures out of
\* the store; the switches that are online are not told.
DeleteFixtures(ks, fs) ==
    /\ updates < MaxUpdates
    /\ ks \cap forgotten = {} /\ fs \cap deleted = {} /\ ks \cup fs # {}
    /\ stored' = [i \in IDs |-> stored[i] \ fs]
    /\ deleted' = deleted \cup fs
    /\ forgotten' = forgotten \cup ks
    /\ updates' = updates + 1
    /\ UNCHANGED <<created, rows, key, acceptVars, active, assigned, switchVars>>
    /\ UNCHANGED <<handler, target, payload, raced>>

-----------------------------------------------------------------------------
(* The provider handler: Hire and AcceptLightSwitchProvider.                *)

\* Hire, and the request for offers in the goroutine it starts.
Hire(p) ==
    /\ pc[p] = "idle"
    /\ hired' = hired \cup {p}
    /\ pc' = [pc EXCEPT ![p] = "offers"]
    /\ UNCHANGED <<storeVars, offered, made, active, assigned, switchVars, handlerVars, raced>>

\* The device disconnects or the actor is fired.
ContractEnds(p) ==
    /\ p \in hired
    /\ hired' = hired \ {p}
    /\ UNCHANGED <<storeVars, pc, offered, made, active, assigned, switchVars, handlerVars, raced>>

\* Accept returns an error, its caller cancels the contract.
Fire(p) ==
    /\ hired' = hired \ {p}
    /\ offered' = [offered EXCEPT ![p] = <<>>]
    /\ pc' = [pc EXCEPT ![p] = "failed"]

\* No offers before the contract ended, or the request cannot be sent.
NoOffers(p) ==
    /\ pc[p] = "offers" /\ p \notin hired
    /\ pc' = [pc EXCEPT ![p] = "gone"]
    /\ UNCHANGED <<storeVars, hired, offered, made, active, assigned, switchVars, handlerVars, raced>>

ReceiveOffers(p) ==
    /\ pc[p] = "offers"
    /\ RLockFree
    /\ \E o \in Offers(p) :
        /\ offered' = [offered EXCEPT ![p] = o]
        /\ pc' = [pc EXCEPT ![p] = IF o = <<>> THEN "created" ELSE "lookup"]
    /\ UNCHANGED <<storeVars, hired, made, active, assigned, switchVars, handlerVars, raced>>

\* The object of a switch, with the assignments that the store returned.
Make(p, id, a) ==
    /\ made' = [made EXCEPT ![p] = Append(@, [id |-> id, assignments |-> a])]
    /\ offered' = [offered EXCEPT ![p] = Tail(@)]
    /\ pc' = [pc EXCEPT ![p] = IF Tail(offered[p]) = <<>> THEN "created" ELSE "lookup"]

\* LightSwitchByDeviceAndProviderID finds the row, or it is created in a second
\* step.
LookupLightSwitch(p) ==
    LET found == StoreLookup(Head(offered[p])) IN
    /\ pc[p] = "lookup"
    /\ \/ found # {} /\ \E i \in found : Make(p, i, stored[i])
       \/ /\ found = {}
          /\ pc' = [pc EXCEPT ![p] = "insert"]
          /\ UNCHANGED <<offered, made>>
    /\ UNCHANGED <<storeVars, hired, active, assigned, switchVars, handlerVars, raced>>

CreateLightSwitch(p) ==
    LET id == created + 1 IN
    /\ pc[p] = "insert" /\ id \in IDs
    /\ StoreCreate(id, Head(offered[p]))
    /\ Make(p, id, {})
    /\ UNCHANGED <<hired, active, assigned, switchVars, handlerVars, raced>>

\* An unknown type, another type than the stored one, or an error of the store.
CreateFails(p) ==
    /\ pc[p] \in {"lookup", "insert"}
    /\ Fire(p)
    /\ made' = [made EXCEPT ![p] = <<>>]
    /\ UNCHANGED <<storeVars, active, assigned, switchVars, handlerVars, raced>>

\* createLightSwitchesFromProviderMessage has released its read lock, Accept
\* asks for the lock. In between anybody else may have had it.
LockForRegistration(p) ==
    /\ pc[p] = "created"
    /\ pc' = [pc EXCEPT ![p] = "lock"]
    /\ UNCHANGED <<storeVars, hired, offered, made, active, assigned, switchVars, handlerVars, raced>>

\* The id of the n-th switch of p is registered when the loop gets there.
Conflict(p, n) ==
    \/ active[made[p][n].id] # NoProvider
    \/ \E l \in 1..(n - 1) : made[p][l].id = made[p][n].id

\* Mutant: overwrites the entries that are there already.
RegistrableAll(p) == DOMAIN made[p]

\* The switches of p before the first conflict.
Registrable(p) ==
    {n \in DOMAIN made[p] : \A l \in 1..n : ~Conflict(p, l)}

\* Registers the switches in the order of the offers and starts each of them.
\* The first conflict shuts those down and returns an error; their entries
\* stay, as the cleanup goroutine is only started after the loop.
RegisterLightSwitches(p) ==
    LET ns == Registrable(p)
        ids == {made[p][n].id : n \in ns} IN
    /\ pc[p] = "lock" /\ LockFree
    /\ active' = [i \in IDs |-> IF i \in ids THEN p ELSE active[i]]
    /\ assigned' = [assigned EXCEPT ![p] = [i \in IDs |->
            IF i \in ids THEN made[p][CHOOSE n \in ns : made[p][n].id = i].assignments ELSE @[i]]]
    /\ running' = running \cup {<<p, i>> : i \in ids}
    /\ IF ns = DOMAIN made[p]
       THEN pc' = [pc EXCEPT ![p] = "accepted"] /\ UNCHANGED <<hired, offered>>
       ELSE Fire(p)
    /\ UNCHANGED <<storeVars, made, isHigh, toggling, handlerVars, raced>>

\* The cleanup goroutine: the contract has ended, then the lock.
LockForRemoval(p) ==
    /\ pc[p] = "accepted" /\ p \notin hired
    /\ pc' = [pc EXCEPT ![p] = "remove"]
    /\ UNCHANGED <<storeVars, hired, offered, made, active, assigned, switchVars, handlerVars, raced>>

\* It has the lock and goes through its switches.
StartRemoval(p) ==
    /\ pc[p] = "remove" /\ LockFree
    /\ pc' = [pc EXCEPT ![p] = "removing"]
    /\ UNCHANGED <<storeVars, hired, offered, made, active, assigned, switchVars, handlerVars, raced>>

\* Mutant: deletes the first switch only.
RemoveOneLightSwitch(p) ==
    /\ pc[p] = "removing" /\ made[p] # <<>>
    /\ toggling[p][Head(made[p]).id] = {}
    /\ active' = [active EXCEPT ![Head(made[p]).id] = NoProvider]
    /\ made' = [made EXCEPT ![p] = <<>>]
    /\ raced' = raced \ ({Head(made[p]).id} \ Pending)
    /\ UNCHANGED <<storeVars, hired, pc, offered, assigned, switchVars, handlerVars>>

\* Asking a switch for its id waits for its mutex, which a press holds until
\* all toggles have returned, while everybody else waits for this goroutine.
RemoveLightSwitch(p) ==
    /\ pc[p] = "removing" /\ made[p] # <<>>
    /\ toggling[p][Head(made[p]).id] = {}
    /\ active' = [active EXCEPT ![Head(made[p]).id] = NoProvider]
    /\ made' = [made EXCEPT ![p] = Tail(@)]
    /\ raced' = raced \ ({Head(made[p]).id} \ Pending)
    /\ UNCHANGED <<storeVars, hired, pc, offered, assigned, switchVars, handlerVars>>

RemovalEnds(p) ==
    /\ pc[p] = "removing" /\ made[p] = <<>>
    /\ pc' = [pc EXCEPT ![p] = "gone"]
    /\ UNCHANGED <<storeVars, hired, offered, made, active, assigned, switchVars, handlerVars, raced>>

-----------------------------------------------------------------------------
(* lightSwitchHiLo.run. All switches of an actor get all its messages.      *)

\* A press toggles every assigned fixture in a goroutine of its own and waits
\* for them with the mutex of the switch locked.
HandleMessage(p, i, high) ==
    /\ <<p, i>> \in running /\ toggling[p][i] = {}
    /\ IF high /\ i \notin isHigh[p] /\ assigned[p][i] # {}
       THEN toggling' = [toggling EXCEPT ![p][i] = assigned[p][i]] /\ UNCHANGED isHigh
       ELSE /\ isHigh' = [isHigh EXCEPT ![p] = IF high THEN @ \cup {i} ELSE @ \ {i}]
            /\ UNCHANGED toggling
    /\ UNCHANGED <<storeVars, acceptVars, active, assigned, running, handlerVars, raced>>

\* ToggleFixtureEnabledByID of one fixture returns; after the last one the
\* state is set and the mutex released.
ToggleReturns(p, i, f) ==
    /\ f \in toggling[p][i]
    /\ toggling' = [toggling EXCEPT ![p][i] = @ \ {f}]
    /\ isHigh' = IF toggling[p][i] = {f} THEN [isHigh EXCEPT ![p] = @ \cup {i}] ELSE isHigh
    /\ UNCHANGED <<storeVars, acceptVars, active, assigned, running, handlerVars, raced>>

\* lightSwitchLifetime is done: run returns once it is back at its select, and
\* the object is not used anymore.
RunReturns(p, i) ==
    /\ <<p, i>> \in running /\ p \notin hired /\ toggling[p][i] = {}
    /\ running' = running \ {<<p, i>>}
    /\ isHigh' = [isHigh EXCEPT ![p] = @ \ {i}]
    /\ UNCHANGED <<storeVars, acceptVars, active, assigned, toggling, handlerVars, raced>>

-----------------------------------------------------------------------------
(* The handlers of light switch managers.                                   *)

\* UpdateLightSwitchByID writes name and assignments in one transaction, which
\* fails for an unknown id. With the read lock held it goes on to the object
\* when the switch is online.
UpdateLightSwitchByID(h, id, a) ==
    LET overlaps == id \in Pending \/ \E o \in Handlers \ {h} : handler[o] = "set" /\ target[o] = id IN
    /\ handler[h] = "idle" /\ RLockFree /\ updates < MaxUpdates
    /\ StoreUpdate(id, a)
    /\ updates' = updates + 1
    /\ IF active[id] # NoProvider
       THEN /\ handler' = [handler EXCEPT ![h] = "set"]
            /\ target' = [target EXCEPT ![h] = id]
            /\ payload' = [payload EXCEPT ![h] = a]
       ELSE UNCHANGED <<handler, target, payload>>
    /\ raced' = IF overlaps THEN raced \cup {id} ELSE raced
    /\ UNCHANGED <<acceptVars, active, assigned, switchVars>>

HandlerReturns(h) ==
    /\ handler' = [handler EXCEPT ![h] = "idle"]
    /\ target' = [target EXCEPT ![h] = NoID]
    /\ payload' = [payload EXCEPT ![h] = {}]

\* Mutant: sets the assignments without the mutex of the switch.
SetAssignmentsUnlocked(h) ==
    /\ handler[h] = "set"
    /\ assigned' = [assigned EXCEPT ![active[target[h]]][target[h]] = payload[h]]
    /\ HandlerReturns(h)
    /\ UNCHANGED <<storeVars, acceptVars, active, switchVars, updates, raced>>

\* Mutant: forgets the assignments, as only the name is set.
SetNameOnly(h) ==
    /\ handler[h] = "set"
    /\ toggling[active[target[h]]][target[h]] = {}
    /\ HandlerReturns(h)
    /\ UNCHANGED <<storeVars, acceptVars, active, assigned, switchVars, updates, raced>>

\* setName and setAssignments of the object wait for its mutex.
SetAssignments(h) ==
    LET p == active[target[h]] IN
    /\ handler[h] = "set"
    /\ toggling[p][target[h]] = {}
    /\ assigned' = [assigned EXCEPT ![p][target[h]] = payload[h]]
    /\ HandlerReturns(h)
    /\ UNCHANGED <<storeVars, acceptVars, active, switchVars, updates, raced>>

\* DeleteLightSwitchByID refuses a switch that is online.
DeleteLightSwitchByID(h, id) ==
    /\ handler[h] = "idle" /\ RLockFree /\ updates < MaxUpdates
    /\ active[id] = NoProvider
    /\ StoreDelete(id)
    /\ updates' = updates + 1
    /\ raced' = IF id \in Pending THEN raced \cup {id} ELSE raced
    /\ UNCHANGED <<acceptVars, active, assigned, switchVars>>
    /\ UNCHANGED <<handler, target, payload>>

-----------------------------------------------------------------------------
Accept(p) ==
    \/ NoOffers(p) \/ ReceiveOffers(p)
    \/ LookupLightSwitch(p) \/ CreateLightSwitch(p) \/ CreateFails(p)
    \/ LockForRegistration(p) \/ RegisterLightSwitches(p)
    \/ LockForRemoval(p) \/ StartRemoval(p) \/ RemoveLightSwitch(p) \/ RemovalEnds(p)

Next ==
    \/ \E p \in Providers :
        \/ Hire(p) \/ ContractEnds(p) \/ Accept(p)
        \/ \E i \in IDs :
            \/ RunReturns(p, i)
            \/ \E high \in BOOLEAN : HandleMessage(p, i, high)
            \/ \E f \in Fixtures : ToggleReturns(p, i, f)
    \/ \E h \in Handlers :
        \/ SetAssignments(h)
        \/ \E i \in IDs : DeleteLightSwitchByID(h, i)
        \/ \E i \in IDs, a \in SUBSET Fixtures : UpdateLightSwitchByID(h, i, a)
    \/ \E ks \in SUBSET Keys, fs \in SUBSET Fixtures : DeleteFixtures(ks, fs)

Spec == Init /\ [][Next]_vars

\* Goroutines that can go on do so, and the store answers. Who waits for the
\* mutex of a switch gets it although the switch is pressed over and over: Go's
\* mutexes do not starve. That a toggle returns is not assumed here.
Fairness ==
    /\ \A p \in Providers : WF_vars(Accept(p)) /\ SF_vars(RemoveLightSwitch(p))
    /\ \A h \in Handlers : SF_vars(SetAssignments(h))

FairSpec == Spec /\ Fairness

-----------------------------------------------------------------------------
TypeOK ==
    /\ created \in 0..MaxRows /\ rows \subseteq IDs
    /\ key \in [IDs -> Keys]
    /\ stored \in [IDs -> SUBSET Fixtures]
    /\ deleted \subseteq Fixtures /\ forgotten \subseteq Keys
    /\ hired \subseteq Providers
    /\ pc \in [Providers -> {"idle", "offers", "lookup", "insert", "created", "lock",
                             "accepted", "remove", "removing", "gone", "failed"}]
    /\ offered \in [Providers -> Seq(Keys)]
    /\ made \in [Providers -> Seq([id : IDs, assignments : SUBSET Fixtures])]
    /\ active \in [IDs -> Providers \cup {NoProvider}]
    /\ assigned \in [Providers -> [IDs -> SUBSET Fixtures]]
    /\ running \subseteq Providers \X IDs
    /\ isHigh \in [Providers -> SUBSET IDs]
    /\ toggling \in [Providers -> [IDs -> SUBSET Fixtures]]
    /\ handler \in [Handlers -> {"idle", "set"}]
    /\ target \in [Handlers -> IDs \cup {NoID}]
    /\ payload \in [Handlers -> SUBSET Fixtures]
    /\ updates \in 0..MaxUpdates
    /\ raced \subseteq IDs

\* activeLightSwitches is exact: all switches of an accepted provider stay in
\* it until that provider's own cleanup, whoever else comes, goes or offers the
\* same switches, and an entry outlives its provider only after a registration
\* that failed half-way.
RegistryIsExact ==
    /\ TypeOK
    /\ \A p \in Providers :
        pc[p] \in {"accepted", "remove"} => \A i \in MadeIDs(p) : active[i] = p
    /\ \A i \in IDs, p \in Providers :
        active[i] = p => i \in MadeIDs(p) /\ pc[p] \in {"accepted", "remove", "removing", "failed"}

\* A switch that is online has its row and works with the stored assignments,
\* but for fixtures that have been deleted, which it keeps, and for two races:
\* an update or a deletion between the creation of the object and its
\* registration, and two updates at once.
ActiveAgreesWithStore ==
    \A i \in IDs, p \in Providers :
        active[i] = p /\ i \notin raced =>
            /\ i \in rows
            /\ \/ assigned[p][i] \ deleted = stored[i]
               \/ \E h \in Handlers : handler[h] = "set" /\ target[h] = i

\* A press toggles what is assigned to the switch, although managers assign
\* fixtures meanwhile.
TogglesAssigned ==
    \A p \in Providers, i \in IDs : toggling[p][i] \subseteq assigned[p][i]

\* As long as no press waits forever for its fixtures: a provider that was
\* accepted and is gone goes offline with all its switches, which makes room for
\* the same device to come back.
GoneGoesOffline ==
    (\A p \in Providers, i \in IDs : []<>(toggling[p][i] = {})) =>
        \A p \in Providers :
            pc[p] = "accepted" /\ p \notin hired ~> \A i \in IDs : active[i] # p
=============================================================================
