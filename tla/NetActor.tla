------------------------------ MODULE NetActor ------------------------------
(***************************************************************************)
(* acting/acting.go: the contract of one netActor.  Hire, fire, Contract.   *)
(* Cancel and the shutdown of the actor's device race with each other, with *)
(* the goroutine that Hire leaves behind to fire the actor once its         *)
(* contract is cancelled, and with handlers that subscribe and unsubscribe  *)
(* through the actor.                                                      *)
(*                                                                         *)
(* Every Hire creates a SubscriptionManager; managers are numbered, and a   *)
(* contract carries the number of the manager that its Hire created.  The   *)
(* operations of a manager are atomic here (SubscriptionManager.tla has     *)
(* their steps); every manager counts its tokens from 1.                    *)
(***************************************************************************)
EXTENDS Naturals, Sequences

CONSTANTS
    Types,      \* message types
    Firers,     \* callers of FireAllActors
    MaxHires,   \* bound: subscription managers created by Hire
    MaxTokens,  \* bound: subscriptions per manager
    MaxSends    \* bound: messages sent by the hirer

ASSUME ConstantsAssumption ==
    /\ Types # {}
    /\ MaxHires \in Nat /\ MaxTokens \in Nat /\ MaxSends \in Nat
    /\ Firers \cap Nat = {}

Managers == 1..MaxHires
Subs == Managers \X (1..MaxTokens)
\* Goroutines that run fire(): the one of every contract, and explicit callers.
Fires == Managers \cup Firers

VARIABLES
    contract,       \* the valid contract, 0 when the actor is not hired
    hiring,         \* Hire has sent you-are-in and still holds contractMutex
    cancelled,      \* contracts whose Context is done
    manager,        \* a.subscriptionManager, 0 before the first Hire
    isConnected,
    shutdown,       \* netActorDevice.shutdown, as far as it concerns this actor
    fire,           \* every goroutine that runs fire()
    fireManager,    \* the receiver of its deferred CancelAllSubscriptions
    created,        \* subscriptions handed out
    subType,        \* their message types
    registered,     \* subscriptions that their manager still knows
    live,           \* subscriptions whose Lifetime is not done
    unsubscribed,   \* subscriptions for which Unsubscribe was called
    deviceLog,      \* what the device has been sent in this actor's name
    sends           \* messages sent by the hirer so far

subVars == <<created, subType, registered, live, unsubscribed>>
fireVars == <<fire, fireManager>>
deviceVars == <<deviceLog, sends>>
vars == <<contract, hiring, cancelled, manager, isConnected, shutdown, fireVars,
          subVars, deviceVars>>

TypeOK ==
    /\ contract \in 0..MaxHires
    /\ hiring \in BOOLEAN
    /\ cancelled \subseteq Managers
    /\ manager \in 0..MaxHires
    /\ isConnected \in BOOLEAN
    /\ shutdown \in {"running", "disconnected", "done"}
    /\ fire \in [Fires -> {"idle", "lock", "cancelAll", "done"}]
    /\ fireManager \in [Fires -> 0..MaxHires]
    /\ created \subseteq Subs
    /\ subType \in [Subs -> Types]
    /\ registered \subseteq Subs
    /\ live \subseteq Subs
    /\ unsubscribed \subseteq Subs
    /\ deviceLog \in Seq({"you-are-in", "fired", "message"})
    /\ sends \in 0..MaxSends

Init ==
    /\ contract = 0
    /\ hiring = FALSE
    /\ cancelled = {}
    /\ manager = 0
    /\ isConnected = TRUE
    /\ shutdown = "running"
    /\ fire = [f \in Fires |-> "idle"]
    /\ fireManager = [f \in Fires |-> 0]
    /\ created = {} /\ registered = {} /\ live = {} /\ unsubscribed = {}
    /\ subType = [s \in Subs |-> CHOOSE t \in Types : TRUE]
    /\ deviceLog = <<>>
    /\ sends = 0

----------------------------------------------------------------------------
\* contractMutex can be taken: Hire is the only holder that other goroutines
\* can observe, all other critical sections are one step.
ContractUnlocked == ~hiring

\* forceSend: FALSE when the device is gone, else the device gets the message.
ForceSend(m) == deviceLog' = IF isConnected THEN Append(deviceLog, m) ELSE deviceLog

\* Mutant: Hire does not check whether the actor is hired already.
HireBeginUnchecked ==
    /\ ContractUnlocked
    /\ manager < MaxHires
    /\ manager' = manager + 1
    /\ ForceSend("you-are-in")
    /\ hiring' = isConnected
    /\ UNCHANGED <<contract, cancelled, isConnected, shutdown, fireVars, subVars, sends>>

\* Hire up to the result of forceSend.  Without a connection it fails and
\* leaves the new, unused subscription manager behind.
HireBegin ==
    /\ ContractUnlocked
    /\ contract = 0
    /\ manager < MaxHires
    /\ manager' = manager + 1
    /\ ForceSend("you-are-in")
    /\ hiring' = isConnected
    /\ UNCHANGED <<contract, cancelled, isConnected, shutdown, fireVars, subVars, sends>>

\* The rest of Hire: the contract becomes valid, its goroutine waits.
HireCommit ==
    /\ hiring
    /\ contract' = manager
    /\ hiring' = FALSE
    /\ UNCHANGED <<cancelled, manager, isConnected, shutdown, fireVars, subVars, deviceVars>>

\* Contract.Cancel, by whoever was given the contract.
ContractCancel(k) ==
    /\ k \in Managers \ cancelled
    /\ k = contract
    /\ cancelled' = cancelled \cup {k}
    /\ UNCHANGED <<contract, hiring, manager, isConnected, shutdown, fireVars,
                   subVars, deviceVars>>

\* Mutant: the goroutine of a contract does not wait for its Context.
FireStartEarly(f) ==
    /\ fire[f] = "idle"
    /\ IF f \in Firers THEN manager # 0 ELSE contract = f
    /\ fire' = [fire EXCEPT ![f] = "lock"]
    /\ fireManager' = [fireManager EXCEPT ![f] = manager]
    /\ UNCHANGED <<contract, hiring, cancelled, manager, isConnected, shutdown,
                   subVars, deviceVars>>

\* fire() is entered: by a contract's goroutine once its Context is done, or by
\* FireAllActors.  The receiver of the deferred call is read before the lock.
FireStart(f) ==
    /\ fire[f] = "idle"
    /\ IF f \in Firers THEN manager # 0 ELSE f \in cancelled
    /\ fire' = [fire EXCEPT ![f] = "lock"]
    /\ fireManager' = [fireManager EXCEPT ![f] = manager]
    /\ UNCHANGED <<contract, hiring, cancelled, manager, isConnected, shutdown,
                   subVars, deviceVars>>

\* Mutant: the subscriptions are not cancelled.
FireLockedKeepsSubscriptions(f) ==
    /\ fire[f] = "lock"
    /\ ContractUnlocked
    /\ contract # 0 => ForceSend("fired")
    /\ contract = 0 => UNCHANGED deviceLog
    /\ cancelled' = cancelled \cup ({contract} \ {0})
    /\ contract' = 0
    /\ fire' = [fire EXCEPT ![f] = "done"]
    /\ UNCHANGED <<hiring, manager, isConnected, shutdown, fireManager, subVars, sends>>

\* Mutant: fire() does not tell the device.
FireLockedSilently(f) ==
    /\ fire[f] = "lock"
    /\ ContractUnlocked
    /\ cancelled' = cancelled \cup ({contract} \ {0})
    /\ contract' = 0
    /\ fire' = [fire EXCEPT ![f] = "cancelAll"]
    /\ UNCHANGED <<hiring, manager, isConnected, shutdown, fireManager, subVars, deviceVars>>

\* The locked part of fire(): it ends whatever contract is valid now.
FireLocked(f) ==
    /\ fire[f] = "lock"
    /\ ContractUnlocked
    /\ IF contract = 0
       THEN UNCHANGED <<cancelled, contract, deviceLog>>
       ELSE /\ ForceSend("fired")
            /\ cancelled' = cancelled \cup {contract}
            /\ contract' = 0
    /\ fire' = [fire EXCEPT ![f] = "cancelAll"]
    /\ UNCHANGED <<hiring, manager, isConnected, shutdown, fireManager, subVars, sends>>

\* The deferred CancelAllSubscriptions.
FireCancelAll(f) ==
    LET gone == {s \in registered : s[1] = fireManager[f]} IN
    /\ fire[f] = "cancelAll"
    /\ registered' = registered \ gone
    /\ live' = live \ gone
    /\ fire' = [fire EXCEPT ![f] = "done"]
    /\ UNCHANGED <<contract, hiring, cancelled, manager, isConnected, shutdown,
                   fireManager, created, subType, unsubscribed, deviceVars>>

----------------------------------------------------------------------------
\* Send: refused unless the actor is hired, lost when the device is gone.
Send ==
    /\ ContractUnlocked
    /\ contract # 0
    /\ sends < MaxSends
    /\ sends' = sends + 1
    /\ ForceSend("message")
    /\ UNCHANGED <<contract, hiring, cancelled, manager, isConnected, shutdown,
                   fireVars, subVars>>

\* A handler that was started after a Hire subscribes; nothing stops it from
\* doing so after its contract has ended.
SubscribeMessageType(s, t) ==
    /\ contract # 0 \/ cancelled # {}
    /\ manager # 0 /\ s[1] = manager
    /\ s \in Subs \ created
    /\ \A n \in 1..(s[2] - 1) : <<manager, n>> \in created
    /\ created' = created \cup {s}
    /\ registered' = registered \cup {s}
    /\ live' = live \cup {s}
    /\ subType' = [subType EXCEPT ![s] = t]
    /\ UNCHANGED <<contract, hiring, cancelled, manager, isConnected, shutdown,
                   fireVars, unsubscribed, deviceVars>>

\* Unsubscribe ends the Lifetime of s and then has the CURRENT manager remove
\* the subscription that has the token and the type of s.
Unsubscribe(s) ==
    LET removed == <<manager, s[2]>> IN
    /\ s \in created \ unsubscribed
    /\ unsubscribed' = unsubscribed \cup {s}
    /\ live' = live \ {s}
    /\ registered' = IF removed \in registered /\ subType[removed] = subType[s]
                     THEN registered \ {removed} ELSE registered
    /\ UNCHANGED <<contract, hiring, cancelled, manager, isConnected, shutdown,
                   fireVars, created, subType, deviceVars>>

----------------------------------------------------------------------------
(* netActorDevice.shutdown: disconnect the actor, then cancel its contract. *)

ShutdownDisconnect ==
    /\ shutdown = "running"
    /\ isConnected' = FALSE
    /\ shutdown' = "disconnected"
    /\ UNCHANGED <<contract, hiring, cancelled, manager, fireVars, subVars, deviceVars>>

\* Mutant: the contract is read without contractMutex.
ShutdownCancelUnlocked ==
    /\ shutdown = "disconnected"
    /\ cancelled' = cancelled \cup ({contract} \ {0})
    /\ shutdown' = "done"
    /\ UNCHANGED <<contract, hiring, manager, isConnected, fireVars, subVars, deviceVars>>

ShutdownCancel ==
    /\ shutdown = "disconnected"
    /\ ContractUnlocked
    /\ cancelled' = cancelled \cup ({contract} \ {0})
    /\ shutdown' = "done"
    /\ UNCHANGED <<contract, hiring, manager, isConnected, fireVars, subVars, deviceVars>>

Next ==
    \/ HireBegin \/ HireCommit
    \/ \E k \in Managers : ContractCancel(k)
    \/ \E f \in Fires : FireStart(f) \/ FireLocked(f) \/ FireCancelAll(f)
    \/ Send
    \/ \E s \in Subs, t \in Types : SubscribeMessageType(s, t)
    \/ \E s \in Subs : Unsubscribe(s)
    \/ ShutdownDisconnect \/ ShutdownCancel

Spec == Init /\ [][Next]_vars

(* Goroutines that are running finish; nobody promises to hire, cancel,      *)
(* subscribe, unsubscribe, or to disconnect.                                *)
Fairness ==
    /\ WF_vars(HireCommit)
    /\ WF_vars(ShutdownCancel)
    /\ \A k \in Managers : WF_vars(FireStart(k))
    /\ \A f \in Fires : WF_vars(FireLocked(f)) /\ WF_vars(FireCancelAll(f))

FairSpec == Spec /\ Fairness

----------------------------------------------------------------------------
(* Properties. *)

\* "Assure that the actor is fired because it's easy to forget firing him":
\* once shutdown is past the actor, a contract that is still valid has been
\* cancelled, also when Hire was under way while the device disconnected.
DisconnectedIsCancelled ==
    shutdown = "done" => ~hiring /\ (contract # 0 => contract \in cancelled)

\* The device sees well-formed engagements: you-are-in first and never twice in
\* a row, and neither messages nor fired outside of an engagement.
DeviceSeesEngagements ==
    \A i \in 1..Len(deviceLog) :
        IF i = 1 \/ deviceLog[i - 1] = "fired"
        THEN deviceLog[i] = "you-are-in"
        ELSE deviceLog[i] # "you-are-in"

\* The device believes that its actor is hired.
Engaged == deviceLog # <<>> /\ deviceLog[Len(deviceLog)] # "fired"

\* While the device is connected, what it believes is what the server believes.
DeviceAgrees == isConnected => (Engaged <=> (contract # 0 \/ hiring))

\* "You must call the given fire-func when no longer needed!" (Hire): a
\* contract ends because it was cancelled or because someone fires the actor.
ContractEndsOnRequest ==
    [][contract # 0 /\ contract' = 0
         => \/ contract \in cancelled
            \/ \E f \in Firers : fire[f] = "lock" /\ fire'[f] # "lock"]_vars

\* An end is complete. After a disconnect the actor is fired and stays fired,
\* whoever was hiring. "We do not need to unsubscribe because this will be done
\* when the actor is fired" (device management): a subscription that a handler
\* has when its contract is cancelled is removed, also when the actor is hired
\* again at once.
EndIsComplete ==
    /\ shutdown = "disconnected" ~> [](contract = 0)
    /\ \A s \in Subs : s \in registered /\ contract = s[1] /\ contract \in cancelled
                       ~> s \notin registered
=============================================================================
