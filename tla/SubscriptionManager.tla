------------------------ MODULE SubscriptionManager ------------------------
(***************************************************************************)
(* acting/subscriptions.go: the SubscriptionManager of one hired actor, the *)
(* forwarder goroutine of every newsletter, and the goroutines that call    *)
(* in: the device's incoming router (HandleMessage), handlers that          *)
(* subscribe and unsubscribe, and fire(), which cancels all subscriptions.  *)
(*                                                                         *)
(* subscriptionsMutex is a Go RWMutex.  A Lock() that has been announced    *)
(* and waits for the readers to leave keeps new readers out, so the lock is *)
(* modelled by its announced writer and by the only reader that holds it    *)
(* across steps, the router.  Critical sections without a blocking          *)
(* operation are one step.                                                 *)
(***************************************************************************)
EXTENDS Naturals, Sequences, FiniteSets

CONSTANTS
    Types,           \* message types
    Cancellers,      \* concurrent calls of CancelAllSubscriptions
    Owner,           \* the goroutine that holds a newsletter and unsubscribes it
    MaxTokens,       \* bound: subscriptions created in one lifetime
    MaxMessages      \* bound: messages handled in one lifetime

ASSUME ConstantsAssumption ==
    /\ Types # {}
    /\ MaxTokens \in Nat
    /\ MaxMessages \in Nat
    /\ Owner \notin Cancellers

Tokens == 1..MaxTokens
Messages == 1..MaxMessages
Callers == Cancellers \cup {Owner}

\* Filler for a type that nobody has set yet.
NoType == CHOOSE t \in Types : TRUE
NoMessage == [type |-> NoType, wellFormed |-> TRUE]

VARIABLES
    subscriptionCounter,
    subscriptionsByToken,        \* the tokens that are keys of the map
    subscriptionsByMessageType,  \* [Types -> Seq(Tokens)], an absent key is <<>>
    messageType,                 \* sub.messageType of every token handed out
    alive,                       \* tokens whose Lifetime is not done
    lockWaiter,                  \* the writer that announced Lock(), or {}
    reading,                     \* is the router in HandleMessage, with the read lock?
    message,                     \* the message it handles
    pos,                         \* its position in the list of subscribers
    forwards,                    \* how many of them took the message
    handled,                     \* messages taken in so far
    refused,                     \* messages answered with "forbidden"
    forwarder,                   \* the goroutine of each newsletter
    held,                        \* the message a forwarder offers to its consumer
    consumer,                    \* does someone still read the newsletter?
    delivered,                   \* history: what each consumer has read
    unsubscribe,                 \* calls of Unsubscribe, by caller and token
    canceller                    \* calls of CancelAllSubscriptions

vars == <<subscriptionCounter, subscriptionsByToken, subscriptionsByMessageType,
          messageType, alive, lockWaiter, reading, message, pos, forwards, handled,
          refused, forwarder, held, consumer, delivered, unsubscribe, canceller>>

indexVars == <<subscriptionCounter, subscriptionsByToken,
               subscriptionsByMessageType, messageType>>
routerVars == <<reading, message, pos, forwards, handled, refused>>
forwarderVars == <<forwarder, held, consumer, delivered>>

----------------------------------------------------------------------------
(* The lock. *)

\* The operations that take the write lock.
Subscriber(t) == <<"subscribe", t, 0>>
Remover(by, tok) == <<"remove", by, tok>>
CancelAll(c) == <<"cancelAll", c, 0>>

Writers == {Subscriber(t) : t \in Types}
           \cup {Remover(by, tok) : by \in Callers, tok \in Tokens}
           \cup {CancelAll(c) : c \in Cancellers}

\* RLock() succeeds unless a writer has been announced.
RLockFree == lockWaiter = {}

\* Lock() is announced by one writer at a time ...
AnnounceLock(w) == lockWaiter = {} /\ lockWaiter' = {w}

\* ... and granted once the readers have left.
LockGranted(w) == lockWaiter = {w} /\ ~reading

Unlock == lockWaiter' = {}

----------------------------------------------------------------------------
TypeOK ==
    /\ subscriptionCounter \in 0..MaxTokens
    /\ subscriptionsByToken \subseteq Tokens
    /\ subscriptionsByMessageType \in [Types -> Seq(Tokens)]
    /\ messageType \in [Tokens -> Types]
    /\ alive \subseteq Tokens
    /\ lockWaiter = {} \/ \E w \in Writers : lockWaiter = {w}
    /\ reading \in BOOLEAN
    /\ message \in [type: Types, wellFormed: BOOLEAN]
    /\ pos \in Nat \ {0}
    /\ forwards \in Nat
    /\ handled \in 0..MaxMessages
    /\ refused \subseteq Messages
    /\ forwarder \in [Tokens -> {"none", "receiving", "holding", "closed"}]
    /\ held \in [Tokens -> 0..MaxMessages]
    /\ consumer \in [Tokens -> {"reading", "stopped"}]
    /\ delivered \in [Tokens -> Seq(Messages)]
    /\ unsubscribe \in [Callers \X Tokens ->
                        {"idle", "shutdown", "lock", "ok", "unknown", "corrupt"}]
    /\ canceller \in [Cancellers -> {"idle", "lock", "wait", "done"}]

Init ==
    /\ subscriptionCounter = 0
    /\ subscriptionsByToken = {}
    /\ subscriptionsByMessageType = [t \in Types |-> <<>>]
    /\ messageType = [tok \in Tokens |-> NoType]
    /\ alive = {}
    /\ lockWaiter = {}
    /\ reading = FALSE
    /\ message = NoMessage
    /\ pos = 1
    /\ forwards = 0
    /\ handled = 0
    /\ refused = {}
    /\ forwarder = [tok \in Tokens |-> "none"]
    /\ held = [tok \in Tokens |-> 0]
    /\ consumer = [tok \in Tokens |-> "reading"]
    /\ delivered = [tok \in Tokens |-> <<>>]
    /\ unsubscribe = [u \in Callers \X Tokens |-> "idle"]
    /\ canceller = [c \in Cancellers |-> "idle"]

----------------------------------------------------------------------------
(* SubscribeMessageType: Lock, take the next token, enter it in both        *)
(* indexes; the helper that called then starts the newsletter's forwarder.  *)

SubscribeLock(t) ==
    /\ subscriptionCounter < MaxTokens
    /\ AnnounceLock(Subscriber(t))
    /\ UNCHANGED <<indexVars, alive, routerVars, forwarderVars, unsubscribe, canceller>>

\* Mutant: the second subscription is given the token of the first.
ReusedToken == IF subscriptionCounter <= 1 THEN 1 ELSE subscriptionCounter + 1

NextToken == subscriptionCounter + 1

SubscribeMessageType(t) ==
    LET tok == NextToken IN
    /\ LockGranted(Subscriber(t))
    /\ subscriptionCounter' = subscriptionCounter + 1
    /\ subscriptionsByToken' = subscriptionsByToken \cup {tok}
    /\ subscriptionsByMessageType' =
         [subscriptionsByMessageType EXCEPT ![t] = Append(@, tok)]
    /\ messageType' = [messageType EXCEPT ![tok] = t]
    /\ alive' = alive \cup {tok}
    /\ forwarder' = [forwarder EXCEPT ![tok] = "receiving"]
    /\ Unlock
    /\ UNCHANGED <<routerVars, held, consumer, delivered, unsubscribe, canceller>>

----------------------------------------------------------------------------
(* HandleMessage, called by the device's incoming router through            *)
(* netActor.handleIncomingMessage.  The read lock is held for the whole     *)
(* loop, and a subscriber is offered the message until it takes it or its   *)
(* Lifetime is done.                                                       *)

HandleMessage(t, wellFormed) ==
    /\ ~reading
    /\ handled < MaxMessages
    /\ RLockFree
    /\ handled' = handled + 1
    /\ reading' = TRUE
    /\ message' = [type |-> t, wellFormed |-> wellFormed]
    /\ UNCHANGED <<indexVars, alive, lockWaiter, pos, forwards, refused, forwarderVars,
                   unsubscribe, canceller>>

\* The router has reached tok in the list of the message's type.
Offering(tok) ==
    LET subs == subscriptionsByMessageType[message.type] IN
    /\ reading
    /\ pos <= Len(subs)
    /\ subs[pos] = tok

\* The forwarder decodes what it takes and offers it to its consumer; content
\* that it cannot decode is dropped.
ForwarderTakes(tok) ==
    IF message.wellFormed
    THEN /\ forwarder' = [forwarder EXCEPT ![tok] = "holding"]
         /\ held' = [held EXCEPT ![tok] = handled]
    ELSE UNCHANGED <<forwarder, held>>

\* Mutant: the same subscriber is offered the message once more.
ForwardTwice(tok) ==
    /\ Offering(tok)
    /\ forwarder[tok] = "receiving"
    /\ forwards' = forwards + 1
    /\ ForwarderTakes(tok)
    /\ UNCHANGED <<indexVars, alive, lockWaiter, reading, message, pos, handled,
                   refused, consumer, delivered, unsubscribe, canceller>>

\* Mutant: the forward is not counted.
ForwardUncounted(tok) ==
    /\ Offering(tok)
    /\ forwarder[tok] = "receiving"
    /\ pos' = pos + 1
    /\ ForwarderTakes(tok)
    /\ UNCHANGED <<indexVars, alive, lockWaiter, reading, message, forwards, handled,
                   refused, consumer, delivered, unsubscribe, canceller>>

\* case s.out <- message.Content: the forwarder is at its receive.
Forward(tok) ==
    /\ Offering(tok)
    /\ forwarder[tok] = "receiving"
    /\ pos' = pos + 1
    /\ forwards' = forwards + 1
    /\ ForwarderTakes(tok)
    /\ UNCHANGED <<indexVars, alive, lockWaiter, reading, message, handled,
                   refused, consumer, delivered, unsubscribe, canceller>>

\* Mutant: the loop does not look at the Lifetime.
DropNever(tok) == Offering(tok) /\ FALSE /\ UNCHANGED vars

\* case <-s.Lifetime.Done(): the message is dropped for this subscriber.
Drop(tok) ==
    /\ Offering(tok)
    /\ tok \notin alive
    /\ pos' = pos + 1
    /\ UNCHANGED <<indexVars, alive, lockWaiter, reading, message, forwards, handled,
                   refused, forwarderVars, unsubscribe, canceller>>

\* The loop is over: RUnlock.  Nobody took the message: "forbidden".
HandleMessageReturn ==
    /\ reading
    /\ pos > Len(subscriptionsByMessageType[message.type])
    /\ reading' = FALSE
    /\ message' = NoMessage
    /\ pos' = 1
    /\ forwards' = 0
    /\ refused' = IF forwards = 0 THEN refused \cup {handled} ELSE refused
    /\ UNCHANGED <<indexVars, alive, lockWaiter, handled, forwarderVars,
                   unsubscribe, canceller>>

----------------------------------------------------------------------------
(* The forwarder goroutine that every Subscribe... helper starts.           *)

\* case cc <- m: the consumer reads the message.
ForwarderDeliver(tok) ==
    /\ forwarder[tok] = "holding"
    /\ consumer[tok] = "reading"
    /\ delivered' = [delivered EXCEPT ![tok] = Append(@, held[tok])]
    /\ forwarder' = [forwarder EXCEPT ![tok] = "receiving"]
    /\ UNCHANGED <<indexVars, alive, lockWaiter, routerVars, held, consumer,
                   unsubscribe, canceller>>

\* case <-Lifetime.Done(), in either select: close(cc).
ForwarderClose(tok) ==
    /\ forwarder[tok] \in {"receiving", "holding"}
    /\ tok \notin alive
    /\ forwarder' = [forwarder EXCEPT ![tok] = "closed"]
    /\ UNCHANGED <<indexVars, alive, lockWaiter, routerVars, held, consumer,
                   delivered, unsubscribe, canceller>>

----------------------------------------------------------------------------
(* Unsubscribe: end the Lifetime under the read lock, then remove the       *)
(* subscription from both indexes under the write lock.                    *)

\* The owner of a newsletter leaves its receive loop ...
OwnerStops(tok) ==
    /\ tok <= subscriptionCounter
    /\ consumer[tok] = "reading"
    /\ consumer' = [consumer EXCEPT ![tok] = "stopped"]
    /\ UNCHANGED <<indexVars, alive, lockWaiter, routerVars, forwarder, held,
                   delivered, unsubscribe, canceller>>

\* ... and calls Unsubscribe once, later or never: what it does in between may
\* take its time, and some ways out of a loop forget the call.
OwnerUnsubscribe(tok) ==
    /\ tok <= subscriptionCounter /\ consumer[tok] = "stopped"
    /\ unsubscribe[<<Owner, tok>>] = "idle"
    /\ unsubscribe' = [unsubscribe EXCEPT ![<<Owner, tok>>] = "shutdown"]
    /\ UNCHANGED <<indexVars, alive, lockWaiter, routerVars, forwarderVars, canceller>>

\* Mutant: the Lifetime is never ended.
UnsubscribeNoShutdown(by, tok) ==
    /\ unsubscribe[<<by, tok>>] = "shutdown"
    /\ RLockFree
    /\ unsubscribe' = [unsubscribe EXCEPT ![<<by, tok>>] = "lock"]
    /\ UNCHANGED <<indexVars, alive, lockWaiter, routerVars, forwarderVars, canceller>>

UnsubscribeShutdown(by, tok) ==
    /\ unsubscribe[<<by, tok>>] = "shutdown"
    /\ RLockFree
    /\ alive' = alive \ {tok}
    /\ unsubscribe' = [unsubscribe EXCEPT ![<<by, tok>>] = "lock"]
    /\ UNCHANGED <<indexVars, lockWaiter, routerVars, forwarderVars, canceller>>

UnsubscribeLock(by, tok) ==
    /\ unsubscribe[<<by, tok>>] = "lock"
    /\ AnnounceLock(Remover(by, tok))
    /\ UNCHANGED <<indexVars, alive, routerVars, forwarderVars, unsubscribe, canceller>>

\* Mutant: the slice is shortened without moving its last element.
CutLast(subs, p) == [i \in 1..(Len(subs) - 1) |-> subs[i]]

\* subs[p] = subs[len(subs)-1]; subs[:len(subs)-1]
SwapRemove(subs, p) ==
    [i \in 1..(Len(subs) - 1) |-> IF i = p THEN subs[Len(subs)] ELSE subs[i]]

Position(subs, tok) == {i \in DOMAIN subs : subs[i] = tok}

UnsubscribeRemove(by, tok) ==
    LET t == messageType[tok]
        subs == subscriptionsByMessageType[t]
        found == Position(subs, tok)
        result == IF tok \notin subscriptionsByToken THEN "unknown"
                  ELSE IF found = {} THEN "corrupt"
                  ELSE "ok"
    IN
    /\ LockGranted(Remover(by, tok))
    /\ unsubscribe' = [unsubscribe EXCEPT ![<<by, tok>>] = result]
    /\ IF result = "ok"
       THEN /\ \E p \in found :
                 /\ \A i \in found : p <= i
                 /\ subscriptionsByMessageType' =
                      [subscriptionsByMessageType EXCEPT ![t] = SwapRemove(subs, p)]
            /\ subscriptionsByToken' = subscriptionsByToken \ {tok}
       ELSE UNCHANGED <<subscriptionsByMessageType, subscriptionsByToken>>
    /\ Unlock
    /\ UNCHANGED <<subscriptionCounter, messageType, alive, routerVars,
                   forwarderVars, canceller>>

----------------------------------------------------------------------------
(* CancelAllSubscriptions: one Unsubscribe goroutine per known token, and   *)
(* wait for all of them.                                                   *)

CancelAllLock(c) ==
    /\ canceller[c] = "idle"
    /\ AnnounceLock(CancelAll(c))
    /\ canceller' = [canceller EXCEPT ![c] = "lock"]
    /\ UNCHANGED <<indexVars, alive, routerVars, forwarderVars, unsubscribe>>

CancelAllSpawn(c) ==
    /\ LockGranted(CancelAll(c))
    /\ unsubscribe' = [u \in Callers \X Tokens |->
                         IF u[1] = c /\ u[2] \in subscriptionsByToken
                         THEN "shutdown" ELSE unsubscribe[u]]
    /\ canceller' = [canceller EXCEPT ![c] = "wait"]
    /\ Unlock
    /\ UNCHANGED <<indexVars, alive, routerVars, forwarderVars>>

Returned == {"ok", "unknown", "corrupt"}

\* Mutant: CancelAllSubscriptions does not wait for its goroutines.
CancelAllReturnAtOnce(c) ==
    /\ canceller[c] = "wait"
    /\ canceller' = [canceller EXCEPT ![c] = "done"]
    /\ UNCHANGED <<indexVars, alive, lockWaiter, routerVars, forwarderVars, unsubscribe>>

CancelAllReturn(c) ==
    /\ canceller[c] = "wait"
    /\ \A tok \in Tokens : unsubscribe[<<c, tok>>] \in Returned \cup {"idle"}
    /\ canceller' = [canceller EXCEPT ![c] = "done"]
    /\ UNCHANGED <<indexVars, alive, lockWaiter, routerVars, forwarderVars, unsubscribe>>

----------------------------------------------------------------------------
\* Everything that the bounds allow has happened and every goroutine is done.
Terminated ==
    /\ subscriptionCounter = MaxTokens
    /\ handled = MaxMessages
    /\ ~reading
    /\ lockWaiter = {}
    /\ \A tok \in Tokens : /\ forwarder[tok] = "closed"
                           /\ unsubscribe[<<Owner, tok>>] \in Returned
    /\ \A c \in Cancellers : canceller[c] = "done"
    /\ UNCHANGED vars

Next ==
    \/ \E t \in Types : SubscribeLock(t) \/ SubscribeMessageType(t)
    \/ \E t \in Types, wellFormed \in BOOLEAN : HandleMessage(t, wellFormed)
    \/ HandleMessageReturn
    \/ \E tok \in Tokens : \/ Forward(tok) \/ Drop(tok)
                           \/ ForwarderDeliver(tok) \/ ForwarderClose(tok)
                           \/ OwnerStops(tok) \/ OwnerUnsubscribe(tok)
    \/ \E by \in Callers, tok \in Tokens : \/ UnsubscribeShutdown(by, tok)
                                           \/ UnsubscribeLock(by, tok)
                                           \/ UnsubscribeRemove(by, tok)
    \/ \E c \in Cancellers : CancelAllLock(c) \/ CancelAllSpawn(c) \/ CancelAllReturn(c)
    \/ Terminated

Spec == Init /\ [][Next]_vars

(* Every goroutine that can take its next step eventually takes it.  That   *)
(* somebody subscribes, unsubscribes or sends a message is not promised.    *)
Fairness ==
    /\ WF_vars(\E t \in Types : SubscribeMessageType(t))
    /\ WF_vars(HandleMessageReturn)
    /\ \A tok \in Tokens : /\ WF_vars(Forward(tok) \/ Drop(tok))
                           /\ WF_vars(ForwarderDeliver(tok) \/ ForwarderClose(tok))
    /\ \A by \in Callers, tok \in Tokens :
         /\ WF_vars(UnsubscribeShutdown(by, tok))
         /\ WF_vars(UnsubscribeLock(by, tok))
         /\ WF_vars(UnsubscribeRemove(by, tok))
    /\ \A c \in Cancellers : WF_vars(CancelAllSpawn(c)) /\ WF_vars(CancelAllReturn(c))

FairSpec == Spec /\ Fairness

----------------------------------------------------------------------------
(* Properties. *)

Elements(subs) == {subs[i] : i \in DOMAIN subs}

Distinct(subs) == \A i, j \in DOMAIN subs : subs[i] = subs[j] => i = j

\* The two indexes describe the same subscriptions: the list of a message type
\* holds every registered token of that type exactly once, whatever order
\* Subscribe and the swap-removal of Unsubscribe ran in.
IndexesAgree ==
    \A t \in Types :
        /\ Distinct(subscriptionsByMessageType[t])
        /\ Elements(subscriptionsByMessageType[t])
             = {tok \in subscriptionsByToken : messageType[tok] = t}

\* The two branches of Unsubscribe that the code marks "LOL" and "WHAT?"
\* (token known but missing in the list of its type) are never taken.
NeverCorrupt == \A u \in Callers \X Tokens : unsubscribe[u] # "corrupt"

\* A subscription is removed by exactly one of the Unsubscribe calls that race
\* for it (its owner and every CancelAllSubscriptions); the others get an error.
RemovedOnce ==
    \A tok \in 1..subscriptionCounter :
        /\ \A b1, b2 \in Callers :
             unsubscribe[<<b1, tok>>] = "ok" /\ unsubscribe[<<b2, tok>>] = "ok" => b1 = b2
        /\ tok \notin subscriptionsByToken
             => \E by \in Callers : unsubscribe[<<by, tok>>] = "ok"

\* A subscription that is not registered anymore has a Lifetime that is done, so
\* its forwarder can end and no reader is left waiting.
RemovedIsDone ==
    \A tok \in 1..subscriptionCounter : tok \notin subscriptionsByToken => tok \notin alive

\* Once Unsubscribe has removed a subscription, its forwarder takes no further
\* message from HandleMessage; at most the one it already holds is delivered.
NoForwardAfterRemoval ==
    [][\A tok \in Tokens :
         forwarder[tok] = "receiving" /\ forwarder'[tok] = "holding"
           => tok \in subscriptionsByToken]_vars

\* Every subscriber reads messages in the order in which they were handled and
\* none of them twice.
DeliveredInOrder ==
    \A tok \in Tokens : \A i, j \in DOMAIN delivered[tok] :
        i < j => delivered[tok][i] < delivered[tok][j]

\* A message that was answered with "forbidden" because HandleMessage counted
\* no forward never reaches a consumer.
RefusedIsNeverDelivered ==
    \A tok \in Tokens :
        /\ Elements(delivered[tok]) \cap refused = {}
        /\ forwarder[tok] = "holding" => held[tok] \notin refused

\* When CancelAllSubscriptions returns, every subscription it found registered
\* is gone from the index and its Lifetime is done.
CancelAllCancels ==
    \A c \in Cancellers : canceller[c] = "done" =>
        \A tok \in Tokens : unsubscribe[<<c, tok>>] # "idle" =>
            tok \notin subscriptionsByToken /\ tok \notin alive

\* HandleMessage waits for a subscriber that has stopped reading, and a writer
\* waits for HandleMessage: the RLock of Unsubscribe waits for that writer and
\* the Lifetime never ends, against "Set subscription to inactive and then
\* allowing a potential receiving abort" (Unsubscribe).
Stuck ==
    /\ lockWaiter # {}
    /\ \E tok \in alive : Offering(tok) /\ forwarder[tok] = "holding" /\ consumer[tok] = "stopped"

\* HandleMessage waits for a subscriber that has stopped reading and has not
\* called Unsubscribe yet.
Abandoned ==
    \E tok \in alive :
        /\ Offering(tok) /\ forwarder[tok] = "holding"
        /\ consumer[tok] = "stopped" /\ unsubscribe[<<Owner, tok>>] = "idle"

\* HandleMessage returns, so the device's incoming router goes on, unless it is
\* stuck or waits for an owner's call; CancelAllSubscriptions returns, so fire()
\* and the shutdown of the device do, unless they are stuck: there is no other way
\* to wait for each other.
CallsReturn ==
    /\ reading ~> ~reading \/ Stuck \/ Abandoned
    /\ \A c \in Cancellers : canceller[c] = "lock" ~> canceller[c] = "done" \/ Stuck

\* After Unsubscribe has been called the newsletter's channel is closed, unless
\* HandleMessage is stuck.
NewsletterCloses ==
    \A by \in Callers, tok \in Tokens :
        unsubscribe[<<by, tok>>] = "shutdown" ~> forwarder[tok] = "closed" \/ Stuck

(* What subscribers and senders see: the message being handled, who has been *)
(* asked to take it, and the message that each newsletter has for its reader. *)
Current == IF reading THEN handled ELSE 0

Asked ==
    LET subs == subscriptionsByMessageType[message.type] IN
    {subs[p] : p \in {p \in DOMAIN subs : reading /\ p < pos}}

Holding == [tok \in Tokens |-> IF forwarder[tok] = "holding" THEN held[tok] ELSE 0]

Closed == {tok \in Tokens : forwarder[tok] = "closed"}

Newsletter == INSTANCE Newsletters WITH
    Subscriptions <- Tokens, used <- 1..subscriptionCounter, topic <- messageType,
    open <- subscriptionsByToken, live <- alive, closed <- Closed,
    current <- Current, about <- message.type, asked <- Asked, taken <- forwards > 0,
    holding <- Holding

\* The SubscriptionManager keeps the promise of Newsletters, although Lifetimes
\* end, and subscriptions are removed by swapping, while other calls are under
\* way: a message is offered once to each of its subscribers, read in order, and
\* refused only when nobody took it.
ImplementsNewsletters == Newsletter!Spec
=============================================================================
