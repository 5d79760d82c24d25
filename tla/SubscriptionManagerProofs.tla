--------------------- MODULE SubscriptionManagerProofs ---------------------
(***************************************************************************)
(* Proofs about SubscriptionManager, for every number of message types,     *)
(* callers, subscriptions and messages.  IInv is the inductive invariant:   *)
(* the properties of interest need what each goroutine knows between its    *)
(* two critical sections.  Then follow what subscribers get to read         *)
(* (Delivery), that Stuck is the only deadlock (WaitsInv), and that the     *)
(* module implements Newsletters.                                           *)
(***************************************************************************)
EXTENDS SubscriptionManager, TLAPS

\* Nothing is known of a token before it is handed out.
TokensHandedOut ==
    /\ subscriptionsByToken \subseteq 1..subscriptionCounter
    /\ alive \subseteq 1..subscriptionCounter
    /\ \A by \in Callers, tok \in Tokens :
         unsubscribe[<<by, tok>>] # "idle" => tok \in 1..subscriptionCounter

\* The announced writer is where its Lock() is.
WaiterAtLock ==
    /\ \A t \in Types : lockWaiter = {Subscriber(t)} => subscriptionCounter < MaxTokens
    /\ \A by \in Callers, tok \in Tokens :
         lockWaiter = {Remover(by, tok)} => unsubscribe[<<by, tok>>] = "lock"
    /\ \A c \in Cancellers : lockWaiter = {CancelAll(c)} => canceller[c] = "lock"

\* What a forwarder holds and what the router handles are messages.
HoldsMessage ==
    /\ reading => handled \in Messages
    /\ \A tok \in Tokens : forwarder[tok] = "holding" => held[tok] \in Messages

\* A call of Unsubscribe that is past its first critical section has ended the
\* Lifetime; one that has returned leaves the token unregistered.
CallProgress(by, tok) ==
    /\ unsubscribe[<<by, tok>>] \in {"lock", "ok", "unknown"} => tok \notin alive
    /\ unsubscribe[<<by, tok>>] \in {"ok", "unknown"} => tok \notin subscriptionsByToken
    /\ unsubscribe[<<by, tok>>] # "corrupt"

UnsubscribeProgress == \A by \in Callers, tok \in Tokens : CallProgress(by, tok)

\* CancelAllSubscriptions spawns its calls in its critical section and returns
\* when all of them have.
SpawnProgress(c, tok) ==
    /\ canceller[c] \in {"idle", "lock"} => unsubscribe[<<c, tok>>] = "idle"
    /\ canceller[c] = "done" => unsubscribe[<<c, tok>>] \in Returned \cup {"idle"}

CancelAllProgress == \A c \in Cancellers, tok \in Tokens : SpawnProgress(c, tok)

IInv ==
    /\ TypeOK
    /\ TokensHandedOut
    /\ WaiterAtLock
    /\ HoldsMessage
    /\ UnsubscribeProgress
    /\ CancelAllProgress
    /\ IndexesAgree
    /\ RemovedOnce

----------------------------------------------------------------------------
\* The filler for a type is a type.
LEMMA NoTypeIsType == NoType \in Types
BY ConstantsAssumption DEF ConstantsAssumption, NoType

\* Swap-removal from a list of tokens gives a list of tokens.
LEMMA SwapRemoveType ==
    ASSUME NEW subs \in Seq(Tokens), NEW p \in DOMAIN subs
    PROVE  SwapRemove(subs, p) \in Seq(Tokens)
<1>1. Len(subs) \in Nat /\ Len(subs) >= 1 /\ DOMAIN subs = 1..Len(subs)
  OBVIOUS
<1>2. SwapRemove(subs, p) \in [1..(Len(subs) - 1) -> Tokens]
  BY <1>1 DEF SwapRemove
<1> QED
  BY <1>1, <1>2

\* Appending a new token keeps a list free of duplicates and adds that token.
LEMMA AppendElements ==
    ASSUME NEW subs \in Seq(Tokens), NEW tok \in Tokens,
           Distinct(subs), tok \notin Elements(subs)
    PROVE  /\ Distinct(Append(subs, tok))
           /\ Elements(Append(subs, tok)) = Elements(subs) \cup {tok}
<1>1. /\ Len(subs) \in Nat /\ DOMAIN subs = 1..Len(subs)
      /\ DOMAIN Append(subs, tok) = 1..(Len(subs) + 1)
      /\ Append(subs, tok)[Len(subs) + 1] = tok
      /\ \A i \in 1..Len(subs) : Append(subs, tok)[i] = subs[i]
  OBVIOUS
<1>2. Distinct(Append(subs, tok))
  BY <1>1 DEF Distinct, Elements
<1>3. Elements(Append(subs, tok)) = Elements(subs) \cup {tok}
  BY <1>1 DEF Elements
<1> QED
  BY <1>2, <1>3

\* Swap-removal keeps a list free of duplicates and takes out exactly the
\* element at the position.
LEMMA SwapRemoveElements ==
    ASSUME NEW subs \in Seq(Tokens), NEW p \in DOMAIN subs, Distinct(subs)
    PROVE  /\ Distinct(SwapRemove(subs, p))
           /\ Elements(SwapRemove(subs, p)) = Elements(subs) \ {subs[p]}
<1> DEFINE n == Len(subs)
           rest == SwapRemove(subs, p)
<1>1. n \in Nat /\ n >= 1 /\ DOMAIN subs = 1..n /\ p \in 1..n
  OBVIOUS
<1>2. /\ DOMAIN rest = 1..(n - 1)
      /\ \A i \in 1..(n - 1) : rest[i] = IF i = p THEN subs[n] ELSE subs[i]
  BY DEF SwapRemove
<1> HIDE DEF n, rest
<1>3. Distinct(rest)
  BY <1>1, <1>2 DEF Distinct
<1>4. \A x \in Elements(rest) : x \in Elements(subs) \ {subs[p]}
  <2> SUFFICES ASSUME NEW i \in 1..(n - 1)
               PROVE  rest[i] \in Elements(subs) \ {subs[p]}
    BY <1>2 DEF Elements
  <2> QED
    BY <1>1, <1>2 DEF Distinct, Elements
<1>5. \A x \in Elements(subs) \ {subs[p]} : x \in Elements(rest)
  <2> SUFFICES ASSUME NEW i \in 1..n, i # p PROVE subs[i] \in Elements(rest)
    BY <1>1 DEF Elements
  <2>1. CASE i = n
    BY <1>1, <1>2, <2>1 DEF Elements
  <2>2. CASE i # n
    BY <1>1, <1>2, <2>2 DEF Elements
  <2> QED
    BY <2>1, <2>2
<1> QED
  BY <1>3, <1>4, <1>5 DEF rest

\* Every operation that locks is a writer.
LEMMA WriterTypes ==
    /\ \A t \in Types : Subscriber(t) \in Writers
    /\ \A by \in Callers, tok \in Tokens : Remover(by, tok) \in Writers
    /\ \A c \in Cancellers : CancelAll(c) \in Writers
BY DEF Writers

----------------------------------------------------------------------------
\* The initial state has the types that TypeOK gives it.
LEMMA TypeOKInit == Init => TypeOK
<1> SUFFICES ASSUME Init PROVE TypeOK
  OBVIOUS
<1> USE ConstantsAssumption, NoTypeIsType DEF Init, ConstantsAssumption
<1>1. message \in [type: Types, wellFormed: BOOLEAN]
  BY DEF NoMessage
<1>2. /\ subscriptionCounter \in 0..MaxTokens /\ subscriptionsByToken \subseteq Tokens
      /\ messageType \in [Tokens -> Types] /\ alive \subseteq Tokens
      /\ pos \in Nat \ {0} /\ forwards \in Nat /\ handled \in 0..MaxMessages
      /\ refused \subseteq Messages /\ held \in [Tokens -> 0..MaxMessages]
  OBVIOUS
<1>3. subscriptionsByMessageType \in [Types -> Seq(Tokens)]
  OBVIOUS
<1>4. delivered \in [Tokens -> Seq(Messages)]
  OBVIOUS
<1>5. /\ forwarder \in [Tokens -> {"none", "receiving", "holding", "closed"}]
      /\ consumer \in [Tokens -> {"reading", "stopped"}]
      /\ canceller \in [Cancellers -> {"idle", "lock", "wait", "done"}]
  OBVIOUS
<1>6. unsubscribe \in [Callers \X Tokens ->
                       {"idle", "shutdown", "lock", "ok", "unknown", "corrupt"}]
  OBVIOUS
<1>7. lockWaiter = {} /\ reading \in BOOLEAN
  OBVIOUS
<1> QED
  BY <1>1, <1>2, <1>3, <1>4, <1>5, <1>6, <1>7 DEF TypeOK

\* Every step of every goroutine keeps the types.
LEMMA TypeOKNext == IInv /\ [Next]_vars => TypeOK'
<1> SUFFICES ASSUME IInv, [Next]_vars PROVE TypeOK'
  OBVIOUS
<1> USE ConstantsAssumption
        DEF ConstantsAssumption, IInv, TypeOK, indexVars, routerVars, forwarderVars
<1>1. ASSUME NEW t \in Types, SubscribeLock(t) PROVE TypeOK'
  BY <1>1, WriterTypes DEF SubscribeLock, AnnounceLock
<1>2. ASSUME NEW t \in Types, SubscribeMessageType(t) PROVE TypeOK'
  <2>1. subscriptionCounter + 1 \in Tokens
    BY <1>2 DEF SubscribeMessageType, LockGranted, WaiterAtLock, Tokens
  <2>2. subscriptionsByMessageType' \in [Types -> Seq(Tokens)]
    BY <1>2, <2>1 DEF SubscribeMessageType, NextToken
  <2>3. /\ subscriptionCounter' \in 0..MaxTokens
        /\ messageType' \in [Tokens -> Types]
        /\ forwarder' \in [Tokens -> {"none", "receiving", "holding", "closed"}]
    BY <1>2, <2>1 DEF SubscribeMessageType, NextToken, Tokens
  <2>4. subscriptionsByToken' \subseteq Tokens /\ alive' \subseteq Tokens /\ lockWaiter' = {}
    BY <1>2, <2>1 DEF SubscribeMessageType, NextToken, Unlock
  <2> QED
    BY <1>2, <2>2, <2>3, <2>4 DEF SubscribeMessageType
<1>3. ASSUME NEW t \in Types, NEW wellFormed \in BOOLEAN, HandleMessage(t, wellFormed)
      PROVE TypeOK'
  BY <1>3 DEF HandleMessage
<1>4. CASE HandleMessageReturn
  <2>1. message' \in [type: Types, wellFormed: BOOLEAN]
    BY <1>4, NoTypeIsType DEF HandleMessageReturn, NoMessage
  <2>2. refused' \subseteq Messages
    BY <1>4 DEF HandleMessageReturn, HoldsMessage
  <2>3. reading' \in BOOLEAN
    BY <1>4 DEF HandleMessageReturn
  <2> QED
    BY <1>4, <2>1, <2>2, <2>3 DEF HandleMessageReturn
<1>5. ASSUME NEW tok \in Tokens, Forward(tok) PROVE TypeOK'
  <2>1. CASE message.wellFormed
    <3>1. /\ forwarder' \in [Tokens -> {"none", "receiving", "holding", "closed"}]
          /\ held' \in [Tokens -> 0..MaxMessages]
      <4>1. /\ forwarder' = [forwarder EXCEPT ![tok] = "holding"]
            /\ held' = [held EXCEPT ![tok] = handled]
        BY <1>5, <2>1, Zenon DEF Forward, ForwarderTakes
      <4> QED
        BY <4>1
    <3>2. pos' \in Nat \ {0} /\ forwards' \in Nat
      BY <1>5 DEF Forward
    <3> QED
      BY <1>5, <3>1, <3>2 DEF Forward
  <2>2. CASE ~message.wellFormed
    BY <1>5, <2>2 DEF Forward, ForwarderTakes
  <2> QED
    BY <2>1, <2>2
<1>6. ASSUME NEW tok \in Tokens, Drop(tok) PROVE TypeOK'
  BY <1>6 DEF Drop
<1>7. ASSUME NEW tok \in Tokens, ForwarderDeliver(tok) PROVE TypeOK'
  BY <1>7 DEF ForwarderDeliver, HoldsMessage
<1>8. ASSUME NEW tok \in Tokens, ForwarderClose(tok) PROVE TypeOK'
  BY <1>8 DEF ForwarderClose
<1>9. ASSUME NEW tok \in Tokens, OwnerStops(tok) \/ OwnerUnsubscribe(tok) PROVE TypeOK'
  BY <1>9 DEF OwnerStops, OwnerUnsubscribe
<1>10. ASSUME NEW by \in Callers, NEW tok \in Tokens, UnsubscribeShutdown(by, tok)
       PROVE TypeOK'
  BY <1>10 DEF UnsubscribeShutdown
<1>11. ASSUME NEW by \in Callers, NEW tok \in Tokens, UnsubscribeLock(by, tok)
       PROVE TypeOK'
  BY <1>11, WriterTypes DEF UnsubscribeLock, AnnounceLock
<1>12. ASSUME NEW by \in Callers, NEW tok \in Tokens, UnsubscribeRemove(by, tok)
       PROVE TypeOK'
  <2>1. subscriptionsByMessageType' \in [Types -> Seq(Tokens)]
    <3> DEFINE t == messageType[tok]
               subs == subscriptionsByMessageType[t]
               found == Position(subs, tok)
    <3>1. t \in Types /\ subs \in Seq(Tokens)
      OBVIOUS
    <3>2. CASE \E p \in found : subscriptionsByMessageType' =
                 [subscriptionsByMessageType EXCEPT ![t] = SwapRemove(subs, p)]
      <4>1. PICK p \in found : subscriptionsByMessageType' =
                 [subscriptionsByMessageType EXCEPT ![t] = SwapRemove(subs, p)]
        BY <3>2
      <4>2. SwapRemove(subs, p) \in Seq(Tokens)
        BY <3>1, SwapRemoveType DEF Position
      <4> HIDE DEF subs, t
      <4> QED
        BY <3>1, <4>1, <4>2
    <3>3. CASE UNCHANGED subscriptionsByMessageType
      BY <3>3
    <3> QED
      BY <1>12, <3>2, <3>3 DEF UnsubscribeRemove
  <2>2. subscriptionsByToken' \subseteq Tokens
    BY <1>12 DEF UnsubscribeRemove
  <2>3. unsubscribe' \in [Callers \X Tokens ->
                          {"idle", "shutdown", "lock", "ok", "unknown", "corrupt"}]
    BY <1>12 DEF UnsubscribeRemove
  <2> QED
    BY <1>12, <2>1, <2>2, <2>3 DEF UnsubscribeRemove, Unlock
<1>13. ASSUME NEW c \in Cancellers, CancelAllLock(c) PROVE TypeOK'
  BY <1>13, WriterTypes DEF CancelAllLock, AnnounceLock
<1>14. ASSUME NEW c \in Cancellers, CancelAllSpawn(c) PROVE TypeOK'
  BY <1>14 DEF CancelAllSpawn, Unlock
<1>15. ASSUME NEW c \in Cancellers, CancelAllReturn(c) PROVE TypeOK'
  BY <1>15 DEF CancelAllReturn
<1>16. CASE UNCHANGED vars
  BY <1>16 DEF vars
<1> HIDE DEF ConstantsAssumption, IInv, TypeOK, indexVars, routerVars, forwarderVars
<1> QED
  BY <1>1, <1>2, <1>3, <1>4, <1>5, <1>6, <1>7, <1>8, <1>9, <1>10, <1>11, <1>12,
     <1>13, <1>14, <1>15, <1>16 DEF Next, Terminated
----------------------------------------------------------------------------
\* What the router handles and the forwarders hold are messages, in every step.
LEMMA HoldsMessageNext == IInv /\ [Next]_vars => HoldsMessage'
<1> SUFFICES ASSUME IInv, [Next]_vars PROVE HoldsMessage'
  OBVIOUS
<1> USE ConstantsAssumption
        DEF ConstantsAssumption, IInv, TypeOK, HoldsMessage, Messages,
            indexVars, routerVars, forwarderVars
<1>1. ASSUME NEW t \in Types, SubscribeLock(t) PROVE HoldsMessage'
  BY <1>1 DEF SubscribeLock
<1>2. ASSUME NEW t \in Types, SubscribeMessageType(t) PROVE HoldsMessage'
  BY <1>2 DEF SubscribeMessageType
<1>3. ASSUME NEW t \in Types, NEW wellFormed \in BOOLEAN, HandleMessage(t, wellFormed)
      PROVE HoldsMessage'
  BY <1>3 DEF HandleMessage
<1>4. CASE HandleMessageReturn
  BY <1>4 DEF HandleMessageReturn
<1>5. ASSUME NEW tok \in Tokens, Forward(tok) PROVE HoldsMessage'
  <2>1. /\ reading /\ UNCHANGED <<reading, handled>>
        /\ \/ UNCHANGED <<forwarder, held>>
           \/ /\ forwarder' = [forwarder EXCEPT ![tok] = "holding"]
              /\ held' = [held EXCEPT ![tok] = handled]
    BY <1>5 DEF Forward, ForwarderTakes, Offering
  <2> QED
    BY <2>1
<1>6. ASSUME NEW tok \in Tokens, Drop(tok) PROVE HoldsMessage'
  BY <1>6 DEF Drop
<1>7. ASSUME NEW tok \in Tokens, ForwarderDeliver(tok) \/ ForwarderClose(tok)
      PROVE HoldsMessage'
  <2>1. CASE ForwarderDeliver(tok)
    BY <2>1 DEF ForwarderDeliver
  <2>2. CASE ForwarderClose(tok)
    BY <2>2 DEF ForwarderClose
  <2> QED
    BY <1>7, <2>1, <2>2
<1>8. ASSUME NEW tok \in Tokens, OwnerStops(tok) \/ OwnerUnsubscribe(tok) PROVE HoldsMessage'
  BY <1>8 DEF OwnerStops, OwnerUnsubscribe
<1>9. ASSUME NEW by \in Callers, NEW tok \in Tokens,
             UnsubscribeShutdown(by, tok) \/ UnsubscribeLock(by, tok)
      PROVE HoldsMessage'
  <2>1. CASE UnsubscribeShutdown(by, tok)
    BY <2>1 DEF UnsubscribeShutdown
  <2>2. CASE UnsubscribeLock(by, tok)
    BY <2>2 DEF UnsubscribeLock
  <2> QED
    BY <1>9, <2>1, <2>2
<1>10. ASSUME NEW by \in Callers, NEW tok \in Tokens, UnsubscribeRemove(by, tok)
       PROVE HoldsMessage'
  BY <1>10 DEF UnsubscribeRemove
<1>11. ASSUME NEW c \in Cancellers,
              CancelAllLock(c) \/ CancelAllSpawn(c) \/ CancelAllReturn(c)
       PROVE HoldsMessage'
  BY <1>11 DEF CancelAllLock, CancelAllSpawn, CancelAllReturn
<1>12. CASE UNCHANGED vars
  BY <1>12 DEF vars
<1> HIDE DEF ConstantsAssumption, IInv, TypeOK, HoldsMessage, Messages,
             indexVars, routerVars, forwarderVars
<1> QED
  BY <1>1, <1>2, <1>3, <1>4, <1>5, <1>6, <1>7, <1>8, <1>9, <1>10, <1>11, <1>12
  DEF Next, Terminated
----------------------------------------------------------------------------
(* The rest of IInv speaks about the registry only: one lemma per action    *)
(* that changes it.                                                        *)

registryVars == <<indexVars, alive, lockWaiter, unsubscribe, canceller>>

Registry ==
    /\ TokensHandedOut
    /\ WaiterAtLock
    /\ UnsubscribeProgress
    /\ CancelAllProgress
    /\ IndexesAgree
    /\ RemovedOnce

\* Announcing the write lock for a new subscription keeps the registry sound.
LEMMA RegistrySubscribeLock ==
    ASSUME IInv, NEW t \in Types, SubscribeLock(t) PROVE Registry'
<1> USE DEF SubscribeLock, AnnounceLock, indexVars, IInv
<1>1. WaiterAtLock'
  BY DEF WaiterAtLock, Subscriber, Remover, CancelAll
<1>2. TokensHandedOut' /\ UnsubscribeProgress' /\ CancelAllProgress'
  BY DEF TokensHandedOut, UnsubscribeProgress, CallProgress, CancelAllProgress, SpawnProgress
<1>3. IndexesAgree' /\ RemovedOnce'
  BY DEF IndexesAgree, RemovedOnce
<1> QED
  BY <1>1, <1>2, <1>3 DEF Registry

\* A new subscription gets a token that nobody knows yet.
LEMMA RegistrySubscribeMessageType ==
    ASSUME IInv, NEW t \in Types, SubscribeMessageType(t) PROVE Registry'
<1> DEFINE tok == subscriptionCounter + 1
<1> USE ConstantsAssumption DEF ConstantsAssumption
<1>1. /\ tok \in Tokens /\ subscriptionCounter \in Nat
      /\ tok \notin subscriptionsByToken /\ tok \notin alive
      /\ \A by \in Callers : unsubscribe[<<by, tok>>] = "idle"
  <2>1. subscriptionCounter \in Nat /\ subscriptionCounter < MaxTokens
    BY DEF IInv, TypeOK, SubscribeMessageType, LockGranted, WaiterAtLock
  <2>2. tok \in Tokens /\ tok \notin 1..subscriptionCounter
    BY <2>1 DEF Tokens
  <2> QED
    BY <2>1, <2>2 DEF IInv, TokensHandedOut
<1>2. /\ subscriptionCounter' = tok
      /\ subscriptionsByToken' = subscriptionsByToken \cup {tok}
      /\ subscriptionsByMessageType' =
           [subscriptionsByMessageType EXCEPT
              ![t] = Append(subscriptionsByMessageType[t], tok)]
      /\ messageType' = [messageType EXCEPT ![tok] = t]
      /\ alive' = alive \cup {tok}
      /\ lockWaiter' = {}
      /\ UNCHANGED <<unsubscribe, canceller>>
  BY DEF SubscribeMessageType, NextToken, Unlock
<1>3. 1..subscriptionCounter' = (1..subscriptionCounter) \cup {tok}
  BY <1>1, <1>2
<1> HIDE DEF tok
<1>4. TokensHandedOut'
  BY <1>1, <1>2, <1>3 DEF IInv, TokensHandedOut
<1>5. WaiterAtLock'
  BY <1>2 DEF WaiterAtLock
<1>6. UnsubscribeProgress' /\ CancelAllProgress'
  BY <1>1, <1>2
  DEF IInv, UnsubscribeProgress, CallProgress, CancelAllProgress, SpawnProgress
<1>7. IndexesAgree'
  <2> SUFFICES ASSUME NEW u \in Types
               PROVE  /\ Distinct(subscriptionsByMessageType'[u])
                      /\ Elements(subscriptionsByMessageType'[u])
                           = {k \in subscriptionsByToken' : messageType'[k] = u}
    BY DEF IndexesAgree, Distinct, Elements
  <2>1. /\ Distinct(subscriptionsByMessageType[u])
        /\ Elements(subscriptionsByMessageType[u])
             = {k \in subscriptionsByToken : messageType[k] = u}
        /\ subscriptionsByMessageType[u] \in Seq(Tokens)
        /\ subscriptionsByToken \subseteq Tokens
    BY DEF IInv, IndexesAgree, TypeOK
  <2>2. /\ messageType'[tok] = t
        /\ \A k \in subscriptionsByToken : messageType'[k] = messageType[k]
    BY <1>1, <1>2, <2>1 DEF IInv, TypeOK
  <2>3. CASE u = t
    <3>1. subscriptionsByMessageType'[u] = Append(subscriptionsByMessageType[u], tok)
      BY <1>2, <2>3 DEF IInv, TypeOK
    <3>2. tok \notin Elements(subscriptionsByMessageType[u])
      BY <1>1, <2>1
    <3>3. /\ Distinct(Append(subscriptionsByMessageType[u], tok))
          /\ Elements(Append(subscriptionsByMessageType[u], tok))
               = Elements(subscriptionsByMessageType[u]) \cup {tok}
      BY <1>1, <2>1, <3>2, AppendElements
    <3> QED
      BY <1>2, <2>1, <2>2, <2>3, <3>1, <3>3
  <2>4. CASE u # t
    <3>1. subscriptionsByMessageType'[u] = subscriptionsByMessageType[u]
      BY <1>2, <2>4 DEF IInv, TypeOK
    <3> QED
      BY <1>2, <2>1, <2>2, <2>4, <3>1
  <2> QED
    BY <2>3, <2>4
<1>8. RemovedOnce'
  BY <1>1, <1>2, <1>3 DEF IInv, RemovedOnce
<1> QED
  BY <1>4, <1>5, <1>6, <1>7, <1>8 DEF Registry

\* The owner's call of Unsubscribe begins for a token that was handed out.
LEMMA RegistryOwnerUnsubscribe ==
    ASSUME IInv, NEW tok \in Tokens, OwnerUnsubscribe(tok) PROVE Registry'
<1>1. Owner \in Callers /\ Owner \notin Cancellers
  BY ConstantsAssumption DEF ConstantsAssumption, Callers
<1>2. /\ unsubscribe' = [unsubscribe EXCEPT ![<<Owner, tok>>] = "shutdown"]
      /\ unsubscribe[<<Owner, tok>>] = "idle"
      /\ UNCHANGED <<indexVars, alive, lockWaiter, canceller>>
  BY DEF OwnerUnsubscribe
<1>3. \A by \in Callers, k \in Tokens :
        unsubscribe'[<<by, k>>] = IF by = Owner /\ k = tok THEN "shutdown"
                                  ELSE unsubscribe[<<by, k>>]
  BY <1>1, <1>2 DEF IInv, TypeOK
<1>4. tok \in 1..subscriptionCounter
  BY ConstantsAssumption
  DEF ConstantsAssumption, OwnerUnsubscribe, IInv, TypeOK, Tokens
<1>5. TokensHandedOut'
  BY <1>2, <1>3, <1>4 DEF IInv, TokensHandedOut, indexVars
<1>6. WaiterAtLock'
  BY <1>2, <1>3 DEF IInv, WaiterAtLock, indexVars
<1>7. UnsubscribeProgress'
  <2> SUFFICES ASSUME NEW b \in Callers, NEW k \in Tokens
               PROVE  CallProgress(b, k)'
    BY DEF UnsubscribeProgress
  <2> USE DEF CallProgress
  <2>1. CallProgress(b, k)
    BY DEF IInv, UnsubscribeProgress
  <2>2. CASE b = Owner /\ k = tok
    BY <1>3, <2>2
  <2>3. CASE ~(b = Owner /\ k = tok)
    BY <1>2, <1>3, <2>1, <2>3 DEF indexVars
  <2> QED
    BY <2>2, <2>3
<1>8. CancelAllProgress'
  <2> SUFFICES ASSUME NEW c \in Cancellers, NEW k \in Tokens
               PROVE  SpawnProgress(c, k)'
    BY DEF CancelAllProgress
  <2> USE DEF SpawnProgress
  <2>1. SpawnProgress(c, k) /\ c \in Callers
    BY DEF IInv, CancelAllProgress, Callers
  <2>2. unsubscribe'[<<c, k>>] = unsubscribe[<<c, k>>]
    BY <1>1, <1>3, <2>1
  <2> QED
    BY <1>2, <2>1, <2>2
<1>9. IndexesAgree'
  BY <1>2 DEF IInv, IndexesAgree, indexVars
<1>10. RemovedOnce'
  <2>1. 1..subscriptionCounter \subseteq Tokens
    BY ConstantsAssumption DEF ConstantsAssumption, IInv, TypeOK, Tokens
  <2> QED
    BY <1>2, <1>3, <2>1 DEF IInv, RemovedOnce, indexVars
<1> QED
  BY <1>5, <1>6, <1>7, <1>8, <1>9, <1>10 DEF Registry

\* Unsubscribe ends the Lifetime under the read lock.
LEMMA RegistryUnsubscribeShutdown ==
    ASSUME IInv, NEW by \in Callers, NEW tok \in Tokens, UnsubscribeShutdown(by, tok)
    PROVE  Registry'
<1>1. /\ unsubscribe' = [unsubscribe EXCEPT ![<<by, tok>>] = "lock"]
      /\ unsubscribe[<<by, tok>>] = "shutdown"
      /\ lockWaiter = {}
      /\ alive' = alive \ {tok}
      /\ UNCHANGED <<indexVars, lockWaiter, canceller>>
  BY DEF UnsubscribeShutdown, RLockFree
<1>2. \A b \in Callers, k \in Tokens :
        unsubscribe'[<<b, k>>] = IF b = by /\ k = tok THEN "lock"
                                 ELSE unsubscribe[<<b, k>>]
  BY <1>1 DEF IInv, TypeOK
<1>3. TokensHandedOut'
  BY <1>1, <1>2 DEF IInv, TokensHandedOut, indexVars
<1>4. WaiterAtLock'
  BY <1>1 DEF WaiterAtLock
<1>5. UnsubscribeProgress'
  <2> SUFFICES ASSUME NEW b \in Callers, NEW k \in Tokens
               PROVE  CallProgress(b, k)'
    BY DEF UnsubscribeProgress
  <2> USE DEF CallProgress
  <2>1. CallProgress(b, k)
    BY DEF IInv, UnsubscribeProgress
  <2>2. CASE b = by /\ k = tok
    BY <1>1, <1>2, <2>2
  <2>3. CASE ~(b = by /\ k = tok)
    BY <1>1, <1>2, <2>1, <2>3 DEF indexVars
  <2> QED
    BY <2>2, <2>3
<1>6. CancelAllProgress'
  <2> SUFFICES ASSUME NEW c \in Cancellers, NEW k \in Tokens
               PROVE  SpawnProgress(c, k)'
    BY DEF CancelAllProgress
  <2> USE DEF SpawnProgress
  <2>1. SpawnProgress(c, k) /\ c \in Callers
    BY DEF IInv, CancelAllProgress, Callers
  <2>2. CASE c = by /\ k = tok
    BY <1>1, <1>2, <2>1, <2>2 DEF Returned
  <2>3. CASE ~(c = by /\ k = tok)
    BY <1>1, <1>2, <2>1, <2>3
  <2> QED
    BY <2>2, <2>3
<1>7. IndexesAgree'
  BY <1>1 DEF IInv, IndexesAgree, indexVars
<1>8. RemovedOnce'
  <2>1. 1..subscriptionCounter \subseteq Tokens
    BY ConstantsAssumption DEF ConstantsAssumption, IInv, TypeOK, Tokens
  <2>2. \A b \in Callers, k \in 1..subscriptionCounter :
          unsubscribe'[<<b, k>>] = "ok" <=> unsubscribe[<<b, k>>] = "ok"
    <3> SUFFICES ASSUME NEW b \in Callers, NEW k \in 1..subscriptionCounter
                 PROVE  unsubscribe'[<<b, k>>] = "ok" <=> unsubscribe[<<b, k>>] = "ok"
      OBVIOUS
    <3>1. CASE b = by /\ k = tok
      BY <1>1, <1>2, <3>1
    <3>2. CASE ~(b = by /\ k = tok)
      BY <1>2, <2>1, <3>2
    <3> QED
      BY <3>1, <3>2
  <2> QED
    BY <1>1, <2>2 DEF IInv, RemovedOnce, indexVars
<1> QED
  BY <1>3, <1>4, <1>5, <1>6, <1>7, <1>8 DEF Registry

\* Announcing the write lock for a removal keeps the registry sound.
LEMMA RegistryUnsubscribeLock ==
    ASSUME IInv, NEW by \in Callers, NEW tok \in Tokens, UnsubscribeLock(by, tok)
    PROVE  Registry'
<1> USE DEF UnsubscribeLock, AnnounceLock, indexVars, IInv
<1>1. WaiterAtLock'
  BY DEF WaiterAtLock, Subscriber, Remover, CancelAll
<1>2. TokensHandedOut' /\ UnsubscribeProgress' /\ CancelAllProgress'
  BY DEF TokensHandedOut, UnsubscribeProgress, CallProgress, CancelAllProgress, SpawnProgress
<1>3. IndexesAgree' /\ RemovedOnce'
  BY DEF IndexesAgree, RemovedOnce
<1> QED
  BY <1>1, <1>2, <1>3 DEF Registry

\* Unsubscribe removes the subscription from both indexes, or finds that another
\* call was faster; the list of its type always has it.
LEMMA RegistryUnsubscribeRemove ==
    ASSUME IInv, NEW by \in Callers, NEW tok \in Tokens, UnsubscribeRemove(by, tok)
    PROVE  Registry'
<1> DEFINE t == messageType[tok]
           subs == subscriptionsByMessageType[t]
           found == Position(subs, tok)
<1>1. /\ lockWaiter = {Remover(by, tok)} /\ lockWaiter' = {}
      /\ UNCHANGED <<subscriptionCounter, messageType, alive, canceller>>
  BY DEF UnsubscribeRemove, LockGranted, Unlock
<1>2. /\ unsubscribe[<<by, tok>>] = "lock"
      /\ tok \notin alive
      /\ tok \in 1..subscriptionCounter
      /\ 1..subscriptionCounter \subseteq Tokens
  <2>1. unsubscribe[<<by, tok>>] = "lock"
    BY <1>1 DEF IInv, WaiterAtLock
  <2>2. 1..subscriptionCounter \subseteq Tokens
    BY ConstantsAssumption DEF ConstantsAssumption, IInv, TypeOK, Tokens
  <2> QED
    BY <2>1, <2>2 DEF IInv, UnsubscribeProgress, CallProgress, TokensHandedOut
<1>3. /\ t \in Types /\ subs \in Seq(Tokens) /\ Distinct(subs)
      /\ Elements(subs) = {k \in subscriptionsByToken : messageType[k] = t}
  BY DEF IInv, TypeOK, IndexesAgree
<1>4. tok \in subscriptionsByToken => found # {}
  BY <1>3 DEF Position, Elements
<1>5. CASE tok \notin subscriptionsByToken
  <2>1. /\ unsubscribe' = [unsubscribe EXCEPT ![<<by, tok>>] = "unknown"]
        /\ UNCHANGED <<subscriptionsByMessageType, subscriptionsByToken>>
    BY <1>5 DEF UnsubscribeRemove
  <2>2. \A b \in Callers, k \in Tokens :
          unsubscribe'[<<b, k>>] = IF b = by /\ k = tok THEN "unknown"
                                   ELSE unsubscribe[<<b, k>>]
    BY <2>1 DEF IInv, TypeOK
  <2>3. TokensHandedOut'
    BY <1>1, <1>2, <2>1, <2>2 DEF IInv, TokensHandedOut
  <2>4. WaiterAtLock'
    BY <1>1 DEF WaiterAtLock
  <2>5. UnsubscribeProgress'
    <3> SUFFICES ASSUME NEW b \in Callers, NEW k \in Tokens
                 PROVE  CallProgress(b, k)'
      BY DEF UnsubscribeProgress
    <3> USE DEF CallProgress
    <3>1. CallProgress(b, k)
      BY DEF IInv, UnsubscribeProgress
    <3>2. CASE b = by /\ k = tok
      BY <1>1, <1>2, <1>5, <2>1, <2>2, <3>2
    <3>3. CASE ~(b = by /\ k = tok)
      BY <1>1, <2>1, <2>2, <3>1, <3>3
    <3> QED
      BY <3>2, <3>3
  <2>6. CancelAllProgress'
    <3> SUFFICES ASSUME NEW c \in Cancellers, NEW k \in Tokens
                 PROVE  SpawnProgress(c, k)'
      BY DEF CancelAllProgress
    <3> USE DEF SpawnProgress
    <3>1. SpawnProgress(c, k) /\ c \in Callers
      BY DEF IInv, CancelAllProgress, Callers
    <3>2. CASE c = by /\ k = tok
      BY <1>1, <1>2, <2>2, <3>1, <3>2 DEF Returned
    <3>3. CASE ~(c = by /\ k = tok)
      BY <1>1, <2>2, <3>1, <3>3
    <3> QED
      BY <3>2, <3>3
  <2>7. IndexesAgree'
    BY <1>1, <2>1 DEF IInv, IndexesAgree
  <2>8. RemovedOnce'
    BY <1>1, <1>2, <2>1, <2>2 DEF IInv, RemovedOnce
  <2> QED
    BY <2>3, <2>4, <2>5, <2>6, <2>7, <2>8 DEF Registry
<1>6. CASE tok \in subscriptionsByToken
  <2>1. PICK p \in found :
          /\ subscriptionsByMessageType' =
               [subscriptionsByMessageType EXCEPT ![t] = SwapRemove(subs, p)]
          /\ subscriptionsByToken' = subscriptionsByToken \ {tok}
          /\ unsubscribe' = [unsubscribe EXCEPT ![<<by, tok>>] = "ok"]
    BY <1>4, <1>6 DEF UnsubscribeRemove
  <2>2. \A b \in Callers, k \in Tokens :
          unsubscribe'[<<b, k>>] = IF b = by /\ k = tok THEN "ok"
                                   ELSE unsubscribe[<<b, k>>]
    BY <2>1 DEF IInv, TypeOK
  <2>3. TokensHandedOut'
    BY <1>1, <1>2, <2>1, <2>2 DEF IInv, TokensHandedOut
  <2>4. WaiterAtLock'
    BY <1>1 DEF WaiterAtLock
  <2>5. UnsubscribeProgress'
    <3> SUFFICES ASSUME NEW b \in Callers, NEW k \in Tokens
                 PROVE  CallProgress(b, k)'
      BY DEF UnsubscribeProgress
    <3> USE DEF CallProgress
    <3>1. CallProgress(b, k)
      BY DEF IInv, UnsubscribeProgress
    <3>2. CASE b = by /\ k = tok
      BY <1>1, <1>2, <2>1, <2>2, <3>2
    <3>3. CASE ~(b = by /\ k = tok)
      BY <1>1, <2>1, <2>2, <3>1, <3>3
    <3> QED
      BY <3>2, <3>3
  <2>6. CancelAllProgress'
    <3> SUFFICES ASSUME NEW c \in Cancellers, NEW k \in Tokens
                 PROVE  SpawnProgress(c, k)'
      BY DEF CancelAllProgress
    <3> USE DEF SpawnProgress
    <3>1. SpawnProgress(c, k) /\ c \in Callers
      BY DEF IInv, CancelAllProgress, Callers
    <3>2. CASE c = by /\ k = tok
      BY <1>1, <1>2, <2>2, <3>1, <3>2 DEF Returned
    <3>3. CASE ~(c = by /\ k = tok)
      BY <1>1, <2>2, <3>1, <3>3
    <3> QED
      BY <3>2, <3>3
  <2>7. IndexesAgree'
    <3> SUFFICES ASSUME NEW u \in Types
                 PROVE  /\ Distinct(subscriptionsByMessageType'[u])
                        /\ Elements(subscriptionsByMessageType'[u])
                             = {k \in subscriptionsByToken' : messageType'[k] = u}
      BY DEF IndexesAgree, Distinct, Elements
    <3>1. CASE u = t
      <4>1. subscriptionsByMessageType'[u] = SwapRemove(subs, p)
        BY <1>3, <2>1, <3>1 DEF IInv, TypeOK
      <4>2. p \in DOMAIN subs /\ subs[p] = tok
        BY <2>1 DEF Position
      <4>3. /\ Distinct(SwapRemove(subs, p))
            /\ Elements(SwapRemove(subs, p)) = Elements(subs) \ {tok}
        BY <1>3, <4>2, SwapRemoveElements
      <4> QED
        BY <1>1, <1>3, <2>1, <3>1, <4>1, <4>3
    <3>2. CASE u # t
      <4>1. subscriptionsByMessageType'[u] = subscriptionsByMessageType[u]
        BY <2>1, <3>2 DEF IInv, TypeOK
      <4>2. /\ Distinct(subscriptionsByMessageType[u])
            /\ Elements(subscriptionsByMessageType[u])
                 = {k \in subscriptionsByToken : messageType[k] = u}
        BY DEF IInv, IndexesAgree
      <4> QED
        BY <1>1, <2>1, <3>2, <4>1, <4>2
    <3> QED
      BY <3>1, <3>2
  <2>8. RemovedOnce'
    <3>1. \A b \in Callers : unsubscribe[<<b, tok>>] # "ok"
      BY <1>6 DEF IInv, UnsubscribeProgress, CallProgress
    <3> SUFFICES ASSUME NEW k \in 1..subscriptionCounter
                 PROVE  /\ \A b1, b2 \in Callers :
                             unsubscribe'[<<b1, k>>] = "ok" /\ unsubscribe'[<<b2, k>>] = "ok"
                               => b1 = b2
                        /\ k \notin subscriptionsByToken'
                             => \E b \in Callers : unsubscribe'[<<b, k>>] = "ok"
      BY <1>1 DEF RemovedOnce
    <3>2. CASE k = tok
      BY <1>2, <2>1, <2>2, <3>1, <3>2
    <3>3. CASE k # tok
      <4>1. \A b \in Callers : unsubscribe'[<<b, k>>] = unsubscribe[<<b, k>>]
        BY <1>2, <2>2, <3>3
      <4>2. k \in subscriptionsByToken' <=> k \in subscriptionsByToken
        BY <2>1, <3>3
      <4> QED
        BY <4>1, <4>2 DEF IInv, RemovedOnce
    <3> QED
      BY <3>2, <3>3
  <2> QED
    BY <2>3, <2>4, <2>5, <2>6, <2>7, <2>8 DEF Registry
<1> QED
  BY <1>5, <1>6

\* Announcing the write lock for CancelAllSubscriptions keeps the registry sound.
LEMMA RegistryCancelAllLock ==
    ASSUME IInv, NEW c \in Cancellers, CancelAllLock(c) PROVE Registry'
<1>1. /\ canceller[c] = "idle"
      /\ canceller' = [canceller EXCEPT ![c] = "lock"]
      /\ lockWaiter' = {CancelAll(c)}
      /\ UNCHANGED <<indexVars, alive, unsubscribe>>
  BY DEF CancelAllLock, AnnounceLock
<1>2. WaiterAtLock'
  <2>1. canceller'[c] = "lock"
    BY <1>1 DEF IInv, TypeOK
  <2>2. /\ \A t \in Types : lockWaiter' # {Subscriber(t)}
        /\ \A by \in Callers, tok \in Tokens : lockWaiter' # {Remover(by, tok)}
    <3>1. /\ \A t \in Types : CancelAll(c) # Subscriber(t)
          /\ \A by \in Callers, tok \in Tokens : CancelAll(c) # Remover(by, tok)
      BY DEF Subscriber, Remover, CancelAll
    <3> QED
      BY <1>1, <3>1
  <2>3. \A d \in Cancellers : lockWaiter' = {CancelAll(d)} => d = c
    <3>1. \A d \in Cancellers : CancelAll(d) = CancelAll(c) => d = c
      BY DEF CancelAll
    <3> QED
      BY <1>1, <3>1
  <2> QED
    BY <2>1, <2>2, <2>3 DEF WaiterAtLock
<1>3. TokensHandedOut' /\ UnsubscribeProgress'
  BY <1>1 DEF IInv, TokensHandedOut, UnsubscribeProgress, CallProgress, indexVars
<1>4. CancelAllProgress'
  <2> SUFFICES ASSUME NEW d \in Cancellers, NEW k \in Tokens PROVE SpawnProgress(d, k)'
    BY DEF CancelAllProgress
  <2>1. SpawnProgress(d, k)
    BY DEF IInv, CancelAllProgress
  <2>2. CASE d = c
    <3>1. canceller'[d] = "lock"
      BY <1>1, <2>2 DEF IInv, TypeOK
    <3> QED
      BY <1>1, <2>1, <2>2, <3>1 DEF SpawnProgress
  <2>3. CASE d # c
    <3>1. canceller'[d] = canceller[d]
      BY <1>1, <2>3 DEF IInv, TypeOK
    <3> QED
      BY <1>1, <2>1, <3>1 DEF SpawnProgress
  <2> QED
    BY <2>2, <2>3
<1>5. IndexesAgree' /\ RemovedOnce'
  BY <1>1 DEF IInv, IndexesAgree, RemovedOnce, indexVars
<1> QED
  BY <1>2, <1>3, <1>4, <1>5 DEF Registry

\* CancelAllSubscriptions spawns an Unsubscribe for every token it finds; none of
\* its own calls was running before.
LEMMA RegistryCancelAllSpawn ==
    ASSUME IInv, NEW c \in Cancellers, CancelAllSpawn(c) PROVE Registry'
<1>1. /\ lockWaiter = {CancelAll(c)} /\ lockWaiter' = {}
      /\ unsubscribe' = [u \in Callers \X Tokens |->
                           IF u[1] = c /\ u[2] \in subscriptionsByToken
                           THEN "shutdown" ELSE unsubscribe[u]]
      /\ canceller' = [canceller EXCEPT ![c] = "wait"]
      /\ UNCHANGED <<indexVars, alive>>
  BY DEF CancelAllSpawn, LockGranted, Unlock
<1>2. \A b \in Callers, k \in Tokens :
        unsubscribe'[<<b, k>>] = IF b = c /\ k \in subscriptionsByToken THEN "shutdown"
                                 ELSE unsubscribe[<<b, k>>]
  BY <1>1
<1>3. c \in Callers /\ canceller[c] = "lock"
  BY <1>1 DEF IInv, WaiterAtLock, Callers
<1>4. \A k \in Tokens : unsubscribe[<<c, k>>] = "idle"
  BY <1>3 DEF IInv, CancelAllProgress, SpawnProgress
<1>5. TokensHandedOut'
  BY <1>1, <1>2 DEF IInv, TokensHandedOut, indexVars
<1>6. WaiterAtLock'
  BY <1>1 DEF WaiterAtLock
<1>7. UnsubscribeProgress'
  <2> SUFFICES ASSUME NEW b \in Callers, NEW k \in Tokens
               PROVE  CallProgress(b, k)'
    BY DEF UnsubscribeProgress
  <2> USE DEF CallProgress
  <2>1. CallProgress(b, k)
    BY DEF IInv, UnsubscribeProgress
  <2>2. CASE b = c /\ k \in subscriptionsByToken
    BY <1>2, <2>2
  <2>3. CASE ~(b = c /\ k \in subscriptionsByToken)
    BY <1>1, <1>2, <2>1, <2>3 DEF indexVars
  <2> QED
    BY <2>2, <2>3
<1>8. CancelAllProgress'
  <2> SUFFICES ASSUME NEW d \in Cancellers, NEW k \in Tokens
               PROVE  SpawnProgress(d, k)'
    BY DEF CancelAllProgress
  <2> USE DEF SpawnProgress
  <2>1. SpawnProgress(d, k) /\ d \in Callers
    BY DEF IInv, CancelAllProgress, Callers
  <2>2. CASE d = c
    BY <1>1, <2>2 DEF IInv, TypeOK
  <2>3. CASE d # c
    BY <1>1, <1>2, <2>1, <2>3 DEF IInv, TypeOK
  <2> QED
    BY <2>2, <2>3
<1>9. IndexesAgree'
  BY <1>1 DEF IInv, IndexesAgree, indexVars
<1>10. RemovedOnce'
  <2>1. 1..subscriptionCounter \subseteq Tokens
    BY ConstantsAssumption DEF ConstantsAssumption, IInv, TypeOK, Tokens
  <2>2. \A b \in Callers, k \in 1..subscriptionCounter :
          unsubscribe'[<<b, k>>] = "ok" <=> unsubscribe[<<b, k>>] = "ok"
    <3> SUFFICES ASSUME NEW b \in Callers, NEW k \in 1..subscriptionCounter
                 PROVE  unsubscribe'[<<b, k>>] = "ok" <=> unsubscribe[<<b, k>>] = "ok"
      OBVIOUS
    <3>1. CASE b = c /\ k \in subscriptionsByToken
      BY <1>2, <1>4, <2>1, <3>1
    <3>2. CASE ~(b = c /\ k \in subscriptionsByToken)
      BY <1>2, <2>1, <3>2
    <3> QED
      BY <3>1, <3>2
  <2> QED
    BY <1>1, <2>2 DEF IInv, RemovedOnce, indexVars
<1> QED
  BY <1>5, <1>6, <1>7, <1>8, <1>9, <1>10 DEF Registry

\* CancelAllSubscriptions returns when all its calls have.
LEMMA RegistryCancelAllReturn ==
    ASSUME IInv, NEW c \in Cancellers, CancelAllReturn(c) PROVE Registry'
<1>1. /\ canceller[c] = "wait"
      /\ \A k \in Tokens : unsubscribe[<<c, k>>] \in Returned \cup {"idle"}
      /\ canceller' = [canceller EXCEPT ![c] = "done"]
      /\ UNCHANGED <<indexVars, alive, lockWaiter, unsubscribe>>
  BY DEF CancelAllReturn
<1>2. WaiterAtLock'
  BY <1>1 DEF WaiterAtLock, IInv, TypeOK, indexVars
<1>3. TokensHandedOut' /\ UnsubscribeProgress'
  BY <1>1 DEF IInv, TokensHandedOut, UnsubscribeProgress, CallProgress, indexVars
<1>4. CancelAllProgress'
  <2> SUFFICES ASSUME NEW d \in Cancellers, NEW k \in Tokens PROVE SpawnProgress(d, k)'
    BY DEF CancelAllProgress
  <2>1. SpawnProgress(d, k)
    BY DEF IInv, CancelAllProgress
  <2>2. CASE d = c
    <3>1. canceller'[d] = "done"
      BY <1>1, <2>2 DEF IInv, TypeOK
    <3> QED
      BY <1>1, <2>1, <2>2, <3>1 DEF SpawnProgress
  <2>3. CASE d # c
    <3>1. canceller'[d] = canceller[d]
      BY <1>1, <2>3 DEF IInv, TypeOK
    <3> QED
      BY <1>1, <2>1, <3>1 DEF SpawnProgress
  <2> QED
    BY <2>2, <2>3
<1>5. IndexesAgree' /\ RemovedOnce'
  BY <1>1 DEF IInv, IndexesAgree, RemovedOnce, indexVars
<1> QED
  BY <1>2, <1>3, <1>4, <1>5 DEF Registry

\* The router, the forwarders and their consumers do not touch the registry.
LEMMA RegistryUnchanged ==
    ASSUME IInv, UNCHANGED registryVars PROVE Registry'
<1> USE DEF registryVars, indexVars, IInv
<1>1. TokensHandedOut' /\ WaiterAtLock'
  BY DEF TokensHandedOut, WaiterAtLock
<1>2. UnsubscribeProgress' /\ CancelAllProgress'
  BY DEF UnsubscribeProgress, CallProgress, CancelAllProgress, SpawnProgress
<1>3. IndexesAgree' /\ RemovedOnce'
  BY DEF IndexesAgree, RemovedOnce
<1> QED
  BY <1>1, <1>2, <1>3 DEF Registry

\* Every step keeps the registry sound.
LEMMA RegistryNext == IInv /\ [Next]_vars => Registry'
<1> SUFFICES ASSUME IInv, [Next]_vars PROVE Registry'
  OBVIOUS
<1>1. ASSUME \/ \E t \in Types, wellFormed \in BOOLEAN : HandleMessage(t, wellFormed)
             \/ HandleMessageReturn
             \/ \E tok \in Tokens : \/ Forward(tok) \/ Drop(tok)
                                    \/ ForwarderDeliver(tok) \/ ForwarderClose(tok)
                                    \/ OwnerStops(tok)
             \/ Terminated
             \/ UNCHANGED vars
      PROVE  UNCHANGED registryVars
  BY <1>1, Zenon
  DEF HandleMessage, HandleMessageReturn, Forward, Drop, ForwarderDeliver,
      ForwarderClose, OwnerStops, Terminated, vars, registryVars, indexVars
<1> QED
  BY <1>1, RegistryUnchanged, RegistrySubscribeLock, RegistrySubscribeMessageType,
     RegistryOwnerUnsubscribe, RegistryUnsubscribeShutdown, RegistryUnsubscribeLock,
     RegistryUnsubscribeRemove, RegistryCancelAllLock, RegistryCancelAllSpawn,
     RegistryCancelAllReturn
  DEF Next

----------------------------------------------------------------------------
\* The invariant holds in the initial state.
LEMMA IInvInit == Init => IInv
<1> SUFFICES ASSUME Init PROVE IInv
  OBVIOUS
<1> USE DEF Init
<1>1. TypeOK
  BY TypeOKInit
<1>2. TokensHandedOut /\ WaiterAtLock /\ HoldsMessage
  BY DEF TokensHandedOut, WaiterAtLock, HoldsMessage
<1>3. UnsubscribeProgress /\ CancelAllProgress
  BY DEF UnsubscribeProgress, CallProgress, CancelAllProgress, SpawnProgress, Callers
<1>4. IndexesAgree
  BY DEF IndexesAgree, Distinct, Elements
<1>5. RemovedOnce
  BY DEF RemovedOnce
<1> QED
  BY <1>1, <1>2, <1>3, <1>4, <1>5 DEF IInv

\* The invariant holds in every reachable state.
THEOREM Invariance == Spec => []IInv
<1>1. IInv /\ [Next]_vars => IInv'
  BY TypeOKNext, HoldsMessageNext, RegistryNext DEF IInv, Registry
<1> QED
  BY IInvInit, <1>1, PTL DEF Spec

\* Type correctness of the subscription manager (SubscriptionManager and its
\* goroutines, acting/subscriptions.go).
THEOREM TypeCorrect == Spec => []TypeOK
<1>1. IInv => TypeOK
  BY DEF IInv
<1> QED
  BY Invariance, <1>1, PTL

\* The index by token and the lists by message type always agree, for any number
\* of racing subscribe, unsubscribe and cancel-all calls.
THEOREM IndexesAlwaysAgree == Spec => []IndexesAgree
<1>1. IInv => IndexesAgree
  BY DEF IInv
<1> QED
  BY Invariance, <1>1, PTL

\* The two "impossible" error branches of Unsubscribe are unreachable.
THEOREM UnsubscribeNeverCorrupt == Spec => []NeverCorrupt
<1>1. IInv => NeverCorrupt
  <2> SUFFICES ASSUME IInv, NEW by \in Callers, NEW tok \in Tokens
               PROVE  unsubscribe[<<by, tok>>] # "corrupt"
    BY DEF NeverCorrupt
  <2> QED
    BY DEF IInv, UnsubscribeProgress, CallProgress
<1> QED
  BY Invariance, <1>1, PTL

\* Exactly one of the racing Unsubscribe calls removes a subscription.
THEOREM ExactlyOneRemoves == Spec => []RemovedOnce
<1>1. IInv => RemovedOnce
  BY DEF IInv
<1> QED
  BY Invariance, <1>1, PTL

\* A removed subscription's Lifetime is done.
THEOREM RemovedAreDone == Spec => []RemovedIsDone
<1>1. IInv => RemovedIsDone
  <2> SUFFICES ASSUME IInv, NEW tok \in 1..subscriptionCounter,
                      tok \notin subscriptionsByToken
               PROVE  tok \notin alive
    BY DEF RemovedIsDone
  <2>1. tok \in Tokens
    BY ConstantsAssumption DEF ConstantsAssumption, IInv, TypeOK, Tokens
  <2>2. PICK by \in Callers : unsubscribe[<<by, tok>>] = "ok"
    BY DEF IInv, RemovedOnce
  <2> QED
    BY <2>1, <2>2 DEF IInv, UnsubscribeProgress, CallProgress
<1> QED
  BY Invariance, <1>1, PTL

\* When CancelAllSubscriptions returns, what it found registered is gone.
THEOREM CancelAllIsComplete == Spec => []CancelAllCancels
<1>1. IInv => CancelAllCancels
  <2> SUFFICES ASSUME IInv, NEW c \in Cancellers, canceller[c] = "done",
                      NEW tok \in Tokens, unsubscribe[<<c, tok>>] # "idle"
               PROVE  tok \notin subscriptionsByToken /\ tok \notin alive
    BY DEF CancelAllCancels
  <2>1. c \in Callers /\ unsubscribe[<<c, tok>>] \in Returned \cup {"idle"}
    BY DEF IInv, CancelAllProgress, SpawnProgress, Callers
  <2>2. CallProgress(c, tok)
    BY <2>1 DEF IInv, UnsubscribeProgress
  <2> QED
    BY <2>1, <2>2 DEF CallProgress, Returned
<1> QED
  BY Invariance, <1>1, PTL

\* HandleMessage hands a message only to subscriptions that are registered: the
\* router walks a list that nobody can change under it.
THEOREM NoLateForward == Spec => NoForwardAfterRemoval
<1> DEFINE Late == \A tok \in Tokens :
                     forwarder[tok] = "receiving" /\ forwarder'[tok] = "holding"
                       => tok \in subscriptionsByToken
<1>1. IInv /\ [Next]_vars => [Late]_vars
  <2> SUFFICES ASSUME IInv, Next PROVE Late
    OBVIOUS
  <2>1. ASSUME NEW tok \in Tokens, Forward(tok) PROVE Late
    <3> DEFINE subs == subscriptionsByMessageType[message.type]
    <3>1. subs \in Seq(Tokens) /\ pos \in 1..Len(subs) /\ subs[pos] = tok
      BY <2>1 DEF IInv, TypeOK, Forward, Offering
    <3>2. tok \in Elements(subs)
      BY <3>1 DEF Elements
    <3>3. tok \in subscriptionsByToken
      BY <3>2 DEF IInv, TypeOK, IndexesAgree
    <3>4. \A k \in Tokens : k # tok => forwarder'[k] = forwarder[k]
      BY <2>1 DEF IInv, TypeOK, Forward, ForwarderTakes
    <3> QED
      BY <3>3, <3>4
  <2>2. ASSUME NEW t \in Types, SubscribeMessageType(t) PROVE Late
    BY <2>2 DEF SubscribeMessageType, IInv, TypeOK
  <2>3. ASSUME NEW tok \in Tokens, ForwarderDeliver(tok) \/ ForwarderClose(tok)
        PROVE  Late
    BY <2>3 DEF ForwarderDeliver, ForwarderClose, IInv, TypeOK
  <2>4. ASSUME UNCHANGED forwarder PROVE Late
    BY <2>4
  <2>5. ASSUME \/ \E t \in Types : SubscribeLock(t)
               \/ \E t \in Types, wellFormed \in BOOLEAN : HandleMessage(t, wellFormed)
               \/ HandleMessageReturn
               \/ \E tok \in Tokens : Drop(tok) \/ OwnerStops(tok) \/ OwnerUnsubscribe(tok)
               \/ \E by \in Callers, tok \in Tokens :
                    UnsubscribeShutdown(by, tok) \/ UnsubscribeLock(by, tok)
               \/ \E c \in Cancellers :
                    CancelAllLock(c) \/ CancelAllSpawn(c) \/ CancelAllReturn(c)
               \/ Terminated
        PROVE  UNCHANGED forwarder
    BY <2>5, Zenon
    DEF SubscribeLock, HandleMessage, HandleMessageReturn, Drop, OwnerStops, OwnerUnsubscribe,
        UnsubscribeShutdown, UnsubscribeLock, CancelAllLock, CancelAllSpawn,
        CancelAllReturn, Terminated, vars, forwarderVars
  <2>6. ASSUME NEW by \in Callers, NEW tok \in Tokens, UnsubscribeRemove(by, tok)
        PROVE  UNCHANGED forwarder
    BY <2>6 DEF UnsubscribeRemove, forwarderVars
  <2> HIDE DEF Late
  <2> QED
    BY <2>1, <2>2, <2>3, <2>4, <2>5, <2>6 DEF Next
<1> QED
  BY Invariance, <1>1, PTL DEF Spec, NoForwardAfterRemoval

----------------------------------------------------------------------------
(* What subscribers get.  Delivery is inductive together with IInv.         *)

\* Whatever the subscriber of tok has read or is offered was handled before n.
Before(tok, n) ==
    /\ \A i \in DOMAIN delivered[tok] : delivered[tok][i] < n
    /\ forwarder[tok] = "holding" => held[tok] < n

\* What a forwarder holds is the newest message of its subscriber.
Newest ==
    /\ \A tok \in Tokens : Before(tok, handled + 1)
    /\ \A tok \in Tokens : forwarder[tok] = "holding" =>
         \A i \in DOMAIN delivered[tok] : delivered[tok][i] < held[tok]

\* The message that the router handles has not been given to the subscribers
\* that are still ahead of it, nor to anybody as long as no forward is counted,
\* and it is not refused yet.
Ahead ==
    reading =>
        /\ \A p \in DOMAIN subscriptionsByMessageType[message.type] :
             p >= pos => Before(subscriptionsByMessageType[message.type][p], handled)
        /\ forwards = 0 => \A tok \in Tokens : Before(tok, handled)
        /\ handled \notin refused

Delivery ==
    /\ Newest /\ Ahead
    /\ \A m \in refused : m <= handled
    /\ DeliveredInOrder /\ RefusedIsNeverDelivered

\* Messages are numbers.
LEMMA MessageNumbers ==
    ASSUME IInv
    PROVE  /\ handled \in Nat /\ refused \subseteq Nat /\ pos \in Nat /\ forwards \in Nat
           /\ \A tok \in Tokens : held[tok] \in Nat
           /\ \A tok \in Tokens : \A i \in DOMAIN delivered[tok] : delivered[tok][i] \in Nat
<1>1. /\ handled \in Nat /\ refused \subseteq Nat /\ pos \in Nat /\ forwards \in Nat
      /\ \A tok \in Tokens : held[tok] \in Nat
  BY ConstantsAssumption DEF IInv, TypeOK, Messages
<1>2. ASSUME NEW tok \in Tokens, NEW i \in DOMAIN delivered[tok] PROVE delivered[tok][i] \in Nat
  <2>1. delivered[tok] \in Seq(Messages)
    BY DEF IInv, TypeOK
  <2>2. delivered[tok][i] \in Messages
    BY <2>1
  <2>3. QED BY <2>2, ConstantsAssumption DEF Messages
<1>3. QED BY <1>1, <1>2

\* The subscribers of a list are tokens.
LEMMA SubscribersAreTokens ==
    ASSUME IInv
    PROVE  /\ subscriptionsByMessageType[message.type] \in Seq(Tokens)
           /\ Distinct(subscriptionsByMessageType[message.type])
           /\ \A p \in DOMAIN subscriptionsByMessageType[message.type] :
                p \in Nat /\ subscriptionsByMessageType[message.type][p] \in Tokens
<1>1. message.type \in Types
  BY DEF IInv, TypeOK
<1>2. subscriptionsByMessageType[message.type] \in Seq(Tokens)
  BY <1>1 DEF IInv, TypeOK
<1>3. Distinct(subscriptionsByMessageType[message.type])
  BY <1>1 DEF IInv, IndexesAgree
<1>4. QED BY <1>2, <1>3

\* A step away from the messages, and one of a forwarder that takes nothing.
LEMMA DeliveryKept ==
    ASSUME IInv, Delivery, UNCHANGED <<routerVars, held, delivered>>,
           ~reading \/ UNCHANGED subscriptionsByMessageType,
           \A tok \in Tokens : forwarder'[tok] = "holding" => forwarder[tok] = "holding"
    PROVE  Delivery'
<1>1. UNCHANGED <<reading, message, pos, forwards, handled, refused, held, delivered>>
  BY DEF routerVars
<1>2. \A tok \in Tokens, n \in Nat : Before(tok, n) => Before(tok, n)'
  BY <1>1 DEF Before
<1>3. handled \in Nat /\ handled + 1 \in Nat
  BY MessageNumbers
<1>4. Newest'
  BY <1>1, <1>2, <1>3 DEF Delivery, Newest, Before
<1>5. Ahead'
  <2>1. SUFFICES ASSUME reading PROVE Ahead'
    BY <1>1 DEF Ahead
  <2>2. \A p \in DOMAIN subscriptionsByMessageType[message.type] :
          subscriptionsByMessageType[message.type][p] \in Tokens
    BY SubscribersAreTokens
  <2>3. UNCHANGED subscriptionsByMessageType
    BY <2>1
  <2>4. QED BY <1>1, <1>2, <1>3, <2>1, <2>2, <2>3 DEF Delivery, Ahead
<1>6. DeliveredInOrder' /\ RefusedIsNeverDelivered'
  BY <1>1 DEF Delivery, DeliveredInOrder, RefusedIsNeverDelivered
<1>7. QED BY <1>1, <1>4, <1>5, <1>6 DEF Delivery

\* A new message is later than all others.
LEMMA DeliveryHandleMessage ==
    ASSUME IInv, Delivery, NEW t \in Types, NEW wellFormed \in BOOLEAN, HandleMessage(t, wellFormed)
    PROVE  Delivery'
<1>1. /\ handled' = handled + 1
      /\ message'.type = t /\ subscriptionsByMessageType' = subscriptionsByMessageType
      /\ UNCHANGED <<refused, forwarder, held, delivered>>
  BY DEF HandleMessage, forwarderVars, indexVars
<1>2. \A tok \in Tokens : Before(tok, handled)' /\ Before(tok, handled + 1)'
  BY <1>1, MessageNumbers DEF Delivery, Newest, Before
<1>3. \A p \in DOMAIN subscriptionsByMessageType[t] : subscriptionsByMessageType[t][p] \in Tokens
  <2>1. subscriptionsByMessageType[t] \in Seq(Tokens)
    BY DEF IInv, TypeOK
  <2>2. QED BY <2>1
<1>4. Newest'
  BY <1>1, <1>2 DEF Delivery, Newest, Before
<1>5. handled' \notin refused' /\ \A m \in refused' : m <= handled'
  BY <1>1, MessageNumbers DEF Delivery
<1>6. Ahead'
  BY <1>1, <1>2, <1>3, <1>5 DEF Ahead
<1>7. DeliveredInOrder' /\ RefusedIsNeverDelivered'
  BY <1>1 DEF Delivery, DeliveredInOrder, RefusedIsNeverDelivered
<1>8. QED BY <1>4, <1>5, <1>6, <1>7 DEF Delivery

\* The subscriber at the position has not got the message, and comes only once
\* in the list.
LEMMA DeliveryForward ==
    ASSUME IInv, Delivery, NEW tok \in Tokens, Forward(tok)
    PROVE  Delivery'
<1> DEFINE subs == subscriptionsByMessageType[message.type]
<1>1. /\ reading /\ pos <= Len(subs) /\ subs[pos] = tok
      /\ forwarder[tok] = "receiving"
      /\ pos' = pos + 1 /\ forwards' = forwards + 1
      /\ UNCHANGED <<reading, message, handled, refused, delivered, subscriptionsByMessageType>>
  BY DEF Forward, Offering, indexVars
<1>2. /\ subs \in Seq(Tokens) /\ pos \in DOMAIN subs
      /\ \A p \in DOMAIN subs : p \in Nat /\ subs[p] \in Tokens /\ (p # pos => subs[p] # tok)
  <2>1. pos \in DOMAIN subs
    BY <1>1, SubscribersAreTokens DEF IInv, TypeOK
  <2>2. QED BY <1>1, <2>1, SubscribersAreTokens DEF Distinct
<1>3. Before(tok, handled)
  BY <1>1, <1>2 DEF Delivery, Ahead
<1>4. \A k \in Tokens \ {tok} : forwarder'[k] = forwarder[k] /\ held'[k] = held[k]
  BY DEF Forward, ForwarderTakes, IInv, TypeOK
<1>5. forwarder'[tok] = "holding" => held'[tok] = handled
  <2>1. CASE message.wellFormed
    BY <2>1 DEF Forward, ForwarderTakes, IInv, TypeOK
  <2>2. CASE ~message.wellFormed
    BY <1>1, <2>2 DEF Forward, ForwarderTakes
  <2>3. QED BY <2>1, <2>2
<1>6. \A k \in Tokens \ {tok}, n \in Nat : Before(k, n) => Before(k, n)'
  BY <1>1, <1>4 DEF Before
<1>7. handled \in Nat /\ handled + 1 \in Nat /\ handled < handled + 1 /\ forwards \in Nat /\ pos \in Nat
  BY MessageNumbers
<1>8. Newest'
  <2>1. Before(tok, handled + 1)'
    BY <1>1, <1>3, <1>5, MessageNumbers DEF Before
  <2>2. \A k \in Tokens \ {tok} : Before(k, handled + 1)'
    BY <1>1, <1>6, <1>7 DEF Delivery, Newest, Before
  <2>3. \A k \in Tokens : forwarder'[k] = "holding" =>
          \A i \in DOMAIN delivered'[k] : delivered'[k][i] < held'[k]
    BY <1>1, <1>3, <1>4, <1>5 DEF Delivery, Newest, Before
  <2>4. QED BY <2>1, <2>2, <2>3 DEF Newest
<1>9. Ahead'
  <2>1. \A p \in DOMAIN subs : p >= pos + 1 => subs[p] # tok /\ p >= pos /\ subs[p] \in Tokens
    BY <1>2, <1>7
  <2>2. \A p \in DOMAIN subs : p >= pos + 1 => Before(subs[p], handled)
    BY <1>1, <2>1 DEF Delivery, Ahead
  <2>3. \A p \in DOMAIN subs : p >= pos + 1 => Before(subs[p], handled)'
    BY <1>1, <1>4, <2>1, <2>2 DEF Before
  <2>4. forwards' # 0 /\ handled' \notin refused'
    BY <1>1, <1>7 DEF Delivery, Ahead
  <2>5. QED BY <1>1, <2>3, <2>4 DEF Ahead
<1>10. DeliveredInOrder'
  BY <1>1 DEF Delivery, DeliveredInOrder
<1>11. RefusedIsNeverDelivered'
  <2>1. handled \notin refused
    BY <1>1 DEF Delivery, Ahead
  <2>2. QED BY <1>1, <1>4, <1>5, <2>1 DEF Delivery, RefusedIsNeverDelivered
<1>12. QED BY <1>1, <1>8, <1>9, <1>10, <1>11 DEF Delivery

\* The router goes past a subscriber whose Lifetime is done.
LEMMA DeliveryDrop ==
    ASSUME IInv, Delivery, NEW tok \in Tokens, Drop(tok)
    PROVE  Delivery'
<1>1. /\ pos' = pos + 1
      /\ UNCHANGED <<reading, message, forwards, handled, refused, forwarder, held, delivered,
                     subscriptionsByMessageType>>
  BY DEF Drop, indexVars, forwarderVars
<1>2. \A k, n : Before(k, n) <=> Before(k, n)'
  BY <1>1 DEF Before
<1>3. Newest' /\ DeliveredInOrder' /\ RefusedIsNeverDelivered'
  BY <1>1 DEF Delivery, Newest, Before, DeliveredInOrder, RefusedIsNeverDelivered
<1>4. \A p \in DOMAIN subscriptionsByMessageType[message.type] : p >= pos + 1 => p >= pos
  BY MessageNumbers, SubscribersAreTokens
<1>5. Ahead'
  BY <1>1, <1>4 DEF Delivery, Ahead, Before
<1>6. QED BY <1>1, <1>3, <1>5 DEF Delivery

\* A message is refused when nobody has got it.
LEMMA DeliveryReturn ==
    ASSUME IInv, Delivery, HandleMessageReturn
    PROVE  Delivery'
<1>1. /\ reading /\ ~reading'
      /\ refused' = IF forwards = 0 THEN refused \cup {handled} ELSE refused
      /\ UNCHANGED <<handled, forwarder, held, delivered>>
  BY DEF HandleMessageReturn, forwarderVars
<1>2. Newest' /\ DeliveredInOrder' /\ Ahead'
  BY <1>1 DEF Delivery, Newest, Before, DeliveredInOrder, Ahead
<1>3. \A m \in refused' : m <= handled'
  BY <1>1, MessageNumbers DEF Delivery
<1>4. RefusedIsNeverDelivered'
  <2>1. CASE forwards = 0
    <3>1. \A tok \in Tokens : Before(tok, handled)
      BY <1>1, <2>1 DEF Delivery, Ahead
    <3>2. \A tok \in Tokens :
            /\ \A i \in DOMAIN delivered[tok] : delivered[tok][i] # handled
            /\ forwarder[tok] = "holding" => held[tok] # handled
      BY <3>1, MessageNumbers DEF Before
    <3>3. \A tok \in Tokens : handled \notin Elements(delivered[tok])
      BY <3>2 DEF Elements
    <3>4. refused' = refused \cup {handled}
      BY <1>1, <2>1
    <3>5. QED BY <1>1, <3>2, <3>3, <3>4 DEF Delivery, RefusedIsNeverDelivered
  <2>2. CASE forwards # 0
    BY <1>1, <2>2 DEF Delivery, RefusedIsNeverDelivered
  <2>3. QED BY <2>1, <2>2
<1>5. QED BY <1>2, <1>3, <1>4 DEF Delivery

\* The newest message of the subscriber is read after all others.
LEMMA DeliveryDeliver ==
    ASSUME IInv, Delivery, NEW tok \in Tokens, ForwarderDeliver(tok)
    PROVE  Delivery'
<1>1. /\ forwarder[tok] = "holding"
      /\ delivered' = [delivered EXCEPT ![tok] = Append(@, held[tok])]
      /\ forwarder' = [forwarder EXCEPT ![tok] = "receiving"]
      /\ UNCHANGED <<reading, message, pos, forwards, handled, refused, held, subscriptionsByMessageType>>
  BY DEF ForwarderDeliver, indexVars, routerVars
<1>2. /\ forwarder'[tok] = "receiving"
      /\ \A k \in Tokens \ {tok} : forwarder'[k] = forwarder[k] /\ delivered'[k] = delivered[k]
  BY <1>1 DEF IInv, TypeOK
<1> DEFINE d == delivered[tok]
           e == delivered'[tok]
<1>3. d \in Seq(Messages) /\ held[tok] \in Messages /\ e = Append(d, held[tok])
  BY <1>1 DEF IInv, TypeOK, HoldsMessage
<1> HIDE DEF d, e
<1>4. /\ DOMAIN d = 1..Len(d) /\ Len(d) \in Nat
      /\ DOMAIN e = 1..(Len(d) + 1)
      /\ \A i \in 1..Len(d) : e[i] = d[i]
      /\ e[Len(d) + 1] = held[tok]
  BY <1>3
<1>5. \A i \in DOMAIN d : d[i] < held[tok]
  BY <1>1 DEF Delivery, Newest, d
<1>6. \A i \in DOMAIN e : (i \in DOMAIN d /\ e[i] = d[i]) \/ e[i] = held[tok]
  BY <1>4
<1>7. \A k \in Tokens, n \in Nat : Before(k, n) => Before(k, n)'
  <2>1. \A k \in Tokens \ {tok}, n \in Nat : Before(k, n) => Before(k, n)'
    BY <1>1, <1>2 DEF Before
  <2>2. \A n \in Nat : Before(tok, n) => Before(tok, n)'
    BY <1>1, <1>2, <1>6 DEF Before, d, e
  <2>3. QED BY <2>1, <2>2
<1>8. handled \in Nat /\ handled + 1 \in Nat
  BY MessageNumbers
<1>9. Newest'
  <2>1. \A k \in Tokens : Before(k, handled + 1)'
    BY <1>1, <1>7, <1>8 DEF Delivery, Newest, Before
  <2>2. QED BY <1>1, <1>2, <2>1 DEF Delivery, Newest
<1>10. Ahead'
  <2>1. \A k \in Tokens : Before(k, handled) => Before(k, handled)'
    BY <1>1, <1>7, <1>8 DEF Before
  <2>2. QED BY <1>1, <2>1, SubscribersAreTokens DEF Delivery, Ahead
<1>11. DeliveredInOrder'
  <2>1. ASSUME NEW i \in DOMAIN e, NEW j \in DOMAIN e, i < j PROVE e[i] < e[j]
    <3>1. i \in 1..Len(d)
      BY <1>4, <2>1
    <3>2. CASE j \in 1..Len(d)
      BY <1>4, <2>1, <3>1, <3>2 DEF Delivery, DeliveredInOrder, d
    <3>3. CASE j = Len(d) + 1
      BY <1>4, <1>5, <3>1, <3>3
    <3>4. QED BY <1>4, <3>2, <3>3
  <2>2. QED BY <1>2, <2>1 DEF Delivery, DeliveredInOrder, e
<1>12. RefusedIsNeverDelivered'
  <2>1. Elements(e) = Elements(d) \cup {held[tok]}
    BY <1>4 DEF Elements
  <2>2. Elements(e) \cap refused = {}
    BY <1>1, <2>1 DEF Delivery, RefusedIsNeverDelivered, d
  <2>3. QED BY <1>1, <1>2, <2>2 DEF Delivery, RefusedIsNeverDelivered, e
<1>13. QED BY <1>1, <1>9, <1>10, <1>11, <1>12 DEF Delivery

\* Every step keeps the order of what is delivered.
LEMMA DeliveryNext == IInv /\ Delivery /\ [Next]_vars => Delivery'
<1> SUFFICES ASSUME IInv, Delivery, [Next]_vars PROVE Delivery'
  OBVIOUS
<1>1. ASSUME NEW t \in Types, SubscribeMessageType(t) PROVE Delivery'
  <2>1. UNCHANGED <<routerVars, held, delivered>> /\ ~reading
    BY <1>1 DEF SubscribeMessageType, LockGranted
  <2>2. \A k \in Tokens : forwarder'[k] = "holding" => forwarder[k] = "holding"
    BY <1>1 DEF SubscribeMessageType, IInv, TypeOK
  <2>3. QED BY <2>1, <2>2, DeliveryKept
<1>2. ASSUME NEW tok \in Tokens, ForwarderClose(tok) PROVE Delivery'
  <2>1. UNCHANGED <<routerVars, held, delivered, subscriptionsByMessageType>>
    BY <1>2 DEF ForwarderClose, indexVars
  <2>2. \A k \in Tokens : forwarder'[k] = "holding" => forwarder[k] = "holding"
    BY <1>2 DEF ForwarderClose, IInv, TypeOK
  <2>3. QED BY <2>1, <2>2, DeliveryKept
<1>3. ASSUME NEW by \in Callers, NEW tok \in Tokens, UnsubscribeRemove(by, tok) PROVE Delivery'
  <2>1. UNCHANGED <<routerVars, held, delivered>> /\ forwarder' = forwarder /\ ~reading
    BY <1>3 DEF UnsubscribeRemove, LockGranted, forwarderVars
  <2>2. QED BY <2>1, DeliveryKept
<1>4. ASSUME \/ \E t \in Types : SubscribeLock(t)
             \/ \E tok \in Tokens : OwnerStops(tok) \/ OwnerUnsubscribe(tok)
             \/ \E by \in Callers, tok \in Tokens : UnsubscribeShutdown(by, tok) \/ UnsubscribeLock(by, tok)
             \/ \E c \in Cancellers : CancelAllLock(c) \/ CancelAllSpawn(c) \/ CancelAllReturn(c)
             \/ Terminated
             \/ UNCHANGED vars
      PROVE  Delivery'
  <2>1. UNCHANGED <<routerVars, held, delivered>> /\ forwarder' = forwarder
          /\ UNCHANGED subscriptionsByMessageType
    BY <1>4, Zenon
    DEF SubscribeLock, OwnerStops, OwnerUnsubscribe, UnsubscribeShutdown, UnsubscribeLock, CancelAllLock,
        CancelAllSpawn, CancelAllReturn, Terminated, vars, indexVars, routerVars, forwarderVars
  <2>2. QED BY <2>1, DeliveryKept
<1>5. QED
  BY <1>1, <1>2, <1>3, <1>4, DeliveryHandleMessage, DeliveryForward, DeliveryDrop, DeliveryReturn,
     DeliveryDeliver
  DEF Next

\* The order of what is delivered holds in every reachable state.
LEMMA DeliveryInvariance == Spec => []Delivery
<1>1. Init => Delivery
  <2> SUFFICES ASSUME Init PROVE Delivery
    OBVIOUS
  <2>1. \A tok \in Tokens : DOMAIN delivered[tok] = {} /\ forwarder[tok] = "none"
    BY DEF Init
  <2>2. Newest /\ DeliveredInOrder
    BY <2>1 DEF Newest, Before, DeliveredInOrder
  <2>3. Ahead /\ RefusedIsNeverDelivered /\ refused = {}
    BY <2>1 DEF Init, Ahead, RefusedIsNeverDelivered
  <2>4. QED BY <2>2, <2>3 DEF Delivery
<1>2. QED BY <1>1, DeliveryNext, Invariance, PTL DEF Spec

\* HandleMessage and the forwarders deliver in order and nothing twice, however
\* slow the consumers are and whatever is subscribed and unsubscribed meanwhile:
\* the router offers a message once to each of the distinct tokens in a list
\* that cannot change under it.
THEOREM AlwaysDeliveredInOrder == Spec => []DeliveredInOrder
<1>1. Delivery => DeliveredInOrder
  BY DEF Delivery
<1>2. QED BY <1>1, DeliveryInvariance, PTL

\* HandleMessage answers "forbidden" only to what no forwarder took.
THEOREM NoRefusedIsDelivered == Spec => []RefusedIsNeverDelivered
<1>1. Delivery => RefusedIsNeverDelivered
  BY DEF Delivery
<1>2. QED BY <1>1, DeliveryInvariance, PTL

----------------------------------------------------------------------------
(* No deadlock.  ENABLED is beyond the provers: the goroutines that can move *)
(* are told by the guards of their actions, those that need nobody outside   *)
(* to call in.                                                               *)

\* HandleMessage goes on to the next subscriber or returns.
RouterCanMove ==
    \/ \E tok \in Tokens : Offering(tok) /\ (forwarder[tok] = "receiving" \/ tok \notin alive)
    \/ reading /\ pos > Len(subscriptionsByMessageType[message.type])

\* A forwarder delivers or closes.
ForwarderCanMove ==
    \E tok \in Tokens :
        \/ forwarder[tok] = "holding" /\ consumer[tok] = "reading"
        \/ forwarder[tok] \in {"receiving", "holding"} /\ tok \notin alive

\* A writer is granted the lock, or Unsubscribe gets to its next lock.
WriterCanMove ==
    \/ \E t \in Types : LockGranted(Subscriber(t))
    \/ \E by \in Callers, tok \in Tokens :
         \/ LockGranted(Remover(by, tok))
         \/ unsubscribe[<<by, tok>>] \in {"shutdown", "lock"} /\ RLockFree
    \/ \E c \in Cancellers :
         \/ LockGranted(CancelAll(c))
         \/ /\ canceller[c] = "wait"
            /\ \A tok \in Tokens : unsubscribe[<<c, tok>>] \in Returned \cup {"idle"}

SomeoneCanMove == RouterCanMove \/ ForwarderCanMove \/ WriterCanMove

\* Every call that was made has returned, and every newsletter whose Lifetime is
\* done has been closed; the others wait for a message, or offer one to an owner
\* that has left its loop and not called Unsubscribe yet.
AtRest ==
    /\ ~reading /\ lockWaiter = {}
    /\ \A by \in Callers, tok \in Tokens : unsubscribe[<<by, tok>>] \in Returned \cup {"idle"}
    /\ \A c \in Cancellers : canceller[c] \in {"idle", "done"}
    /\ \A tok \in 1..subscriptionCounter :
         IF tok \notin alive THEN forwarder[tok] = "closed"
         ELSE \/ forwarder[tok] = "receiving"
              \/ /\ forwarder[tok] = "holding" /\ consumer[tok] = "stopped"
                 /\ unsubscribe[<<Owner, tok>>] = "idle"

\* Router, forwarders, consumers, Unsubscribe and CancelAllSubscriptions wait for
\* each other in a circle in no other way than the one that Stuck describes, and
\* for an owner's call in no other way than Abandoned does.
NoDeadlock == Stuck \/ Abandoned \/ SomeoneCanMove \/ AtRest

\* What the goroutines know of each other.
ForwarderStates ==
    \A tok \in Tokens :
        /\ forwarder[tok] = "none" <=> tok > subscriptionCounter
        /\ forwarder[tok] = "closed" => tok \notin alive

CancelAllAtLock ==
    \A c \in Cancellers : canceller[c] = "lock" => lockWaiter = {CancelAll(c)}

WaitsInv == ForwarderStates /\ CancelAllAtLock

\* The name of a writer tells the operation, and the caller of CancelAll.
LEMMA WritersDiffer ==
    /\ \A t \in Types, c \in Cancellers : {Subscriber(t)} # {CancelAll(c)}
    /\ \A by \in Callers, tok \in Tokens, c \in Cancellers : {Remover(by, tok)} # {CancelAll(c)}
    /\ \A c, d \in Cancellers : {CancelAll(c)} = {CancelAll(d)} => c = d
<1>1. /\ \A t \in Types : Subscriber(t)[1] = "subscribe"
      /\ \A by \in Callers, tok \in Tokens : Remover(by, tok)[1] = "remove"
      /\ \A c \in Cancellers : CancelAll(c)[1] = "cancelAll" /\ CancelAll(c)[2] = c
  BY DEF Subscriber, Remover, CancelAll
<1>2. \A v, w : {v} = {w} => v = w
  OBVIOUS
<1> QED
  BY <1>1, <1>2

\* At the start no token has been handed out and nobody has called.
LEMMA WaitsInvInit == Init => WaitsInv
<1> SUFFICES ASSUME Init PROVE WaitsInv
  OBVIOUS
<1>1. ForwarderStates
  BY ConstantsAssumption DEF Init, ForwarderStates, Tokens, ConstantsAssumption
<1>2. CancelAllAtLock
  BY DEF Init, CancelAllAtLock
<1> QED
  BY <1>1, <1>2 DEF WaitsInv

\* Subscribing starts the forwarder of the token that is handed out.
LEMMA WaitsInvSubscribe ==
    ASSUME IInv, WaitsInv, NEW t \in Types, SubscribeLock(t) \/ SubscribeMessageType(t)
    PROVE  WaitsInv'
<1>1. UNCHANGED canceller
  BY DEF SubscribeLock, SubscribeMessageType
<1>2. \A c \in Cancellers : canceller[c] # "lock"
  <2> SUFFICES ASSUME NEW c \in Cancellers, canceller[c] = "lock" PROVE FALSE
    OBVIOUS
  <2>1. lockWaiter = {CancelAll(c)}
    BY DEF WaitsInv, CancelAllAtLock
  <2>2. lockWaiter = {} \/ lockWaiter = {Subscriber(t)}
    BY DEF SubscribeLock, SubscribeMessageType, AnnounceLock, LockGranted
  <2> QED
    BY <2>1, <2>2, WritersDiffer
<1>3. CancelAllAtLock'
  BY <1>1, <1>2 DEF CancelAllAtLock
<1>4. ForwarderStates'
  <2>1. CASE SubscribeLock(t)
    BY <2>1 DEF SubscribeLock, indexVars, forwarderVars, WaitsInv, ForwarderStates
  <2>2. CASE SubscribeMessageType(t)
    <3> DEFINE new == subscriptionCounter + 1
    <3>1. /\ subscriptionCounter' = new /\ alive' = alive \cup {new}
          /\ forwarder' = [forwarder EXCEPT ![new] = "receiving"]
      BY <2>2 DEF SubscribeMessageType, NextToken
    <3>2. subscriptionCounter < MaxTokens
      BY <2>2 DEF SubscribeMessageType, LockGranted, IInv, WaiterAtLock
    <3>3. new \in Tokens /\ subscriptionCounter \in Nat
      BY <3>2, ConstantsAssumption DEF IInv, TypeOK, Tokens, ConstantsAssumption
    <3>4. forwarder \in [Tokens -> {"none", "receiving", "holding", "closed"}]
      BY DEF IInv, TypeOK
    <3>5. ASSUME NEW tok \in Tokens
          PROVE  /\ forwarder'[tok] = "none" <=> tok > new
                 /\ forwarder'[tok] = "closed" => tok \notin alive'
      <4>1. tok \in Nat
        BY ConstantsAssumption DEF Tokens, ConstantsAssumption
      <4>2. CASE tok = new
        BY <3>1, <3>3, <3>4, <4>1, <4>2
      <4>3. CASE tok # new
        <5>1. tok > new <=> tok > subscriptionCounter
          BY <3>3, <4>1, <4>3
        <5> QED
          BY <3>1, <3>4, <4>3, <5>1 DEF WaitsInv, ForwarderStates
      <4> QED
        BY <4>2, <4>3
    <3> QED
      BY <3>1, <3>5 DEF ForwarderStates
  <2> QED
    BY <2>1, <2>2
<1> QED
  BY <1>3, <1>4 DEF WaitsInv

\* Messages move forwarders between receiving and holding; one that closes has
\* seen the end of the Lifetime.
LEMMA WaitsInvMessages ==
    ASSUME IInv, WaitsInv,
           \/ \E t \in Types, wellFormed \in BOOLEAN : HandleMessage(t, wellFormed)
           \/ HandleMessageReturn
           \/ \E tok \in Tokens : \/ Forward(tok) \/ Drop(tok)
                                  \/ ForwarderDeliver(tok) \/ ForwarderClose(tok)
    PROVE  WaitsInv'
<1>1. UNCHANGED <<subscriptionCounter, alive, lockWaiter, canceller>>
  BY DEF HandleMessage, HandleMessageReturn, Forward, Drop, ForwarderDeliver,
         ForwarderClose, indexVars, forwarderVars
<1>2. CancelAllAtLock'
  BY <1>1 DEF WaitsInv, CancelAllAtLock
<1> DEFINE Moves ==
        \E tok \in Tokens, pc \in {"receiving", "holding", "closed"} :
            /\ forwarder' = [forwarder EXCEPT ![tok] = pc]
            /\ forwarder[tok] # "none" /\ (pc = "closed" => tok \notin alive)
<1>3. UNCHANGED forwarder \/ Moves
  <2>1. CASE \/ \E t \in Types, wellFormed \in BOOLEAN : HandleMessage(t, wellFormed)
             \/ HandleMessageReturn \/ \E tok \in Tokens : Drop(tok)
    BY <2>1 DEF HandleMessage, HandleMessageReturn, Drop, forwarderVars
  <2>2. ASSUME NEW tok \in Tokens, Forward(tok) PROVE UNCHANGED forwarder \/ Moves
    <3>1. CASE message.wellFormed
      BY <2>2, <3>1 DEF Forward, ForwarderTakes
    <3>2. CASE ~message.wellFormed
      BY <2>2, <3>2 DEF Forward, ForwarderTakes
    <3> QED
      BY <3>1, <3>2
  <2>3. ASSUME NEW tok \in Tokens, ForwarderDeliver(tok) \/ ForwarderClose(tok) PROVE UNCHANGED forwarder \/ Moves
    BY <2>3 DEF ForwarderDeliver, ForwarderClose
  <2> QED
    BY <2>1, <2>2, <2>3
<1>4. forwarder \in [Tokens -> {"none", "receiving", "holding", "closed"}]
  BY DEF IInv, TypeOK
<1>5. ForwarderStates'
  BY <1>1, <1>3, <1>4 DEF WaitsInv, ForwarderStates
<1> QED
  BY <1>2, <1>5 DEF WaitsInv

\* A call of Unsubscribe, from the owner's receive loop on or by CancelAll.
LEMMA WaitsInvUnsubscribe ==
    ASSUME IInv, WaitsInv, NEW by \in Callers, NEW tok \in Tokens,
           \/ OwnerStops(tok) \/ OwnerUnsubscribe(tok)
           \/ UnsubscribeShutdown(by, tok) \/ UnsubscribeLock(by, tok)
           \/ UnsubscribeRemove(by, tok)
    PROVE  WaitsInv'
<1>1. UNCHANGED <<subscriptionCounter, forwarder, canceller>> /\ alive' \subseteq alive
  BY DEF OwnerStops, OwnerUnsubscribe, UnsubscribeShutdown, UnsubscribeLock, UnsubscribeRemove,
         indexVars, forwarderVars
<1>2. ForwarderStates'
  BY <1>1 DEF WaitsInv, ForwarderStates
<1>3. CancelAllAtLock'
  <2> SUFFICES ASSUME NEW c \in Cancellers, canceller[c] = "lock"
               PROVE  lockWaiter' = {CancelAll(c)}
    BY <1>1 DEF CancelAllAtLock
  <2>1. lockWaiter = {CancelAll(c)}
    BY DEF WaitsInv, CancelAllAtLock
  <2>2. lockWaiter # {} /\ lockWaiter # {Remover(by, tok)}
    BY <2>1, WritersDiffer
  <2> QED
    BY <2>1, <2>2 DEF OwnerStops, OwnerUnsubscribe, UnsubscribeShutdown, UnsubscribeLock,
       UnsubscribeRemove, AnnounceLock, LockGranted, RLockFree
<1> QED
  BY <1>2, <1>3 DEF WaitsInv

\* CancelAllSubscriptions waits for its lock and then for its calls.
LEMMA WaitsInvCancelAll ==
    ASSUME IInv, WaitsInv, NEW c \in Cancellers,
           CancelAllLock(c) \/ CancelAllSpawn(c) \/ CancelAllReturn(c)
    PROVE  WaitsInv'
<1>1. UNCHANGED <<subscriptionCounter, forwarder, alive>>
  BY DEF CancelAllLock, CancelAllSpawn, CancelAllReturn, indexVars, forwarderVars
<1>2. ForwarderStates'
  BY <1>1 DEF WaitsInv, ForwarderStates
<1>3. CancelAllAtLock'
  <2> SUFFICES ASSUME NEW d \in Cancellers, canceller'[d] = "lock"
               PROVE  lockWaiter' = {CancelAll(d)}
    BY DEF CancelAllAtLock
  <2>1. canceller \in [Cancellers -> {"idle", "lock", "wait", "done"}]
    BY DEF IInv, TypeOK
  <2>2. CASE canceller[d] = "lock"
    <3>1. lockWaiter = {CancelAll(d)}
      BY <2>2 DEF WaitsInv, CancelAllAtLock
    <3>2. lockWaiter = {CancelAll(c)} => c = d
      BY <3>1, WritersDiffer
    <3> QED
      BY <2>1, <2>2, <3>1, <3>2
      DEF CancelAllLock, CancelAllSpawn, CancelAllReturn, AnnounceLock, LockGranted
  <2>3. CASE canceller[d] # "lock"
    BY <2>1, <2>3 DEF CancelAllLock, CancelAllSpawn, CancelAllReturn, AnnounceLock
  <2> QED
    BY <2>2, <2>3
<1> QED
  BY <1>2, <1>3 DEF WaitsInv

\* Every step keeps what the goroutines know of each other.
LEMMA WaitsInvNext == IInv /\ WaitsInv /\ [Next]_vars => WaitsInv'
<1> SUFFICES ASSUME IInv, WaitsInv, [Next]_vars PROVE WaitsInv'
  OBVIOUS
<1>1. CASE UNCHANGED vars
  BY <1>1 DEF WaitsInv, ForwarderStates, CancelAllAtLock, vars
<1>2. CASE Terminated
  BY <1>1, <1>2 DEF Terminated
<1>3. Owner \in Callers
  BY DEF Callers
<1> QED
  BY <1>1, <1>2, <1>3, WaitsInvSubscribe, WaitsInvMessages, WaitsInvUnsubscribe,
     WaitsInvCancelAll DEF Next

\* HandleMessage is not the one that waits without end: the subscriber that it
\* offers the message to is alive, holds another one and has an owner that does
\* not read it but has called to end the Lifetime, for which it needs no lock but the
\* read lock that only an announced writer denies.
LEMMA RouterIsFree ==
    ASSUME IInv, WaitsInv, ~Stuck, ~Abandoned, ~SomeoneCanMove
    PROVE  ~reading
<1> SUFFICES ASSUME reading PROVE FALSE
  OBVIOUS
<1> DEFINE subs == subscriptionsByMessageType[message.type]
           tok == subs[pos]
<1>1. subs \in Seq(Tokens) /\ pos \in Nat \ {0} /\ message.type \in Types
  BY SubscribersAreTokens DEF IInv, TypeOK
<1>2. pos <= Len(subs)
  BY <1>1 DEF SomeoneCanMove, RouterCanMove
<1>3. tok \in Tokens /\ tok \in Elements(subs)
  BY <1>1, <1>2 DEF Elements
<1>4. tok \in 1..subscriptionCounter
  BY <1>1, <1>3 DEF IInv, IndexesAgree, TokensHandedOut
<1>5. Offering(tok)
  BY <1>2 DEF Offering
<1> HIDE DEF subs, tok
<1>6. tok \in alive /\ forwarder[tok] # "receiving"
  BY <1>3, <1>5 DEF SomeoneCanMove, RouterCanMove
<1>7. forwarder[tok] = "holding"
  <2>1. subscriptionCounter \in Nat
    BY ConstantsAssumption DEF IInv, TypeOK, ConstantsAssumption
  <2>2. forwarder[tok] # "none"
    BY <1>3, <1>4, <2>1 DEF WaitsInv, ForwarderStates
  <2> QED
    BY <1>3, <1>6, <2>2 DEF WaitsInv, ForwarderStates, IInv, TypeOK
<1>8. consumer[tok] = "stopped"
  BY <1>3, <1>7 DEF SomeoneCanMove, ForwarderCanMove, IInv, TypeOK
<1>9. lockWaiter = {}
  BY <1>5, <1>6, <1>7, <1>8 DEF Stuck
<1>10. Owner \in Callers /\ unsubscribe[<<Owner, tok>>] # "idle"
  BY <1>5, <1>6, <1>7, <1>8 DEF Abandoned, Callers
<1>11. unsubscribe[<<Owner, tok>>] \notin {"shutdown", "lock"}
  BY <1>3, <1>9, <1>10 DEF SomeoneCanMove, WriterCanMove, RLockFree
<1>12. unsubscribe[<<Owner, tok>>] \in {"ok", "unknown", "corrupt"}
  <2>1. <<Owner, tok>> \in Callers \X Tokens
    BY <1>3, <1>10
  <2> QED
    BY <1>10, <1>11, <2>1 DEF IInv, TypeOK
<1>13. tok \notin alive
  BY <1>3, <1>10, <1>12 DEF IInv, UnsubscribeProgress, CallProgress
<1> QED
  BY <1>6, <1>13

\* With the router out of the way every lock is granted, and all calls return.
LEMMA RestIsReached ==
    ASSUME IInv, WaitsInv, ~SomeoneCanMove, ~reading
    PROVE  AtRest
<1>1. lockWaiter = {}
  <2> SUFFICES ASSUME NEW w \in Writers, lockWaiter = {w} PROVE FALSE
    BY DEF IInv, TypeOK
  <2>1. LockGranted(w)
    BY DEF LockGranted
  <2> QED
    BY <2>1 DEF SomeoneCanMove, WriterCanMove, Writers
<1>2. ASSUME NEW by \in Callers, NEW tok \in Tokens
      PROVE  unsubscribe[<<by, tok>>] \in Returned \cup {"idle"}
  <2>1. unsubscribe[<<by, tok>>] \notin {"shutdown", "lock"}
    BY <1>1 DEF SomeoneCanMove, WriterCanMove, RLockFree
  <2>2. <<by, tok>> \in Callers \X Tokens
    OBVIOUS
  <2> QED
    BY <2>1, <2>2 DEF IInv, TypeOK, Returned
<1>3. ASSUME NEW c \in Cancellers PROVE canceller[c] \in {"idle", "done"}
  <2>1. canceller[c] # "lock"
    BY <1>1 DEF WaitsInv, CancelAllAtLock
  <2>2. canceller[c] # "wait"
    BY <1>2 DEF SomeoneCanMove, WriterCanMove, Callers
  <2> QED
    BY <2>1, <2>2 DEF IInv, TypeOK
<1>4. ASSUME NEW tok \in 1..subscriptionCounter
      PROVE  IF tok \notin alive THEN forwarder[tok] = "closed"
             ELSE \/ forwarder[tok] = "receiving"
                  \/ /\ forwarder[tok] = "holding" /\ consumer[tok] = "stopped"
                     /\ unsubscribe[<<Owner, tok>>] = "idle"
  <2>1. tok \in Tokens /\ tok \in Nat /\ subscriptionCounter \in Nat /\ tok <= subscriptionCounter
    BY ConstantsAssumption DEF IInv, TypeOK, Tokens, ConstantsAssumption
  <2>2. forwarder[tok] \in {"receiving", "holding", "closed"}
    BY <2>1 DEF IInv, TypeOK, WaitsInv, ForwarderStates
  <2>3. CASE tok \notin alive
    BY <2>1, <2>2, <2>3 DEF SomeoneCanMove, ForwarderCanMove
  <2>4. CASE tok \in alive
    <3>1. forwarder[tok] # "closed"
      BY <2>1, <2>4 DEF WaitsInv, ForwarderStates
    <3>2. SUFFICES ASSUME forwarder[tok] = "holding",
                          ~(consumer[tok] = "stopped" /\ unsubscribe[<<Owner, tok>>] = "idle")
                   PROVE  FALSE
      BY <2>2, <2>4, <3>1
    <3>3. consumer[tok] = "stopped"
      BY <2>1, <3>2 DEF SomeoneCanMove, ForwarderCanMove, IInv, TypeOK
    <3>4. Owner \in Callers /\ unsubscribe[<<Owner, tok>>] # "idle"
      BY <3>2, <3>3 DEF Callers
    <3>5. unsubscribe[<<Owner, tok>>] \in {"ok", "unknown", "corrupt"}
      BY <1>2, <2>1, <3>4 DEF Returned
    <3> QED
      BY <2>1, <2>4, <3>4, <3>5 DEF IInv, UnsubscribeProgress, CallProgress
  <2> QED
    BY <2>3, <2>4
<1> QED
  BY <1>1, <1>2, <1>3, <1>4 DEF AtRest

\* HandleMessage, the forwarders, their consumers, Unsubscribe and
\* CancelAllSubscriptions block each other in one way only: the announced writer
\* that keeps Unsubscribe from ending the Lifetime which HandleMessage waits for.
\* HandleMessage also waits while an owner that has left its loop has not called
\* Unsubscribe. In every other state somebody can go on, until all calls have returned.
THEOREM OnlyStuckIsDeadlock == Spec => []NoDeadlock
<1>1. IInv /\ WaitsInv => NoDeadlock
  BY RouterIsFree, RestIsReached DEF NoDeadlock
<1>2. Spec => []WaitsInv
  BY Invariance, WaitsInvInit, WaitsInvNext, PTL DEF Spec
<1> QED
  BY Invariance, <1>1, <1>2, PTL

\* Neither the subscriber that would have to read, nor its forwarder, nor the
\* call of Unsubscribe that would let go of it can do anything anymore.
StuckIsForGood == [][Stuck => Stuck']_vars

\* Every later message of the device waits behind the one that HandleMessage holds,
\* and so does fire(), through CancelAllSubscriptions: a step of no other goroutine,
\* and no further subscription or cancellation, gets them out.
THEOREM StuckStaysStuck == Spec => StuckIsForGood
<1>1. IInv /\ [Next]_vars => (Stuck => Stuck')
  <2> SUFFICES ASSUME IInv, [Next]_vars, Stuck PROVE Stuck'
    OBVIOUS
  <2>1. PICK tok \in alive : Offering(tok) /\ forwarder[tok] = "holding" /\ consumer[tok] = "stopped"
    BY DEF Stuck
  <2>2. tok \in Tokens /\ lockWaiter # {} /\ reading
    BY <2>1 DEF IInv, TypeOK, Stuck, Offering
  <2>3. SUFFICES /\ UNCHANGED <<alive, lockWaiter, reading, message, pos, subscriptionsByMessageType>>
                 /\ forwarder'[tok] = forwarder[tok] /\ consumer'[tok] = consumer[tok]
    BY <2>1, <2>2 DEF Stuck, Offering
  <2>4. CASE UNCHANGED vars
    BY <2>4 DEF vars
  <2>5. ASSUME NEW t \in Types, SubscribeLock(t) \/ SubscribeMessageType(t) PROVE FALSE
    BY <2>2, <2>5 DEF SubscribeLock, AnnounceLock, SubscribeMessageType, LockGranted
  <2>6. ASSUME NEW t \in Types, NEW wellFormed \in BOOLEAN, HandleMessage(t, wellFormed) PROVE FALSE
    BY <2>2, <2>6 DEF HandleMessage
  <2>7. ~HandleMessageReturn
    <3>1. subscriptionsByMessageType[message.type] \in Seq(Tokens) /\ pos \in Nat
      BY DEF IInv, TypeOK
    <3> QED
      BY <2>1, <3>1 DEF HandleMessageReturn, Offering
  <2>8. ASSUME NEW other \in Tokens, Forward(other) \/ Drop(other) PROVE FALSE
    BY <2>1, <2>8 DEF Forward, Drop, Offering
  <2>9. ASSUME NEW other \in Tokens, ForwarderDeliver(other) \/ ForwarderClose(other)
        PROVE  /\ UNCHANGED <<alive, lockWaiter, reading, message, pos, subscriptionsByMessageType>>
               /\ forwarder'[tok] = forwarder[tok] /\ consumer'[tok] = consumer[tok]
    <3>1. other # tok
      BY <2>1, <2>9 DEF ForwarderDeliver, ForwarderClose
    <3> QED
      BY <2>2, <2>9, <3>1 DEF ForwarderDeliver, ForwarderClose, indexVars, routerVars, IInv, TypeOK
  <2>10. ASSUME NEW other \in Tokens, OwnerStops(other) \/ OwnerUnsubscribe(other)
         PROVE  /\ UNCHANGED <<alive, lockWaiter, reading, message, pos, subscriptionsByMessageType>>
                /\ forwarder'[tok] = forwarder[tok] /\ consumer'[tok] = consumer[tok]
    BY <2>1, <2>2, <2>10 DEF OwnerStops, OwnerUnsubscribe, indexVars, routerVars, forwarderVars, IInv, TypeOK
  <2>11. ASSUME NEW by \in Callers, NEW other \in Tokens,
                \/ UnsubscribeShutdown(by, other) \/ UnsubscribeLock(by, other)
                \/ UnsubscribeRemove(by, other)
         PROVE  FALSE
    BY <2>2, <2>11 DEF UnsubscribeShutdown, RLockFree, UnsubscribeLock, AnnounceLock,
       UnsubscribeRemove, LockGranted
  <2>12. ASSUME NEW c \in Cancellers, CancelAllLock(c) \/ CancelAllSpawn(c) PROVE FALSE
    BY <2>2, <2>12 DEF CancelAllLock, AnnounceLock, CancelAllSpawn, LockGranted
  <2>13. ASSUME NEW c \in Cancellers, CancelAllReturn(c)
         PROVE  /\ UNCHANGED <<alive, lockWaiter, reading, message, pos, subscriptionsByMessageType>>
                /\ forwarder'[tok] = forwarder[tok] /\ consumer'[tok] = consumer[tok]
    BY <2>13 DEF CancelAllReturn, indexVars, routerVars, forwarderVars
  <2>14. ~Terminated
    BY <2>2 DEF Terminated
  <2> QED
    BY <2>4, <2>5, <2>6, <2>7, <2>8, <2>9, <2>10, <2>11, <2>12, <2>13, <2>14 DEF Next
<1> QED
  BY Invariance, <1>1, PTL DEF Spec, StuckIsForGood

----------------------------------------------------------------------------
(* The refinement of Newsletters: what subscribers and senders see.          *)

\* Between messages HandleMessage starts from the beginning.
RouterIsReset == ~reading => pos = 1 /\ forwards = 0

\* HandleMessage leaves its loop as it found it.
LEMMA RouterResetInvariance == Spec => []RouterIsReset
<1>1. Init => RouterIsReset
  BY DEF Init, RouterIsReset
<1>2. RouterIsReset /\ [Next]_vars => RouterIsReset'
  <2> SUFFICES ASSUME RouterIsReset, [Next]_vars PROVE RouterIsReset'
    OBVIOUS
  <2>1. ASSUME NEW t \in Types, NEW wellFormed \in BOOLEAN, HandleMessage(t, wellFormed)
        PROVE  RouterIsReset'
    BY <2>1 DEF HandleMessage, RouterIsReset
  <2>2. CASE HandleMessageReturn
    BY <2>2 DEF HandleMessageReturn, RouterIsReset
  <2>3. ASSUME NEW tok \in Tokens, Forward(tok) \/ Drop(tok) PROVE RouterIsReset'
    BY <2>3 DEF Forward, Drop, Offering, RouterIsReset
  <2>4. CASE UNCHANGED routerVars
    BY <2>4 DEF routerVars, RouterIsReset
  <2>5. ASSUME NEW t \in Types, SubscribeLock(t) \/ SubscribeMessageType(t)
        PROVE  UNCHANGED routerVars
    BY <2>5 DEF SubscribeLock, SubscribeMessageType
  <2>6. ASSUME NEW tok \in Tokens, ForwarderDeliver(tok) \/ ForwarderClose(tok)
                                     \/ OwnerStops(tok) \/ OwnerUnsubscribe(tok)
        PROVE  UNCHANGED routerVars
    BY <2>6 DEF ForwarderDeliver, ForwarderClose, OwnerStops, OwnerUnsubscribe
  <2>7. ASSUME NEW by \in Callers, NEW tok \in Tokens,
               UnsubscribeShutdown(by, tok) \/ UnsubscribeLock(by, tok) \/ UnsubscribeRemove(by, tok)
        PROVE  UNCHANGED routerVars
    BY <2>7 DEF UnsubscribeShutdown, UnsubscribeLock, UnsubscribeRemove
  <2>8. ASSUME NEW c \in Cancellers, CancelAllLock(c) \/ CancelAllSpawn(c) \/ CancelAllReturn(c)
        PROVE  UNCHANGED routerVars
    BY <2>8 DEF CancelAllLock, CancelAllSpawn, CancelAllReturn
  <2>9. CASE Terminated \/ UNCHANGED vars
    BY <2>4, <2>9 DEF Terminated, vars, routerVars
  <2> QED
    BY <2>1, <2>2, <2>3, <2>4, <2>5, <2>6, <2>7, <2>8, <2>9 DEF Next
<1> QED
  BY <1>1, <1>2, PTL DEF Spec

\* Nobody is asked between messages.
LEMMA NobodyAsked == ~reading => Asked = {} /\ Current = 0
BY DEF Asked, Current

\* The message being handled and who was asked stay the same when HandleMessage
\* does and the lists do, or no message is being handled.
LEMMA AskedKept ==
    ASSUME UNCHANGED routerVars, ~reading \/ UNCHANGED subscriptionsByMessageType
    PROVE  UNCHANGED <<handled, Current, message.type, Asked, forwards > 0, refused>>
<1>1. UNCHANGED <<reading, message, pos, forwards, handled, refused>>
  BY DEF routerVars
<1>2. CASE reading
  BY <1>1, <1>2 DEF Current, Asked
<1>3. CASE ~reading
  BY <1>1, <1>3 DEF Current, Asked
<1> QED
  BY <1>2, <1>3

\* What the newsletters have for their readers depends on the forwarders.
LEMMA HoldingKept ==
    ASSUME UNCHANGED <<forwarder, held>> PROVE UNCHANGED <<Holding, Closed>>
BY DEF Holding, Closed

\* A step that moves nothing but locks, callers and consumers is not seen.
LEMMA UnseenStep ==
    ASSUME UNCHANGED <<indexVars, alive, routerVars, forwarder, held, delivered>>
    PROVE  UNCHANGED Newsletter!vars
<1>1. UNCHANGED <<handled, Current, message.type, Asked, forwards > 0, refused, Holding, Closed>>
  BY AskedKept, HoldingKept DEF indexVars
<1>2. UNCHANGED <<subscriptionCounter, messageType, subscriptionsByToken, alive, delivered>>
  BY DEF indexVars
<1> QED
  BY <1>1, <1>2 DEF Newsletter!vars, Newsletter!subscriptionVars, Newsletter!messageVars,
     Newsletter!readerVars

\* SubscribeMessageType hands a subscription out that nobody has had.
LEMMA SubscribeIsSeen ==
    ASSUME IInv, WaitsInv, NEW t \in Types, SubscribeMessageType(t)
    PROVE  \E s \in Tokens : Newsletter!Subscribe(s, t)
<1> DEFINE new == subscriptionCounter + 1
<1>1. /\ ~reading /\ subscriptionCounter' = new
      /\ subscriptionsByToken' = subscriptionsByToken \cup {new}
      /\ messageType' = [messageType EXCEPT ![new] = t]
      /\ alive' = alive \cup {new}
      /\ forwarder' = [forwarder EXCEPT ![new] = "receiving"]
      /\ UNCHANGED <<routerVars, held, delivered>>
  BY DEF SubscribeMessageType, NextToken, LockGranted
<1>2. subscriptionCounter < MaxTokens
  BY DEF SubscribeMessageType, LockGranted, IInv, WaiterAtLock
<1>3. new \in Tokens /\ subscriptionCounter \in Nat
  BY <1>2, ConstantsAssumption DEF IInv, TypeOK, Tokens, ConstantsAssumption
<1>4. new \notin 1..subscriptionCounter /\ 1..new = (1..subscriptionCounter) \cup {new}
  BY <1>3
<1>5. /\ UNCHANGED <<handled, Current, message.type, Asked, forwards > 0, refused>>
      /\ Current = 0
  BY <1>1, AskedKept, NobodyAsked
<1>6. UNCHANGED <<Holding, Closed>>
  <2>1. forwarder[new] = "none"
    BY <1>3 DEF WaitsInv, ForwarderStates
  <2>2. forwarder \in [Tokens -> {"none", "receiving", "holding", "closed"}]
    BY DEF IInv, TypeOK
  <2>3. \A tok \in Tokens : /\ forwarder'[tok] = "holding" <=> forwarder[tok] = "holding"
                            /\ forwarder'[tok] = "closed" <=> forwarder[tok] = "closed"
    BY <1>1, <2>1, <2>2
  <2> QED
    BY <1>1, <2>3 DEF Holding, Closed
<1> HIDE DEF new
<1>7. Newsletter!Subscribe(new, t)
  BY <1>1, <1>4, <1>5, <1>6
  DEF Newsletter!Subscribe, Newsletter!messageVars, Newsletter!readerVars
<1> QED
  BY <1>3, <1>7

\* HandleMessage begins with a message that nobody has been asked to take.
LEMMA BeginIsSeen ==
    ASSUME IInv, RouterIsReset, NEW t \in Types, NEW wellFormed \in BOOLEAN,
           HandleMessage(t, wellFormed)
    PROVE  Newsletter!Begin(t)
<1>1. /\ ~reading /\ reading' = TRUE /\ handled' = handled + 1 /\ message'.type = t
      /\ UNCHANGED <<indexVars, alive, pos, forwards, refused, forwarderVars>>
  BY DEF HandleMessage
<1>2. Asked' = Asked
  <2>1. pos' = 1 /\ t \in Types
    BY <1>1 DEF RouterIsReset
  <2>2. UNCHANGED subscriptionsByMessageType
    BY <1>1 DEF indexVars
  <2>3. subscriptionsByMessageType[t] \in Seq(Tokens)
    BY DEF IInv, TypeOK
  <2>4. \A p \in DOMAIN subscriptionsByMessageType[t] : ~(p < 1)
    BY <2>3
  <2>5. Asked' = {}
    BY <1>1, <2>1, <2>2, <2>4 DEF Asked
  <2> QED
    BY <1>1, <2>5, NobodyAsked
<1>3. Current = 0 /\ Current' = handled + 1
  BY <1>1 DEF Current
<1>4. UNCHANGED <<Holding, Closed>>
  BY <1>1, HoldingKept DEF forwarderVars
<1> QED
  BY <1>1, <1>2, <1>3, <1>4
  DEF Newsletter!Begin, Newsletter!subscriptionVars, Newsletter!readerVars, indexVars,
      forwarderVars

\* The one at HandleMessage's position subscribes to the message, has not been
\* asked, and is the next to be.
LEMMA OfferedIsNext ==
    ASSUME IInv, NEW tok \in Tokens, Offering(tok), pos' = pos + 1,
           UNCHANGED <<subscriptionsByMessageType, reading, message>>
    PROVE  /\ tok \in Newsletter!Subscribers \ Asked
           /\ Asked' = Asked \cup {tok}
<1> DEFINE subs == subscriptionsByMessageType[message.type]
<1>1. /\ message.type \in Types /\ subs \in Seq(Tokens) /\ Distinct(subs)
      /\ DOMAIN subs \subseteq Nat /\ pos \in Nat \ {0}
  BY SubscribersAreTokens DEF IInv, TypeOK
<1>2. reading /\ pos \in DOMAIN subs /\ subs[pos] = tok
  BY <1>1 DEF Offering
<1>3. Asked = {subs[p] : p \in {p \in DOMAIN subs : p < pos}}
  BY <1>2 DEF Asked
<1>4. Asked' = {subs[p] : p \in {p \in DOMAIN subs : p < pos + 1}}
  BY <1>2 DEF Asked
<1>5. tok \in Elements(subs)
  BY <1>2 DEF Elements
<1>6. tok \in Newsletter!Subscribers
  BY <1>1, <1>5 DEF IInv, IndexesAgree, Newsletter!Subscribers
<1> HIDE DEF subs
<1>7. tok \notin Asked
  <2> SUFFICES ASSUME NEW p \in DOMAIN subs, p < pos, subs[p] = tok PROVE FALSE
    BY <1>3
  <2>1. p = pos
    BY <1>1, <1>2 DEF Distinct
  <2> QED
    BY <1>1, <2>1
<1>8. \A p \in DOMAIN subs : p < pos + 1 <=> p < pos \/ p = pos
  BY <1>1
<1>9. Asked' = Asked \cup {tok}
  BY <1>2, <1>3, <1>4, <1>8
<1> QED
  BY <1>6, <1>7, <1>9

\* A forward is a subscriber that takes the message.
LEMMA TakeIsSeen ==
    ASSUME IInv, NEW tok \in Tokens, Forward(tok)
    PROVE  Newsletter!Take(tok)
<1>1. /\ Offering(tok) /\ pos' = pos + 1 /\ forwards' = forwards + 1 /\ reading
      /\ forwarder[tok] = "receiving"
      /\ UNCHANGED <<indexVars, alive, reading, message, handled, refused, delivered>>
  BY DEF Forward, Offering
<1>2. /\ tok \in Newsletter!Subscribers \ Asked
      /\ Asked' = Asked \cup {tok}
  BY <1>1, OfferedIsNext DEF indexVars
<1>3. Current = handled /\ Current' = handled /\ Current # 0
  BY <1>1, ConstantsAssumption DEF Current, IInv, HoldsMessage, Messages
<1>4. (forwards' > 0) = TRUE
  BY <1>1 DEF IInv, TypeOK
<1>5. forwarder \in [Tokens -> {"none", "receiving", "holding", "closed"}]
      /\ held \in [Tokens -> 0..MaxMessages]
  BY DEF IInv, TypeOK
<1>6. tok \notin Closed /\ Holding[tok] = 0
  BY <1>1 DEF Closed, Holding
<1>7. Closed' = Closed /\ Holding' \in {Holding, [Holding EXCEPT ![tok] = Current]}
  <2>1. CASE message.wellFormed
    <3>1. /\ forwarder' = [forwarder EXCEPT ![tok] = "holding"]
          /\ held' = [held EXCEPT ![tok] = handled]
      BY <2>1 DEF Forward, ForwarderTakes
    <3>2. Closed' = Closed
      BY <1>1, <1>5, <3>1 DEF Closed
    <3>3. \A s \in Tokens : Holding'[s] = IF s = tok THEN handled ELSE Holding[s]
      BY <1>5, <3>1 DEF Holding
    <3>4. Holding' = [s \in Tokens |-> Holding'[s]] /\ Holding = [s \in Tokens |-> Holding[s]]
      BY DEF Holding
    <3>5. Holding' = [Holding EXCEPT ![tok] = Current]
      BY <1>3, <3>3, <3>4
    <3> QED
      BY <3>2, <3>5
  <2>2. CASE ~message.wellFormed
    BY <2>2, HoldingKept DEF Forward, ForwarderTakes
  <2> QED
    BY <2>1, <2>2
<1> QED
  BY <1>1, <1>2, <1>3, <1>4, <1>6, <1>7
  DEF Newsletter!Take, Newsletter!subscriptionVars, indexVars

\* A drop is a subscriber that is skipped.
LEMMA SkipIsSeen ==
    ASSUME IInv, NEW tok \in Tokens, Drop(tok)
    PROVE  Newsletter!Skip(tok)
<1>1. /\ Offering(tok) /\ pos' = pos + 1 /\ reading /\ tok \notin alive
      /\ UNCHANGED <<indexVars, alive, reading, message, handled, refused, forwards,
                     forwarderVars>>
  BY DEF Drop, Offering
<1>2. /\ tok \in Newsletter!Subscribers \ Asked
      /\ Asked' = Asked \cup {tok}
  BY <1>1, OfferedIsNext DEF indexVars
<1>3. Current' = Current /\ Current # 0
  BY <1>1, ConstantsAssumption DEF Current, IInv, HoldsMessage, Messages
<1>4. UNCHANGED <<Holding, Closed>>
  BY <1>1, HoldingKept DEF forwarderVars
<1> QED
  BY <1>1, <1>2, <1>3, <1>4
  DEF Newsletter!Skip, Newsletter!subscriptionVars, Newsletter!readerVars, indexVars,
      forwarderVars

\* At the end of the list every subscriber has been asked, and forwards tells
\* whether one of them took the message.
LEMMA FinishIsSeen ==
    ASSUME IInv, HandleMessageReturn
    PROVE  Newsletter!Finish
<1> DEFINE subs == subscriptionsByMessageType[message.type]
<1>1. /\ reading /\ pos > Len(subs) /\ reading' = FALSE /\ message' = NoMessage /\ forwards' = 0
      /\ refused' = IF forwards = 0 THEN refused \cup {handled} ELSE refused
      /\ UNCHANGED <<indexVars, alive, handled, forwarderVars>>
  BY DEF HandleMessageReturn
<1>2. /\ message.type \in Types /\ subs \in Seq(Tokens) /\ pos \in Nat /\ forwards \in Nat
  BY SubscribersAreTokens, MessageNumbers DEF IInv, TypeOK
<1>3. \A p \in DOMAIN subs : p < pos
  BY <1>1, <1>2
<1>4. Asked = Elements(subs)
  BY <1>1, <1>3 DEF Asked, Elements
<1>5. Asked = Newsletter!Subscribers
  BY <1>2, <1>4 DEF IInv, IndexesAgree, Newsletter!Subscribers
<1>6. Asked' = {} /\ Current' = 0
  BY <1>1 DEF Asked, Current
<1>7. Current = handled /\ Current # 0
  BY <1>1, ConstantsAssumption DEF Current, IInv, HoldsMessage, Messages
<1>8. message'.type \in Types
  BY <1>1, NoTypeIsType DEF NoMessage
<1>9. (forwards' > 0) = FALSE /\ (forwards > 0 <=> forwards # 0)
  BY <1>1, <1>2
<1>10. refused' = IF forwards > 0 THEN refused ELSE refused \cup {Current}
  BY <1>1, <1>7, <1>9
<1>11. UNCHANGED <<Holding, Closed>>
  BY <1>1, HoldingKept DEF forwarderVars
<1> QED
  BY <1>1, <1>5, <1>6, <1>7, <1>8, <1>9, <1>10, <1>11
  DEF Newsletter!Finish, Newsletter!subscriptionVars, Newsletter!readerVars, indexVars,
      forwarderVars

\* A forwarder gives its reader the message it holds.
LEMMA ReadIsSeen ==
    ASSUME IInv, NEW tok \in Tokens, ForwarderDeliver(tok)
    PROVE  Newsletter!Read(tok)
<1>1. /\ forwarder[tok] = "holding" /\ forwarder' = [forwarder EXCEPT ![tok] = "receiving"]
      /\ delivered' = [delivered EXCEPT ![tok] = Append(@, held[tok])]
      /\ UNCHANGED <<indexVars, alive, routerVars, held>>
  BY DEF ForwarderDeliver
<1>2. /\ forwarder \in [Tokens -> {"none", "receiving", "holding", "closed"}]
      /\ held[tok] \in Messages
  BY <1>1 DEF IInv, TypeOK, HoldsMessage
<1>3. Holding[tok] = held[tok] /\ held[tok] # 0
  BY <1>1, <1>2, ConstantsAssumption DEF Holding, Messages
<1>4. Closed' = Closed
  BY <1>1, <1>2 DEF Closed
<1>5. Holding' = [Holding EXCEPT ![tok] = 0]
  BY <1>1, <1>2 DEF Holding
<1>6. UNCHANGED <<handled, Current, message.type, Asked, forwards > 0, refused>>
  BY <1>1, AskedKept DEF indexVars
<1> QED
  BY <1>1, <1>3, <1>4, <1>5, <1>6
  DEF Newsletter!Read, Newsletter!subscriptionVars, Newsletter!messageVars, indexVars

\* A forwarder that sees the end of the Lifetime drops what it holds.
LEMMA CloseIsSeen ==
    ASSUME IInv, WaitsInv, NEW tok \in Tokens, ForwarderClose(tok)
    PROVE  Newsletter!Close(tok)
<1>1. /\ forwarder[tok] \in {"receiving", "holding"} /\ tok \notin alive
      /\ forwarder' = [forwarder EXCEPT ![tok] = "closed"]
      /\ UNCHANGED <<indexVars, alive, routerVars, held, delivered>>
  BY DEF ForwarderClose
<1>2. forwarder \in [Tokens -> {"none", "receiving", "holding", "closed"}]
  BY DEF IInv, TypeOK
<1>3. tok \in 1..subscriptionCounter
  <2>1. tok \in Nat /\ tok >= 1 /\ subscriptionCounter \in Nat
    BY ConstantsAssumption DEF IInv, TypeOK, Tokens, ConstantsAssumption
  <2>2. ~(tok > subscriptionCounter)
    BY <1>1 DEF WaitsInv, ForwarderStates
  <2> QED
    BY <2>1, <2>2
<1>4. tok \notin Closed /\ Closed' = Closed \cup {tok}
  BY <1>1, <1>2 DEF Closed
<1>5. Holding' = [Holding EXCEPT ![tok] = 0]
  BY <1>1, <1>2 DEF Holding
<1>6. UNCHANGED <<handled, Current, message.type, Asked, forwards > 0, refused>>
  BY <1>1, AskedKept DEF indexVars
<1> QED
  BY <1>1, <1>3, <1>4, <1>5, <1>6
  DEF Newsletter!Close, Newsletter!subscriptionVars, Newsletter!messageVars, indexVars

\* Unsubscribe ends the Lifetime and removes the subscription, which only one of
\* the calls for it does, and never while a message is being handled.
LEMMA UnsubscribeIsSeen ==
    ASSUME IInv, NEW by \in Callers, NEW tok \in Tokens,
           UnsubscribeShutdown(by, tok) \/ UnsubscribeRemove(by, tok)
    PROVE  Newsletter!End(tok) \/ Newsletter!Remove(tok) \/ UNCHANGED Newsletter!vars
<1>1. CASE UnsubscribeShutdown(by, tok)
  <2>1. UNCHANGED <<handled, Current, message.type, Asked, forwards > 0, refused, Holding, Closed>>
    BY <1>1, AskedKept, HoldingKept DEF UnsubscribeShutdown, indexVars, forwarderVars
  <2>2. Newsletter!End(tok)
    BY <1>1, <2>1
    DEF UnsubscribeShutdown, Newsletter!End, Newsletter!subscriptionVars,
        Newsletter!messageVars, Newsletter!readerVars, indexVars, forwarderVars
  <2> QED
    BY <2>2
<1>2. CASE UnsubscribeRemove(by, tok)
  <2>1. /\ ~reading /\ lockWaiter = {Remover(by, tok)}
        /\ UNCHANGED <<subscriptionCounter, messageType, alive, routerVars, forwarderVars>>
    BY <1>2 DEF UnsubscribeRemove, LockGranted
  <2>2. /\ UNCHANGED <<handled, Current, message.type, Asked, forwards > 0, refused, Holding, Closed>>
        /\ Current = 0
    BY <2>1, AskedKept, HoldingKept, NobodyAsked DEF forwarderVars
  <2>3. \/ UNCHANGED subscriptionsByToken
        \/ tok \in subscriptionsByToken /\ subscriptionsByToken' = subscriptionsByToken \ {tok}
    BY <1>2 DEF UnsubscribeRemove
  <2>4. tok \notin alive
    BY <2>1 DEF IInv, WaiterAtLock, UnsubscribeProgress, CallProgress
  <2>5. CASE UNCHANGED subscriptionsByToken
    BY <2>1, <2>2, <2>5
    DEF Newsletter!vars, Newsletter!subscriptionVars, Newsletter!messageVars,
        Newsletter!readerVars, forwarderVars
  <2>6. CASE tok \in subscriptionsByToken /\ subscriptionsByToken' = subscriptionsByToken \ {tok}
    BY <2>1, <2>2, <2>4, <2>6
    DEF Newsletter!Remove, Newsletter!messageVars, Newsletter!readerVars, forwarderVars
  <2> QED
    BY <2>3, <2>5, <2>6
<1> QED
  BY <1>1, <1>2

\* At the start nobody has subscribed and no message has come.
LEMMA NewslettersInit == Init => Newsletter!Init
<1> SUFFICES ASSUME Init PROVE Newsletter!Init
  OBVIOUS
<1>1. Asked = {} /\ Current = 0
  BY NobodyAsked DEF Init
<1>2. Closed = {} /\ Holding = [s \in Tokens |-> 0]
  BY DEF Init, Closed, Holding
<1>3. messageType \in [Tokens -> Types] /\ message.type \in Types
  BY NoTypeIsType DEF Init, NoMessage
<1>4. 1..subscriptionCounter = {} /\ (forwards > 0) = FALSE
  BY DEF Init
<1> QED
  BY <1>1, <1>2, <1>3, <1>4 DEF Init, Newsletter!Init

\* Every step is one that subscribers and senders see, or none that they do.
LEMMA NewslettersNext ==
    ASSUME IInv, WaitsInv, RouterIsReset, [Next]_vars
    PROVE  [Newsletter!Next]_Newsletter!vars
<1>1. ASSUME NEW t \in Types, SubscribeMessageType(t) PROVE Newsletter!Next
  BY <1>1, SubscribeIsSeen DEF Newsletter!Next
<1>2. ASSUME NEW t \in Types, NEW wellFormed \in BOOLEAN, HandleMessage(t, wellFormed)
      PROVE  Newsletter!Next
  BY <1>2, BeginIsSeen DEF Newsletter!Next
<1>3. CASE HandleMessageReturn
  BY <1>3, FinishIsSeen DEF Newsletter!Next
<1>4. ASSUME NEW tok \in Tokens,
             Forward(tok) \/ Drop(tok) \/ ForwarderDeliver(tok) \/ ForwarderClose(tok)
      PROVE  Newsletter!Next
  BY <1>4, TakeIsSeen, SkipIsSeen, ReadIsSeen, CloseIsSeen DEF Newsletter!Next
<1>5. ASSUME NEW by \in Callers, NEW tok \in Tokens,
             UnsubscribeShutdown(by, tok) \/ UnsubscribeRemove(by, tok)
      PROVE  [Newsletter!Next]_Newsletter!vars
  BY <1>5, UnsubscribeIsSeen DEF Newsletter!Next
<1>6. ASSUME UNCHANGED <<indexVars, alive, routerVars, forwarder, held, delivered>>
      PROVE  UNCHANGED Newsletter!vars
  BY <1>6, UnseenStep
<1>7. ASSUME NEW t \in Types, SubscribeLock(t)
      PROVE  UNCHANGED <<indexVars, alive, routerVars, forwarder, held, delivered>>
  BY <1>7 DEF SubscribeLock, forwarderVars
<1>8. ASSUME NEW by \in Callers, NEW tok \in Tokens,
             OwnerStops(tok) \/ OwnerUnsubscribe(tok) \/ UnsubscribeLock(by, tok)
      PROVE  UNCHANGED <<indexVars, alive, routerVars, forwarder, held, delivered>>
  BY <1>8 DEF OwnerStops, OwnerUnsubscribe, UnsubscribeLock, forwarderVars
<1>9. ASSUME NEW c \in Cancellers, CancelAllLock(c) \/ CancelAllSpawn(c) \/ CancelAllReturn(c)
      PROVE  UNCHANGED <<indexVars, alive, routerVars, forwarder, held, delivered>>
  BY <1>9 DEF CancelAllLock, CancelAllSpawn, CancelAllReturn, forwarderVars
<1>10. CASE Terminated \/ UNCHANGED vars
  <2>1. UNCHANGED <<indexVars, alive, routerVars, forwarder, held, delivered>>
    BY <1>10 DEF Terminated, vars, indexVars, routerVars
  <2> QED
    BY <1>6, <2>1
<1>11. Owner \in Callers
  BY DEF Callers
<1> QED
  BY <1>1, <1>2, <1>3, <1>4, <1>5, <1>6, <1>7, <1>8, <1>9, <1>10, <1>11 DEF Next

\* The SubscriptionManager implements Newsletters, for any number of message
\* types, callers, subscriptions and messages: neither the race for the index nor
\* the position in a list that others wait to shorten can be seen from outside.
THEOREM NewslettersAreImplemented == Spec => ImplementsNewsletters
<1>1. Spec => []WaitsInv
  BY Invariance, WaitsInvInit, WaitsInvNext, PTL DEF Spec
<1>2. Init => Newsletter!Init
  BY NewslettersInit
<1>3. IInv /\ WaitsInv /\ RouterIsReset /\ [Next]_vars => [Newsletter!Next]_Newsletter!vars
  BY NewslettersNext
<1> QED
  BY Invariance, RouterResetInvariance, <1>1, <1>2, <1>3, PTL
  DEF Spec, ImplementsNewsletters, Newsletter!Spec
=============================================================================
