---------------------------- MODULE ReadyAwaiter ----------------------------
(***************************************************************************)
(* games/ready.go: RequestAndAwaitReady with one goroutine per actor that   *)
(* is asked. modeMutex is held by the goroutine at "publish", "signal" or   *)
(* "signalError". Its caller reads the updates.                             *)
(*                                                                         *)
(* Messages to actors and the deferred Unsubscribe are taken to return:     *)
(* NetActorDevice.tla and SubscriptionManager.tla name the ways in which    *)
(* they would not.                                                         *)
(***************************************************************************)
EXTENDS Contracts

VARIABLES
    awaiting,      \* RequestAndAwaitReady: "off", "wait", "drain" or "returned"
    outcome,       \* what it returns: "none", "ready", "aborted" or "error"
    asked,         \* the actors that are asked
    awaiter,       \* areYouReadyForActor of an actor
    readyStates,
    isAcceptingReadyStateUpdates,
    originalErr,   \* an error has been kept
    cancelled,     \* the context of the requests
    update,        \* actors that are ready in the update of modeMutex's holder
    published,     \* actors that were ready in the last update that was taken
    readyReader    \* the reader of updates: "off", "read", "broadcast" or "stopped"

readyVars == <<awaiting, outcome, asked, awaiter, readyStates, isAcceptingReadyStateUpdates,
               originalErr, cancelled, update, published, readyReader>>

Init_Ready ==
    /\ awaiting = "off" /\ outcome = "none" /\ asked = {}
    /\ awaiter = [a \in Everybody |-> "off"]
    /\ readyStates = {} /\ update = {} /\ published = {}
    /\ isAcceptingReadyStateUpdates = TRUE
    /\ originalErr = FALSE /\ cancelled = FALSE
    /\ readyReader = "off"

ModeMutexFree == \A a \in Everybody : awaiter[a] \notin {"publish", "signal", "signalError"}

Goes(a, to) == awaiter' = [awaiter EXCEPT ![a] = to]

-----------------------------------------------------------------------------
(* RequestAndAwaitReady. *)

RequestReady(S) ==
    /\ awaiting = "off"
    /\ awaiting' = "wait"
    /\ asked' = S
    /\ awaiter' = [a \in Everybody |-> IF a \in S THEN "ask" ELSE "off"]
    /\ readyReader' = "read"
    /\ UNCHANGED <<outcome, readyStates, isAcceptingReadyStateUpdates, originalErr, cancelled,
                   update, published>>

AwaitAborted(isDone) ==
    /\ awaiting = "wait" /\ isDone
    /\ awaiting' = "drain"
    /\ outcome' = "aborted"
    /\ cancelled' = TRUE
    /\ UNCHANGED <<asked, awaiter, readyStates, isAcceptingReadyStateUpdates, originalErr,
                   update, published, readyReader>>

\* The deferred requests.Wait; the states are dropped.
AwaitReturns ==
    /\ awaiting = "drain" /\ \A a \in asked : awaiter[a] = "gone"
    /\ awaiting' = "returned"
    /\ readyStates' = {}
    /\ UNCHANGED <<outcome, asked, awaiter, isAcceptingReadyStateUpdates,
                   originalErr, cancelled, update, published, readyReader>>

-----------------------------------------------------------------------------
(* areYouReadyForActor. *)

AskReady(a) ==
    /\ awaiter[a] = "ask"
    /\ Goes(a, IF Employed(a) THEN "listen" ELSE "error")
    /\ UNCHANGED <<awaiting, outcome, asked, readyStates, isAcceptingReadyStateUpdates,
                   originalErr, cancelled, update, published, readyReader>>

ReceiveReadyState(a, isReady) ==
    /\ awaiter[a] = "listen" /\ Employed(a)
    /\ readyStates' = IF isReady THEN readyStates \cup {a} ELSE readyStates \ {a}
    /\ Goes(a, "update")
    /\ UNCHANGED <<awaiting, outcome, asked, isAcceptingReadyStateUpdates, originalErr,
                   cancelled, update, published, readyReader>>

\* The newsletter is closed: quits are not handled.
ReadyNewsletterClosed(a) ==
    /\ awaiter[a] = "listen" /\ ~Employed(a)
    /\ Goes(a, "gone")
    /\ UNCHANGED <<awaiting, outcome, asked, readyStates, isAcceptingReadyStateUpdates,
                   originalErr, cancelled, update, published, readyReader>>

\* handleReadyStateUpdate gets modeMutex and builds the update.
BuildUpdate(a) ==
    /\ awaiter[a] = "update" /\ ModeMutexFree
    /\ IF isAcceptingReadyStateUpdates
       THEN update' = readyStates /\ Goes(a, "publish")
       ELSE Goes(a, "listen") /\ UNCHANGED update
    /\ UNCHANGED <<awaiting, outcome, asked, readyStates, isAcceptingReadyStateUpdates,
                   originalErr, cancelled, published, readyReader>>

\* Mutant: goes on accepting updates when everybody is ready.
PublishAccepting(a, next) ==
    /\ awaiter[a] = "publish" /\ readyReader = "read"
    /\ published' = update /\ update' = {}
    /\ readyReader' = next
    /\ Goes(a, IF update = asked THEN "signal" ELSE "listen")
    /\ UNCHANGED <<awaiting, outcome, asked, readyStates, originalErr, cancelled,
                   isAcceptingReadyStateUpdates>>

\* The reader takes the update, with next = "broadcast" if the broadcast is a
\* step of its own. Nothing else ends the wait for the reader.
PublishUpdate(a, next) ==
    /\ awaiter[a] = "publish" /\ readyReader = "read"
    /\ published' = update /\ update' = {}
    /\ readyReader' = next
    /\ IF update = asked
       THEN isAcceptingReadyStateUpdates' = FALSE /\ Goes(a, "signal")
       ELSE Goes(a, "listen") /\ UNCHANGED isAcceptingReadyStateUpdates
    /\ UNCHANGED <<awaiting, outcome, asked, readyStates, originalErr, cancelled>>

\* handleError, for a request that cannot be sent and for the ReadyAccepted at
\* the end: errors.Wrap makes an error of nil, too.
HandleError(a) ==
    /\ awaiter[a] \in {"error", "accepted"} /\ ModeMutexFree
    /\ IF isAcceptingReadyStateUpdates /\ ~originalErr
       THEN /\ originalErr' = TRUE
            /\ isAcceptingReadyStateUpdates' = FALSE
            /\ Goes(a, "signalError")
       ELSE Goes(a, "gone") /\ UNCHANGED <<originalErr, isAcceptingReadyStateUpdates>>
    /\ UNCHANGED <<awaiting, outcome, asked, readyStates, cancelled, update, published, readyReader>>

AfterSignal(a) == Goes(a, IF awaiter[a] = "signal" THEN "listen" ELSE "gone")

\* RequestAndAwaitReady receives from done.
Signal(a) ==
    /\ awaiter[a] \in {"signal", "signalError"} /\ awaiting = "wait"
    /\ awaiting' = "drain"
    /\ outcome' = IF originalErr THEN "error" ELSE "ready"
    /\ cancelled' = TRUE
    /\ AfterSignal(a)
    /\ UNCHANGED <<asked, readyStates, isAcceptingReadyStateUpdates, originalErr, update,
                   published, readyReader>>

\* Mutant: the signal waits for RequestAndAwaitReady only.
SignalUncancelled(a) ==
    /\ awaiter[a] \in {"signal", "signalError"} /\ awaiting = "wait" /\ cancelled
    /\ AfterSignal(a)
    /\ UNCHANGED <<awaiting, outcome, asked, readyStates, isAcceptingReadyStateUpdates,
                   originalErr, cancelled, update, published, readyReader>>

SignalCancelled(a) ==
    /\ awaiter[a] \in {"signal", "signalError"} /\ cancelled
    /\ AfterSignal(a)
    /\ UNCHANGED <<awaiting, outcome, asked, readyStates, isAcceptingReadyStateUpdates,
                   originalErr, cancelled, update, published, readyReader>>

\* The actor is sent ReadyAccepted.
SendReadyAccepted(a) ==
    /\ awaiter[a] = "listen" /\ cancelled
    /\ Goes(a, "accepted")
    /\ UNCHANGED <<awaiting, outcome, asked, readyStates, isAcceptingReadyStateUpdates,
                   originalErr, cancelled, update, published, readyReader>>

AreYouReadyForActor(a) ==
    \/ AskReady(a) \/ BuildUpdate(a) \/ HandleError(a)
    \/ Signal(a) \/ SignalCancelled(a) \/ SendReadyAccepted(a) \/ ReadyNewsletterClosed(a)

-----------------------------------------------------------------------------
(* The goroutine that broadcasts updates, until its context is done.        *)

ReadyReaderStops(isDone) ==
    /\ readyReader = "read" /\ isDone
    /\ readyReader' = "stopped"
    /\ UNCHANGED <<awaiting, outcome, asked, awaiter, readyStates, isAcceptingReadyStateUpdates,
                   originalErr, cancelled, update, published>>

\* The update has been broadcast; errors are logged.
ReadyBroadcastReturns ==
    /\ readyReader = "broadcast" /\ readyReader' = "read"
    /\ UNCHANGED <<awaiting, outcome, asked, awaiter, readyStates, isAcceptingReadyStateUpdates,
                   originalErr, cancelled, update, published>>

ReadyTypeOK ==
    /\ awaiting \in {"off", "wait", "drain", "returned"}
    /\ outcome \in {"none", "ready", "aborted", "error"}
    /\ asked \subseteq Everybody
    /\ awaiter \in [Everybody -> {"off", "ask", "listen", "update", "publish", "signal", "error",
                                  "signalError", "accepted", "gone"}]
    /\ {readyStates, update, published} \subseteq SUBSET Everybody
    /\ {isAcceptingReadyStateUpdates, originalErr, cancelled} \subseteq BOOLEAN
    /\ readyReader \in {"off", "read", "broadcast", "stopped"}

\* RequestAndAwaitReady says ready only after an update in which everybody was,
\* and that update stays the last one: a late change of mind is never published,
\* whatever the order in which goroutines get modeMutex.
ReadyIsPublished == outcome = "ready" => published = asked

\* An update that nobody will read: its sender keeps modeMutex for ever.
NobodyReads == readyReader = "stopped" /\ \E a \in asked : awaiter[a] = "publish"
=============================================================================
