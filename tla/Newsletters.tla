---------------------------- MODULE Newsletters ----------------------------
(***************************************************************************)
(* What the SubscriptionManager promises to whoever subscribes, without     *)
(* locks, lists, positions or calls under way: every message is offered     *)
(* exactly once to each of its subscribers, whoever takes it reads it       *)
(* before it takes the next one, and a message that nobody took is refused. *)
(* acting/subscriptions.go (HandleMessage) "returns the number of           *)
(* subscribers the message was forwarded to"; Unsubscribe: "wait until      *)
(* message handling has finished in order to remove it from the list".      *)
(***************************************************************************)
EXTENDS Naturals, Sequences

CONSTANTS Types, Subscriptions

VARIABLES
    used,       \* subscriptions that were handed out
    topic,      \* their message types
    open,       \* those that get messages
    live,       \* those whose Lifetime is not done
    closed,     \* those whose newsletter is closed
    handled,    \* messages so far; they are numbered from 1
    current,    \* the message being offered, or 0
    about,      \* its type, of no meaning between messages
    asked,      \* the subscribers it has been offered to
    taken,      \* did one of them take it?
    refused,    \* messages that nobody took
    holding,    \* the message a newsletter has for its reader, or 0
    delivered   \* what the readers have read

subscriptionVars == <<used, topic, open>>
messageVars == <<handled, current, about, asked, taken, refused>>
readerVars == <<holding, delivered>>
vars == <<subscriptionVars, live, closed, messageVars, readerVars>>

Init ==
    /\ used = {} /\ open = {} /\ live = {} /\ closed = {}
    /\ topic \in [Subscriptions -> Types]
    /\ handled = 0 /\ current = 0 /\ about \in Types
    /\ asked = {} /\ taken = FALSE /\ refused = {}
    /\ holding = [s \in Subscriptions |-> 0]
    /\ delivered = [s \in Subscriptions |-> <<>>]

\* Subscriptions come and go between messages, and no subscription comes back.
Subscribe(s, t) ==
    /\ s \notin used /\ current = 0
    /\ used' = used \cup {s} /\ open' = open \cup {s} /\ live' = live \cup {s}
    /\ topic' = [topic EXCEPT ![s] = t]
    /\ UNCHANGED <<closed, messageVars, readerVars>>

End(s) ==
    /\ live' = live \ {s}
    /\ UNCHANGED <<subscriptionVars, closed, messageVars, readerVars>>

Remove(s) ==
    /\ s \in open \ live /\ current = 0
    /\ open' = open \ {s}
    /\ UNCHANGED <<used, topic, live, closed, messageVars, readerVars>>

Begin(t) ==
    /\ current = 0
    /\ handled' = handled + 1 /\ current' = handled' /\ about' = t
    /\ UNCHANGED <<subscriptionVars, live, closed, asked, taken, refused, readerVars>>

Subscribers == {s \in open : topic[s] = about}

\* A subscriber takes the message; it keeps it for its reader when it can
\* decode it.
Take(s) ==
    /\ current # 0 /\ s \in Subscribers \ (asked \cup closed) /\ holding[s] = 0
    /\ asked' = asked \cup {s} /\ taken' = TRUE
    /\ holding' \in {holding, [holding EXCEPT ![s] = current]}
    /\ UNCHANGED <<subscriptionVars, live, closed, handled, current, about, refused, delivered>>

\* Only a subscriber whose Lifetime is done may miss it.
Skip(s) ==
    /\ current # 0 /\ s \in Subscribers \ (asked \cup live)
    /\ asked' = asked \cup {s}
    /\ UNCHANGED <<subscriptionVars, live, closed, handled, current, about, taken, refused,
                   readerVars>>

Finish ==
    /\ current # 0 /\ asked = Subscribers
    /\ refused' = IF taken THEN refused ELSE refused \cup {current}
    /\ current' = 0 /\ about' \in Types /\ asked' = {} /\ taken' = FALSE
    /\ UNCHANGED <<subscriptionVars, live, closed, handled, readerVars>>

Read(s) ==
    /\ holding[s] # 0
    /\ delivered' = [delivered EXCEPT ![s] = Append(@, holding[s])]
    /\ holding' = [holding EXCEPT ![s] = 0]
    /\ UNCHANGED <<subscriptionVars, live, closed, messageVars>>

Close(s) ==
    /\ s \in used \ (live \cup closed)
    /\ closed' = closed \cup {s} /\ holding' = [holding EXCEPT ![s] = 0]
    /\ UNCHANGED <<subscriptionVars, live, messageVars, delivered>>

Next ==
    \/ \E t \in Types : Begin(t) \/ \E s \in Subscriptions : Subscribe(s, t)
    \/ Finish
    \/ \E s \in Subscriptions :
         End(s) \/ Remove(s) \/ Take(s) \/ Skip(s) \/ Read(s) \/ Close(s)

Spec == Init /\ [][Next]_vars
=============================================================================
