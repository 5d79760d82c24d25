------------------------ MODULE TeamDeathmatchProofs ------------------------
(***************************************************************************)
(* What TLAPS proves of TeamDeathmatch, for any number of actors, requests, *)
(* players and assignments: a casting hires all its winners or nobody, a    *)
(* match is ready after an update that says so, and its teams are filled    *)
(* with the players that were announced. Each property has an invariant of  *)
(* its own, about the component that it is of. At the end, that a match is  *)
(* at a standstill only with an update that nobody reads.                   *)
(***************************************************************************)
EXTENDS TeamDeathmatch, TLAPS

MatchTypeOK ==
    /\ match \in {"none", "init", "assign", "cast", "open", "await", "join", "fill", "filled"}
    /\ teamCount \in 0..Len(TeamBases)
    /\ {ctxDone, handlersDone, crashed} \subseteq BOOLEAN
    /\ bases \subseteq Actors /\ monitors \subseteq Actors /\ hasMonitors \in BOOLEAN
    /\ players \subseteq Players

\* Who has a contract with the match, at each stage of the casting. A winner
\* that hireWinners has passed is in hired, and keeps its contract or is gone,
\* unless a casting has fired it before: who has not been fired has no goroutine
\* that fires late.
Hiring ==
    /\ performer \in {"idle", "request", "await", "failed"} =>
         hired = {} /\ \A a \in Actors : contract[a] # "match"
    /\ performer \in {"hire", "fire"} =>
         \A a \in Actors : contract[a] = "match" => a \in hired
    /\ performer = "hire" =>
         /\ \A a \in hired : a \in Winners /\ (a \notin fired => contract[a] \in {"match", "gone"})
         /\ \A n \in DOMAIN winners \ remaining : winners[n][2] \in hired
    /\ performer = "done" =>
         /\ remaining = {}
         /\ \A a \in Winners \ fired : contract[a] \in {"match", "gone"}
         /\ \A a \in Actors : contract[a] = "match" => a \in Winners
    /\ \A a \in Actors : late[a] > 0 => a \in fired

\* modeMutex is held by one goroutine. One that publishes knows that updates
\* are still accepted, one that signals that no more will be: only an error or
\* an update in which everybody is ready ends the acceptance.
Publishing ==
    /\ awaiting = "off" => isAcceptingReadyStateUpdates /\ \A a \in Everybody : awaiter[a] = "off"
    /\ \A a, b \in Everybody :
         awaiter[a] \in {"publish", "signal", "signalError"} /\ awaiter[b] \in {"publish", "signal", "signalError"}
            => a = b
    /\ \A a \in Everybody : awaiter[a] = "publish" => isAcceptingReadyStateUpdates
    /\ \A a \in Everybody : awaiter[a] = "signal" => ~isAcceptingReadyStateUpdates
    /\ \A a \in Everybody : awaiter[a] = "signalError" => originalErr
    /\ originalErr => ~isAcceptingReadyStateUpdates
    /\ ~isAcceptingReadyStateUpdates /\ ~originalErr => published = asked
    /\ outcome = "ready" => ~isAcceptingReadyStateUpdates /\ published = asked

\* The mutex of PlayerManagement is held by one goroutine, and its update is
\* all that active and announced differ by. Players join at offices that are
\* open, and nobody reads updates when the teams are filled.
Announcing ==
    /\ match \in {"none", "init", "assign", "cast", "open"} => \A a \in Actors : office[a] = "off"
    /\ match \in {"fill", "filled"} => playerReader = "stopped"
    /\ \A a, b \in Actors : office[a] \in {"joined", "left"} /\ office[b] \in {"joined", "left"} => a = b
    /\ \A a \in Actors : office[a] \in {"join", "leave", "joined", "left"} => candidate[a] \in Players
    /\ PlayersMutexFree => active = announced
    /\ \A a \in Actors :
         /\ office[a] = "joined" => active = announced \cup {candidate[a]}
         /\ office[a] = "left" => active = announced \ {candidate[a]}
    /\ match = "filled" => players = announced

CastingInv == ContractsTypeOK /\ CastingTypeOK /\ Hiring
ReadyInv == ReadyTypeOK /\ Publishing
PlayersInv == PlayersTypeOK /\ MatchTypeOK /\ Announcing

IInv == CastingInv /\ ReadyInv /\ PlayersInv

-----------------------------------------------------------------------------
(* The wait until everybody is ready.                                       *)

Awaiters == {"off", "ask", "listen", "update", "publish", "signal", "error",
             "signalError", "accepted", "gone"}

\* What ReadyTypeOK says of each variable.
LEMMA ReadyTypes ==
    ReadyTypeOK <=>
        /\ awaiting \in {"off", "wait", "drain", "returned"}
        /\ outcome \in {"none", "ready", "aborted", "error"}
        /\ asked \subseteq Everybody
        /\ awaiter \in [Everybody -> Awaiters]
        /\ readyStates \subseteq Everybody /\ update \subseteq Everybody /\ published \subseteq Everybody
        /\ isAcceptingReadyStateUpdates \in BOOLEAN /\ originalErr \in BOOLEAN /\ cancelled \in BOOLEAN
        /\ readyReader \in {"off", "read", "broadcast", "stopped"}
BY DEF ReadyTypeOK, Awaiters

\* A goroutine that neither gets nor has modeMutex, or releases it, changes
\* nothing that Publishing is about.
LEMMA AwaiterMoves ==
    ASSUME ReadyInv, NEW a \in Everybody, awaiter[a] # "off",
           NEW to \in {"listen", "update", "error", "accepted", "gone"}, Goes(a, to),
           UNCHANGED <<asked, isAcceptingReadyStateUpdates, originalErr, published>>,
           awaiting' = awaiting \/ awaiting' = "drain",
           outcome' = outcome \/ (outcome' = "ready" => ~isAcceptingReadyStateUpdates /\ ~originalErr)
    PROVE  Publishing' /\ awaiter' \in [Everybody -> Awaiters]
<1>1. awaiter' = [awaiter EXCEPT ![a] = to] /\ awaiter \in [Everybody -> Awaiters]
  BY ReadyTypes DEF Goes, ReadyInv
<1>2. awaiter' \in [Everybody -> Awaiters]
  BY <1>1 DEF Awaiters
<1>3. \A b \in Everybody : awaiter'[b] = awaiter[b] \/ awaiter'[b] = to
  BY <1>1
<1>4. awaiting # "off" /\ awaiting' # "off"
  BY DEF ReadyInv, Publishing
<1>5. QED BY <1>2, <1>3, <1>4 DEF ReadyInv, Publishing

\* areYouReadyForActor without modeMutex, and the release of it after a signal.
LEMMA ListeningStep ==
    ASSUME ReadyInv, NEW a \in Everybody,
           \/ AskReady(a) \/ ReadyNewsletterClosed(a) \/ SendReadyAccepted(a)
           \/ Signal(a) \/ SignalCancelled(a)
           \/ \E isReady \in BOOLEAN : ReceiveReadyState(a, isReady)
    PROVE  ReadyInv'
<1>1. \E to \in {"listen", "update", "error", "accepted", "gone"} : Goes(a, to)
  BY DEF AskReady, ReadyNewsletterClosed, SendReadyAccepted, Signal, SignalCancelled, AfterSignal,
     ReceiveReadyState
<1>2. /\ awaiter[a] # "off"
      /\ UNCHANGED <<asked, isAcceptingReadyStateUpdates, originalErr, published, update, readyReader>>
      /\ awaiting' = awaiting \/ awaiting' = "drain"
  BY DEF AskReady, ReadyNewsletterClosed, SendReadyAccepted, Signal, SignalCancelled, ReceiveReadyState
<1>3. outcome' = outcome \/ (outcome' = "ready" => ~isAcceptingReadyStateUpdates /\ ~originalErr)
  <2>1. CASE Signal(a)
    BY <2>1 DEF Signal, ReadyInv, Publishing
  <2>2. CASE ~Signal(a)
    BY <2>2 DEF AskReady, ReadyNewsletterClosed, SendReadyAccepted, SignalCancelled, ReceiveReadyState
  <2>3. QED BY <2>1, <2>2
<1>4. Publishing' /\ awaiter' \in [Everybody -> Awaiters]
  BY <1>1, <1>2, <1>3, AwaiterMoves
<1>5. /\ outcome' \in {"none", "ready", "aborted", "error"}
      /\ readyStates' \subseteq Everybody
      /\ cancelled' \in BOOLEAN
  BY ReadyTypes DEF ReadyInv, AskReady, ReadyNewsletterClosed, SendReadyAccepted, Signal, SignalCancelled,
     ReceiveReadyState
<1>6. ReadyTypeOK'
  <2>1. awaiting' \in {"off", "wait", "drain", "returned"}
    BY <1>2, ReadyTypes DEF ReadyInv
  <2>2. QED BY <1>2, <1>4, <1>5, <2>1 DEF ReadyInv, ReadyTypeOK, Awaiters
<1>7. QED BY <1>4, <1>6 DEF ReadyInv

\* handleReadyStateUpdate: the update is built, and the one who publishes it
\* has modeMutex, so that nobody has ended the acceptance in between.
LEMMA BuildStep ==
    ASSUME ReadyInv, NEW a \in Everybody, BuildUpdate(a)
    PROVE  ReadyInv'
<1>1. /\ awaiter[a] = "update" /\ ModeMutexFree
      /\ UNCHANGED <<awaiting, outcome, asked, readyStates, isAcceptingReadyStateUpdates,
                     originalErr, cancelled, published, readyReader>>
  BY DEF BuildUpdate
<1>2. CASE isAcceptingReadyStateUpdates
  <2>1. awaiter' = [awaiter EXCEPT ![a] = "publish"] /\ update' = readyStates
    BY <1>2 DEF BuildUpdate, Goes
  <2>2. awaiter' \in [Everybody -> Awaiters] /\ update' \subseteq Everybody
    BY <2>1, ReadyTypes DEF ReadyInv, Awaiters
  <2>3. awaiter'[a] = "publish" /\ \A b \in Everybody \ {a} : awaiter'[b] = awaiter[b]
    BY <2>1, ReadyTypes DEF ReadyInv
  <2>4. awaiting # "off"
    BY <1>1 DEF ReadyInv, Publishing
  <2>5. Publishing'
    BY <1>1, <1>2, <2>3, <2>4 DEF ReadyInv, Publishing, ModeMutexFree
  <2>6. ReadyTypeOK'
    BY <1>1, <2>2 DEF ReadyInv, ReadyTypeOK, Awaiters
  <2>7. QED BY <2>5, <2>6 DEF ReadyInv
<1>3. CASE ~isAcceptingReadyStateUpdates
  <2>1. Goes(a, "listen") /\ update' = update
    BY <1>3 DEF BuildUpdate
  <2>2. Publishing' /\ awaiter' \in [Everybody -> Awaiters]
    BY <1>1, <2>1, AwaiterMoves
  <2>3. ReadyTypeOK'
    BY <1>1, <2>1, <2>2 DEF ReadyInv, ReadyTypeOK, Awaiters
  <2>4. QED BY <2>2, <2>3 DEF ReadyInv
<1>4. QED BY <1>2, <1>3

\* The update is taken. If everybody is ready in it, it is the last one.
LEMMA PublishStep ==
    ASSUME ReadyInv, NEW a \in Everybody, NEW next \in {"read", "broadcast"}, PublishUpdate(a, next)
    PROVE  ReadyInv'
<1>1. /\ awaiter[a] = "publish" /\ readyReader = "read"
      /\ published' = update /\ update' = {} /\ readyReader' = next
      /\ UNCHANGED <<awaiting, outcome, asked, readyStates, originalErr, cancelled>>
  BY DEF PublishUpdate
<1>2. /\ isAcceptingReadyStateUpdates /\ awaiting # "off"
      /\ \A b \in Everybody \ {a} : awaiter[b] \notin {"publish", "signal", "signalError"}
  BY <1>1 DEF ReadyInv, Publishing
<1>3. ~originalErr /\ outcome # "ready"
  BY <1>2 DEF ReadyInv, Publishing
<1>4. CASE update = asked
  <2>1. awaiter' = [awaiter EXCEPT ![a] = "signal"] /\ isAcceptingReadyStateUpdates' = FALSE
    BY <1>4 DEF PublishUpdate, Goes
  <2>2. /\ awaiter' \in [Everybody -> Awaiters]
        /\ awaiter'[a] = "signal" /\ \A b \in Everybody \ {a} : awaiter'[b] = awaiter[b]
    BY <2>1, ReadyTypes DEF ReadyInv, Awaiters
  <2>3. Publishing'
    BY <1>1, <1>2, <1>3, <1>4, <2>1, <2>2 DEF ReadyInv, Publishing
  <2>4. ReadyTypeOK'
    BY <1>1, <2>1, <2>2 DEF ReadyInv, ReadyTypeOK, Awaiters
  <2>5. QED BY <2>3, <2>4 DEF ReadyInv
<1>5. CASE update # asked
  <2>1. /\ awaiter' = [awaiter EXCEPT ![a] = "listen"]
        /\ isAcceptingReadyStateUpdates' = isAcceptingReadyStateUpdates
    BY <1>5 DEF PublishUpdate, Goes
  <2>2. /\ awaiter' \in [Everybody -> Awaiters]
        /\ awaiter'[a] = "listen" /\ \A b \in Everybody \ {a} : awaiter'[b] = awaiter[b]
    BY <2>1, ReadyTypes DEF ReadyInv, Awaiters
  <2>3. Publishing'
    BY <1>1, <1>2, <1>3, <2>1, <2>2 DEF ReadyInv, Publishing
  <2>4. ReadyTypeOK'
    BY <1>1, <2>1, <2>2 DEF ReadyInv, ReadyTypeOK, Awaiters
  <2>5. QED BY <2>3, <2>4 DEF ReadyInv
<1>6. QED BY <1>4, <1>5

\* handleError keeps an error only while updates are accepted.
LEMMA ErrorStep ==
    ASSUME ReadyInv, NEW a \in Everybody, HandleError(a)
    PROVE  ReadyInv'
<1>1. /\ awaiter[a] \in {"error", "accepted"} /\ ModeMutexFree
      /\ UNCHANGED <<awaiting, outcome, asked, readyStates, cancelled, update, published, readyReader>>
  BY DEF HandleError
<1>2. CASE isAcceptingReadyStateUpdates /\ ~originalErr
  <2>1. /\ awaiter' = [awaiter EXCEPT ![a] = "signalError"]
        /\ originalErr' = TRUE /\ isAcceptingReadyStateUpdates' = FALSE
    BY <1>2 DEF HandleError, Goes
  <2>2. /\ awaiter' \in [Everybody -> Awaiters]
        /\ awaiter'[a] = "signalError" /\ \A b \in Everybody \ {a} : awaiter'[b] = awaiter[b]
    BY <2>1, ReadyTypes DEF ReadyInv, Awaiters
  <2>3. awaiting # "off" /\ outcome # "ready"
    BY <1>1, <1>2 DEF ReadyInv, Publishing
  <2>4. Publishing'
    BY <1>1, <2>1, <2>2, <2>3 DEF ReadyInv, Publishing, ModeMutexFree
  <2>5. ReadyTypeOK'
    BY <1>1, <2>1, <2>2 DEF ReadyInv, ReadyTypeOK, Awaiters
  <2>6. QED BY <2>4, <2>5 DEF ReadyInv
<1>3. CASE ~(isAcceptingReadyStateUpdates /\ ~originalErr)
  <2>1. Goes(a, "gone") /\ UNCHANGED <<originalErr, isAcceptingReadyStateUpdates>>
    BY <1>3 DEF HandleError
  <2>2. Publishing' /\ awaiter' \in [Everybody -> Awaiters]
    BY <1>1, <2>1, AwaiterMoves
  <2>3. ReadyTypeOK'
    BY <1>1, <2>1, <2>2 DEF ReadyInv, ReadyTypeOK, Awaiters
  <2>4. QED BY <2>2, <2>3 DEF ReadyInv
<1>4. QED BY <1>2, <1>3

\* RequestAndAwaitReady itself and the reader of updates.
LEMMA AwaitStep ==
    ASSUME ReadyInv, NEW isDone \in BOOLEAN,
           \/ AwaitAborted(isDone) \/ AwaitReturns \/ ReadyReaderStops(isDone) \/ ReadyBroadcastReturns
    PROVE  ReadyInv'
<1>1. /\ UNCHANGED <<asked, awaiter, isAcceptingReadyStateUpdates, originalErr, update, published>>
      /\ outcome' = outcome \/ outcome' = "aborted"
      /\ awaiting' = awaiting \/ awaiting' \in {"drain", "returned"}
      /\ cancelled' = cancelled \/ cancelled' = TRUE
      /\ readyStates' = readyStates \/ readyStates' = {}
      /\ readyReader' = readyReader \/ readyReader' \in {"read", "stopped"}
  BY DEF AwaitAborted, AwaitReturns, ReadyReaderStops, ReadyBroadcastReturns
<1>2. Publishing'
  BY <1>1 DEF ReadyInv, Publishing
<1>3. ReadyTypeOK'
  BY <1>1 DEF ReadyInv, ReadyTypeOK
<1>4. QED BY <1>2, <1>3 DEF ReadyInv

\* Everybody who is asked starts anew.
LEMMA RequestStep ==
    ASSUME ReadyInv, NEW S \in SUBSET Everybody, RequestReady(S)
    PROVE  ReadyInv'
<1>1. /\ awaiting = "off" /\ awaiting' = "wait" /\ asked' = S
      /\ awaiter' = [a \in Everybody |-> IF a \in S THEN "ask" ELSE "off"]
      /\ readyReader' = "read"
      /\ UNCHANGED <<outcome, readyStates, isAcceptingReadyStateUpdates, originalErr, cancelled,
                     update, published>>
  BY DEF RequestReady
<1>2. awaiter' \in [Everybody -> Awaiters] /\ \A a \in Everybody : awaiter'[a] \in {"ask", "off"}
  BY <1>1 DEF Awaiters
<1>3. isAcceptingReadyStateUpdates
  BY <1>1 DEF ReadyInv, Publishing
<1>4. Publishing'
  BY <1>1, <1>2, <1>3 DEF ReadyInv, Publishing
<1>5. ReadyTypeOK'
  BY <1>1, <1>2 DEF ReadyInv, ReadyTypeOK, Awaiters
<1>6. QED BY <1>4, <1>5 DEF ReadyInv

\* What others do.
LEMMA ReadyUnchanged == ASSUME ReadyInv, UNCHANGED readyVars PROVE ReadyInv'
BY DEF ReadyInv, ReadyTypeOK, Publishing, readyVars

-----------------------------------------------------------------------------
(* The players that join.                                                   *)

Offices == {"off", "notify", "open", "join", "leave", "joined", "left", "ended"}

\* What holds after any step of an office, besides the players.
LEMMA AtFacts ==
    ASSUME PlayersTypeOK, NEW a \in Actors, NEW to \in Offices, NEW u \in Players \cup {NoPlayer}, At(a, to, u)
    PROVE  /\ office' \in [Actors -> Offices]
           /\ candidate' \in [Actors -> Players \cup {NoPlayer}]
           /\ office'[a] = to /\ candidate'[a] = u
           /\ \A b \in Actors \ {a} : office'[b] = office[b] /\ candidate'[b] = candidate[b]
BY DEF PlayersTypeOK, Offices, At

\* An office that neither gets nor has the mutex moves on.
LEMMA OfficeMoves ==
    ASSUME PlayersInv, NEW a \in Actors, office[a] \notin {"off", "joined", "left"},
           NEW to \in Offices \ {"joined", "left"}, NEW u \in Players \cup {NoPlayer}, At(a, to, u),
           to \in {"join", "leave"} => u \in Players,
           UNCHANGED <<active, announced, playerReader, matchVars>>
    PROVE  PlayersInv'
<1>1. /\ office' \in [Actors -> Offices]
      /\ candidate' \in [Actors -> Players \cup {NoPlayer}]
      /\ office'[a] = to /\ candidate'[a] = u
      /\ \A b \in Actors \ {a} : office'[b] = office[b] /\ candidate'[b] = candidate[b]
  BY AtFacts DEF PlayersInv
<1>2. PlayersMutexFree' <=> PlayersMutexFree
  BY <1>1 DEF PlayersMutexFree
<1>3. UNCHANGED <<match, players, active, announced, playerReader>>
  BY DEF matchVars
<1>4. Announcing'
  BY <1>1, <1>2, <1>3 DEF PlayersInv, Announcing
<1>5. PlayersTypeOK'
  BY <1>1, <1>3 DEF PlayersInv, PlayersTypeOK, Offices
<1>6. MatchTypeOK'
  BY DEF PlayersInv, MatchTypeOK, matchVars
<1>7. QED BY <1>4, <1>5, <1>6 DEF PlayersInv

\* The steps of an office that leave the players alone.
LEMMA OfficeStep ==
    ASSUME PlayersInv, NEW a \in Actors, NEW isDone \in BOOLEAN, UNCHANGED matchVars,
           \/ NotifyOpen(a) \/ OfficeFails(a) \/ OfficeCloses(a, isDone)
           \/ \E u \in Players : PlayerJoin(a, u) \/ PlayerLeave(a, u)
    PROVE  PlayersInv'
<1>1. UNCHANGED <<active, announced, playerReader>> /\ office[a] \in {"notify", "open"}
  BY DEF NotifyOpen, OfficeFails, OfficeCloses, PlayerJoin, PlayerLeave
<1>2. CASE NotifyOpen(a) \/ OfficeFails(a) \/ OfficeCloses(a, isDone)
  <2>1. At(a, "open", NoPlayer) \/ At(a, "ended", NoPlayer)
    BY <1>2 DEF NotifyOpen, Answer, OfficeFails, OfficeCloses
  <2>2. {"open", "ended"} \subseteq Offices \ {"joined", "left"}
    BY DEF Offices
  <2>3. QED BY <1>1, <2>1, <2>2, OfficeMoves
<1>3. CASE \E u \in Players : PlayerJoin(a, u) \/ PlayerLeave(a, u)
  <2>1. PICK u \in Players : At(a, "join", u) \/ At(a, "leave", u)
    BY <1>3 DEF PlayerJoin, PlayerLeave
  <2>2. {"join", "leave"} \subseteq Offices \ {"joined", "left"}
    BY DEF Offices
  <2>3. QED BY <1>1, <2>1, <2>2, OfficeMoves
<1>4. QED BY <1>2, <1>3

\* AddPlayer and RemovePlayer get the mutex for what they change.
LEMMA PlayerStep ==
    ASSUME PlayersInv, NEW a \in Actors, UNCHANGED matchVars, AddPlayer(a) \/ RemovePlayer(a)
    PROVE  PlayersInv'
<1>1. /\ office[a] \in {"join", "leave"} /\ PlayersMutexFree
      /\ UNCHANGED <<announced, playerReader>>
      /\ {"open", "ended"} \subseteq Offices \ {"joined", "left"}
      /\ {"joined", "left"} \subseteq Offices
  BY DEF AddPlayer, RemovePlayer, Offices
<1>2. candidate[a] \in Players /\ active = announced
  BY <1>1 DEF PlayersInv, Announcing
<1>3. CASE active' = active /\ Answer(a)
  <2>1. At(a, "open", NoPlayer) \/ At(a, "ended", NoPlayer)
    BY <1>3 DEF Answer
  <2>2. QED BY <1>1, <1>3, <2>1, OfficeMoves
<1>4. CASE \/ active' = active \cup {candidate[a]} /\ At(a, "joined", candidate[a])
           \/ active' = active \ {candidate[a]} /\ At(a, "left", candidate[a])
  <2>1. /\ office' \in [Actors -> Offices]
        /\ candidate' \in [Actors -> Players \cup {NoPlayer}]
        /\ candidate'[a] = candidate[a]
        /\ \/ office'[a] = "joined" /\ active' = announced \cup {candidate[a]}
           \/ office'[a] = "left" /\ active' = announced \ {candidate[a]}
        /\ \A b \in Actors \ {a} : office'[b] = office[b] /\ candidate'[b] = candidate[b]
    BY <1>1, <1>2, <1>4, AtFacts DEF PlayersInv
  <2>2. UNCHANGED <<match, players, announced, playerReader>>
    BY <1>1 DEF matchVars
  <2>3. ~PlayersMutexFree'
    BY <2>1 DEF PlayersMutexFree
  <2>4. match \notin {"none", "init", "assign", "cast", "open"}
    BY <1>1 DEF PlayersInv, Announcing
  <2>5. Announcing'
    BY <1>1, <1>2, <2>1, <2>2, <2>3, <2>4 DEF PlayersInv, Announcing, PlayersMutexFree
  <2>6. active' \subseteq Players
    BY <1>2, <2>1 DEF PlayersInv, PlayersTypeOK
  <2>7. PlayersTypeOK'
    BY <2>1, <2>2, <2>6 DEF PlayersInv, PlayersTypeOK, Offices
  <2>8. MatchTypeOK'
    BY DEF PlayersInv, MatchTypeOK, matchVars
  <2>9. QED BY <2>5, <2>7, <2>8 DEF PlayersInv
<1>5. QED BY <1>3, <1>4 DEF AddPlayer, RemovePlayer

\* The update of the one who has the mutex is taken: what is announced is what
\* is active. The reader takes it, so the teams are not filled yet.
LEMMA SendStep ==
    ASSUME PlayersInv, NEW a \in Actors, NEW next \in {"read", "broadcast"}, UNCHANGED matchVars,
           SendPlayerUpdate(a, next)
    PROVE  PlayersInv'
<1>1. /\ office[a] \in {"joined", "left"} /\ playerReader = "read"
      /\ announced' = IF office[a] = "joined" THEN announced \cup {candidate[a]}
                      ELSE announced \ {candidate[a]}
      /\ playerReader' = next /\ active' = active
      /\ At(a, "open", NoPlayer)
  BY DEF SendPlayerUpdate
<1>2. announced' = active
  BY <1>1 DEF PlayersInv, Announcing
<1>3. /\ office' \in [Actors -> Offices]
      /\ candidate' \in [Actors -> Players \cup {NoPlayer}]
      /\ office'[a] = "open"
      /\ \A b \in Actors \ {a} : office'[b] = office[b] /\ candidate'[b] = candidate[b]
  BY <1>1, AtFacts DEF PlayersInv, Offices
<1>4. \A b \in Actors : office'[b] \notin {"joined", "left"}
  BY <1>1, <1>3 DEF PlayersInv, Announcing
<1>5. match \notin {"none", "init", "assign", "cast", "open", "fill", "filled"} /\ match' = match
  BY <1>1 DEF PlayersInv, Announcing, matchVars
<1>6. Announcing'
  BY <1>1, <1>2, <1>3, <1>4, <1>5 DEF PlayersInv, Announcing
<1>7. PlayersTypeOK'
  BY <1>1, <1>2, <1>3 DEF PlayersInv, PlayersTypeOK, Offices
<1>8. MatchTypeOK'
  BY DEF PlayersInv, MatchTypeOK, matchVars
<1>9. QED BY <1>6, <1>7, <1>8 DEF PlayersInv

\* The reader of updates.
LEMMA PlayerReaderStep ==
    ASSUME PlayersInv, NEW isDone \in BOOLEAN, UNCHANGED matchVars,
           PlayerReaderStops(isDone) \/ PlayerBroadcastReturns
    PROVE  PlayersInv'
<1>1. /\ UNCHANGED <<office, candidate, active, announced, match, players>>
      /\ playerReader \in {"read", "broadcast"} /\ playerReader' \in {"read", "stopped"}
  BY DEF PlayerReaderStops, PlayerBroadcastReturns, matchVars
<1>2. PlayersMutexFree' <=> PlayersMutexFree
  BY <1>1 DEF PlayersMutexFree
<1>3. Announcing'
  BY <1>1, <1>2 DEF PlayersInv, Announcing
<1>4. PlayersTypeOK' /\ MatchTypeOK'
  BY <1>1 DEF PlayersInv, PlayersTypeOK, MatchTypeOK, matchVars
<1>5. QED BY <1>3, <1>4 DEF PlayersInv

\* The match moves on and leaves the players alone.
LEMMA MatchMoves ==
    ASSUME PlayersInv, UNCHANGED playerVars, MatchTypeOK',
           match' \in {"none", "init", "assign", "cast", "open"} =>
                match \in {"none", "init", "assign", "cast", "open"},
           match' \in {"fill", "filled"} => playerReader = "stopped",
           match' = "filled" => players' = announced
    PROVE  PlayersInv'
<1>1. PlayersMutexFree' <=> PlayersMutexFree
  BY DEF PlayersMutexFree, playerVars
<1>2. Announcing'
  BY <1>1 DEF PlayersInv, Announcing, playerVars
<1>3. PlayersTypeOK'
  BY DEF PlayersInv, PlayersTypeOK, playerVars
<1>4. QED BY <1>2, <1>3 DEF PlayersInv

\* Nothing of a match changes, or its context or process ends.
LEMMA MatchEnds ==
    ASSUME PlayersInv, UNCHANGED <<playerVars, match, teamCount, bases, monitors, hasMonitors, players>>,
           ctxDone' \in BOOLEAN, handlersDone' \in BOOLEAN, crashed' \in BOOLEAN
    PROVE  PlayersInv'
<1>1. MatchTypeOK'
  BY DEF PlayersInv, MatchTypeOK
<1>2. QED BY <1>1, MatchMoves DEF PlayersInv, Announcing

\* The winners are actors.
LEMMA WinnersAreActors ==
    ASSUME CastingTypeOK
    PROVE  /\ Winners \subseteq Actors
           /\ \A n \in DOMAIN winners : winners[n][2] \in Actors
           /\ \A k : WinnersOf(k) \subseteq Winners
<1>1. \A n \in DOMAIN winners : winners[n] \in Keys \X Actors
  BY DEF CastingTypeOK
<1>2. QED BY <1>1 DEF Winners, WinnersOf, AssignedTo

\* The setup before players join.
LEMMA SetupStep ==
    ASSUME PlayersInv, CastingTypeOK,
           \/ \E n \in TeamCounts \cup {NoTeamCount} : NewMatch(n)
           \/ Start \/ PerformRoleAssignment \/ RetrieveWinners
    PROVE  PlayersInv'
<1>1. CASE \E n \in TeamCounts \cup {NoTeamCount} : NewMatch(n)
  <2>1. PICK n \in TeamCounts \cup {NoTeamCount} : NewMatch(n)
    BY <1>1
  <2>2. ConfigFromRequest(n) \in 0..Len(TeamBases)
    BY TeamDeathmatchAssumption DEF ConfigFromRequest, defaultConfigTeamCount
  <2>3. MatchTypeOK' /\ match = "none" /\ match' = "init" /\ UNCHANGED playerVars
    BY <2>1, <2>2 DEF NewMatch, PlayersInv, MatchTypeOK
  <2>4. QED BY <2>3, MatchMoves
<1>2. CASE Start
  <2>1. MatchTypeOK' /\ match = "init" /\ match' = "assign" /\ UNCHANGED playerVars
    BY <1>2 DEF Start, PlayersInv, MatchTypeOK
  <2>2. QED BY <2>1, MatchMoves
<1>3. ASSUME AbortMatch PROVE PlayersInv'
  <2>1. UNCHANGED <<playerVars, match, teamCount, bases, monitors, hasMonitors, players>>
    BY <1>3 DEF AbortMatch
  <2>2. ctxDone' \in BOOLEAN /\ handlersDone' \in BOOLEAN /\ crashed' \in BOOLEAN
    BY <1>3 DEF AbortMatch, PlayersInv, MatchTypeOK
  <2>3. QED BY <2>1, <2>2, MatchEnds
<1>4. CASE PerformRoleAssignment /\ ~AbortMatch
  <2>1. MatchTypeOK' /\ match = "assign" /\ match' = "cast" /\ UNCHANGED playerVars
    BY <1>4 DEF PerformRoleAssignment, PlayersInv, MatchTypeOK
  <2>2. QED BY <2>1, MatchMoves
<1>5. CASE RetrieveWinners /\ ~AbortMatch
  <2>1. /\ match = "cast" /\ match' = "open"
        /\ bases' = UNION {WinnersOf(TeamBases[n]) : n \in 1..teamCount}
        /\ hasMonitors' = (WinnersOf(MatchMonitor) # {})
        /\ monitors' = IF hasMonitors' THEN WinnersOf(TeamBaseMonitor) ELSE {}
        /\ UNCHANGED <<playerVars, teamCount, ctxDone, handlersDone, players, crashed>>
    BY <1>5 DEF RetrieveWinners
  <2>2. \A k : WinnersOf(k) \subseteq Actors
    BY WinnersAreActors
  <2>3. bases' \subseteq Actors /\ monitors' \subseteq Actors /\ hasMonitors' \in BOOLEAN
    BY <2>1, <2>2
  <2>4. MatchTypeOK'
    BY <2>1, <2>3 DEF PlayersInv, MatchTypeOK
  <2>5. QED BY <2>1, <2>4, MatchMoves
<1>6. QED BY <1>1, <1>2, <1>3, <1>4, <1>5

\* The offices open with nobody in them.
LEMMA OpenStep ==
    ASSUME PlayersInv, PlayerJoinsAndAwaitReady
    PROVE  PlayersInv'
<1>1. /\ match = "open" /\ match' = "await"
      /\ office' = [a \in Actors |-> IF a \in bases THEN "notify" ELSE "off"]
      /\ playerReader' = "read"
      /\ UNCHANGED <<candidate, active, announced, teamCount, ctxDone, handlersDone,
                     bases, monitors, hasMonitors, players, crashed>>
  BY DEF PlayerJoinsAndAwaitReady, OpenOffices
<1>2. office' \in [Actors -> Offices] /\ \A a \in Actors : office'[a] \in {"notify", "off"}
  BY <1>1 DEF Offices
<1>3. PlayersMutexFree
  BY <1>1 DEF PlayersInv, Announcing, PlayersMutexFree
<1>4. Announcing'
  BY <1>1, <1>2, <1>3 DEF PlayersInv, Announcing
<1>5. PlayersTypeOK' /\ MatchTypeOK'
  BY <1>1, <1>2 DEF PlayersInv, PlayersTypeOK, MatchTypeOK, Offices
<1>6. QED BY <1>4, <1>5 DEF PlayersInv

\* The readers are waited for before the teams are filled with the players,
\* under the mutex: what is active then has been announced.
LEMMA FillStep ==
    ASSUME PlayersInv, CancelHandlers \/ WaitForHandlers \/ FillTeams
    PROVE  PlayersInv'
<1>1. CASE CancelHandlers
  <2>1. MatchTypeOK' /\ match' = "join" /\ UNCHANGED playerVars
    BY <1>1 DEF CancelHandlers, PlayersInv, MatchTypeOK
  <2>2. QED BY <2>1, MatchMoves
<1>2. CASE WaitForHandlers /\ AbortMatch
  <2>1. UNCHANGED <<playerVars, match, teamCount, bases, monitors, hasMonitors, players>>
    BY <1>2 DEF AbortMatch
  <2>2. ctxDone' \in BOOLEAN /\ handlersDone' \in BOOLEAN /\ crashed' \in BOOLEAN
    BY <1>2 DEF AbortMatch, PlayersInv, MatchTypeOK
  <2>3. QED BY <2>1, <2>2, MatchEnds
<1>3. CASE WaitForHandlers /\ ~AbortMatch
  <2>1. MatchTypeOK' /\ match' = "fill" /\ playerReader = "stopped" /\ UNCHANGED playerVars
    BY <1>3 DEF WaitForHandlers, PlayersInv, MatchTypeOK
  <2>2. QED BY <2>1, MatchMoves
<1>4. CASE FillTeams
  <2>1. match = "fill" /\ match' = "filled" /\ players' = active /\ PlayersMutexFree /\ UNCHANGED playerVars
    BY <1>4 DEF FillTeams
  <2>2. players' = announced /\ playerReader = "stopped"
    BY <2>1 DEF PlayersInv, Announcing
  <2>3. MatchTypeOK'
    BY <1>4, <2>1 DEF FillTeams, PlayersInv, PlayersTypeOK, MatchTypeOK
  <2>4. QED BY <2>1, <2>2, <2>3, MatchMoves
<1>5. QED BY <1>1, <1>2, <1>3, <1>4

-----------------------------------------------------------------------------
(* The casting.                                                             *)

\* The requests of a match are well-formed.
LEMMA RequestsTyped ==
    ASSUME MatchTypeOK
    PROVE  MatchRequests \in Seq([key : Keys, min : Nat, max : SUBSET Nat])
<1> DEFINE R == [key : Keys, min : Nat, max : SUBSET Nat]
           forTeams == [n \in 1..(2 * teamCount) |->
                            IF n % 2 = 1 THEN [key |-> TeamBases[(n + 1) \div 2], min |-> 1, max |-> {}]
                            ELSE [key |-> TeamBaseMonitor, min |-> 0, max |-> {}]]
<1>1. teamCount \in Nat /\ teamCount <= Len(TeamBases)
  BY TeamDeathmatchAssumption DEF MatchTypeOK
<1>2. 2 * teamCount \in Nat
  BY <1>1
<1>3. ASSUME NEW n \in 1..(2 * teamCount) PROVE (n + 1) \div 2 \in 1..Len(TeamBases)
  BY <1>1, TeamDeathmatchAssumption
<1>4. \A n \in 1..(2 * teamCount) : TeamBases[(n + 1) \div 2] \in Keys
  BY <1>3, TeamDeathmatchAssumption
<1>5. \A n \in 1..(2 * teamCount) : forTeams[n] \in R
  BY <1>4, TeamDeathmatchAssumption
<1>6. [key |-> MatchMonitor, min |-> 0, max |-> {}] \in R
  BY TeamDeathmatchAssumption
<1>7. forTeams = [n \in 1..(2 * teamCount) |-> forTeams[n]]
  OBVIOUS
<1>8. MatchRequests = Append(forTeams, [key |-> MatchMonitor, min |-> 0, max |-> {}])
  BY DEF MatchRequests
<1> HIDE DEF R, forTeams
<1>9. forTeams \in Seq(R)
  BY <1>2, <1>5, <1>7
<1>10. QED BY <1>6, <1>8, <1>9 DEF R

\* Only the performer moves, and nobody has been hired.
LEMMA AskingStep ==
    ASSUME CastingInv,
           \/ RequestAssignments \/ FiredAll
           \/ \E isDone \in BOOLEAN : NoAssignments(isDone)
    PROVE  CastingInv'
<1>1. /\ UNCHANGED <<castingState, requests, winners, remaining, hired, contract, late, fired>>
      /\ performer' \in {"request", "await", "failed"}
      /\ \/ performer \in {"request", "await"}
         \/ performer = "fire" /\ hired = {}
  BY DEF RequestAssignments, FiredAll, NoAssignments, NotifyJury, Fails, contractVars
<1>2. hired = {} /\ \A a \in Actors : contract[a] # "match"
  BY <1>1 DEF CastingInv, Hiring
<1>3. Hiring'
  BY <1>1, <1>2 DEF CastingInv, Hiring
<1>4. ContractsTypeOK' /\ CastingTypeOK'
  BY <1>1 DEF CastingInv, ContractsTypeOK, CastingTypeOK
<1>5. QED BY <1>3, <1>4 DEF CastingInv

\* The casting begins.
LEMMA PerformStep ==
    ASSUME CastingInv, MatchTypeOK, Perform(MatchRequests)
    PROVE  CastingInv'
<1>1. /\ performer = "idle" /\ performer' = "request"
      /\ requests' = MatchRequests /\ castingState' = "casting"
      /\ UNCHANGED <<winners, remaining, hired, contract, late, fired>>
  BY DEF Perform, contractVars
<1>2. Hiring'
  BY <1>1 DEF CastingInv, Hiring
<1>3. ContractsTypeOK' /\ CastingTypeOK'
  BY <1>1, RequestsTyped DEF CastingInv, ContractsTypeOK, CastingTypeOK
<1>4. QED BY <1>2, <1>3 DEF CastingInv

\* The assignments are checked, before anybody is hired.
LEMMA ReceiveStep ==
    ASSUME CastingInv, NEW m \in Assignments, ReceiveAssignments(m)
    PROVE  CastingInv'
<1>1. /\ performer = "await"
      /\ UNCHANGED <<castingState, requests, hired, contract, late, fired>>
  BY DEF ReceiveAssignments, contractVars
<1>2. hired = {} /\ \A a \in Actors : contract[a] # "match"
  BY <1>1 DEF CastingInv, Hiring
<1>3. CASE performer' # "hire"
  <2>1. performer' \in {"request", "failed"} /\ UNCHANGED <<winners, remaining>>
    BY <1>3 DEF ReceiveAssignments, NotifyJury, Fails
  <2>2. Hiring'
    BY <1>1, <1>2, <2>1 DEF CastingInv, Hiring
  <2>3. ContractsTypeOK' /\ CastingTypeOK'
    BY <1>1, <2>1 DEF CastingInv, ContractsTypeOK, CastingTypeOK
  <2>4. QED BY <2>2, <2>3 DEF CastingInv
<1>4. CASE performer' = "hire"
  <2>1. /\ winners' = m /\ remaining' = DOMAIN m
        /\ \A n \in DOMAIN m : m[n][2] # UnknownActor
    BY <1>4 DEF ReceiveAssignments, NotifyJury, Fails
  <2>2. m \in Seq(Assignable)
    BY CastingAssumption DEF Assignments
  <2>3. \A n \in DOMAIN m : m[n] \in Keys \X Actors
    BY <2>1, <2>2, CastingAssumption
  <2>4. m \in Seq(Keys \X Actors)
    BY <2>2, <2>3
  <2>5. Hiring'
    BY <1>1, <1>2, <1>4, <2>1 DEF CastingInv, Hiring
  <2>6. ContractsTypeOK' /\ CastingTypeOK'
    BY <1>1, <1>4, <2>1, <2>4 DEF CastingInv, ContractsTypeOK, CastingTypeOK
  <2>7. QED BY <2>5, <2>6 DEF CastingInv
<1>5. QED BY <1>3, <1>4

\* A free winner is hired.
LEMMA HireStep ==
    ASSUME CastingInv, NEW n \in 1..MaxAssignments, HireWinner(n)
    PROVE  CastingInv'
<1> DEFINE w == winners[n][2]
<1>1. /\ performer = "hire" /\ n \in remaining
      /\ contract' = [contract EXCEPT ![w] = "match"]
      /\ hired' = hired \cup {w} /\ remaining' = remaining \ {n}
      /\ UNCHANGED <<castingState, requests, performer, winners, late, fired>>
  BY DEF HireWinner, Hire
<1>2. n \in DOMAIN winners /\ w \in Actors /\ w \in Winners
  BY <1>1, WinnersAreActors DEF CastingInv, CastingTypeOK, Winners
<1>3. /\ contract' \in [Everybody -> {"none", "match", "other", "gone"}]
      /\ contract'[w] = "match" /\ \A a \in Everybody \ {w} : contract'[a] = contract[a]
  BY <1>1, <1>2 DEF CastingInv, ContractsTypeOK, Everybody
<1>4. Winners' = Winners
  BY <1>1 DEF Winners
<1>5. \A l \in DOMAIN winners \ remaining' : winners[l][2] \in hired'
  BY <1>1 DEF CastingInv, Hiring
<1> HIDE DEF w
<1>6. Hiring'
  <2>1. hired \subseteq Actors
    BY DEF CastingInv, CastingTypeOK
  <2>2. QED BY <1>1, <1>2, <1>3, <1>4, <1>5, <2>1 DEF CastingInv, Hiring, Everybody
<1>7. ContractsTypeOK' /\ CastingTypeOK'
  BY <1>1, <1>2, <1>3 DEF CastingInv, ContractsTypeOK, CastingTypeOK
<1>8. QED BY <1>6, <1>7 DEF CastingInv

\* A winner that cannot be hired is the end of the attempt: those with a
\* contract are all in hired.
LEMMA HireFailsStep ==
    ASSUME CastingInv, NEW n \in 1..MaxAssignments, HireFails(n)
    PROVE  CastingInv'
<1>1. /\ performer = "hire" /\ performer' = "fire"
      /\ winners' = <<>> /\ remaining' = {}
      /\ UNCHANGED <<castingState, requests, hired, contract, late, fired>>
  BY DEF HireFails, NoWinners, contractVars
<1>2. Hiring'
  BY <1>1 DEF CastingInv, Hiring
<1>3. ContractsTypeOK' /\ CastingTypeOK'
  BY <1>1 DEF CastingInv, ContractsTypeOK, CastingTypeOK
<1>4. QED BY <1>2, <1>3 DEF CastingInv

\* A contract ends: fire leaves none, and its goroutine is left behind.
LEMMA FireEnds ==
    ASSUME ContractsTypeOK, NEW a \in Everybody, CanFire(a), Fire(a)
    PROVE  /\ ContractsTypeOK'
           /\ contract'[a] \in {"none", "gone"} /\ (contract'[a] = "gone" => contract[a] = "gone")
           /\ \A b \in Everybody \ {a} : contract'[b] = contract[b]
           /\ \A b \in Everybody : late'[b] > 0 => late[b] > 0 \/ b \in fired'
           /\ fired \subseteq fired' /\ (a \in fired' \/ contract' = contract)
<1>1. CASE Employed(a)
  <2>1. /\ contract' = [contract EXCEPT ![a] = "none"]
        /\ late' = [late EXCEPT ![a] = @ + 1] /\ fired' = fired \cup {a}
        /\ late[a] \in 0..MaxLate /\ late[a] < MaxLate
    BY <1>1 DEF Fire, CanFire, ContractsTypeOK
  <2>2. late[a] + 1 \in 0..MaxLate
    BY <2>1, MaxLateAssumption
  <2>3. QED BY <2>1, <2>2 DEF ContractsTypeOK
<1>2. CASE ~Employed(a)
  BY <1>2 DEF Fire, contractVars, ContractsTypeOK, Employed
<1>3. QED BY <1>1, <1>2

\* One of them is fired.
LEMMA FireStep ==
    ASSUME CastingInv, NEW a \in Actors, FireHired(a)
    PROVE  CastingInv'
<1>1. /\ performer = "fire" /\ a \in hired /\ a \in Everybody
      /\ CanFire(a) /\ Fire(a)
      /\ hired' = hired \ {a}
      /\ UNCHANGED <<castingState, requests, performer, winners, remaining>>
  BY DEF FireHired, Everybody
<1>2. /\ ContractsTypeOK'
      /\ contract'[a] # "match" /\ \A b \in Everybody \ {a} : contract'[b] = contract[b]
      /\ \A b \in Everybody : late'[b] > 0 => late[b] > 0 \/ b \in fired'
      /\ fired \subseteq fired'
  BY <1>1, FireEnds DEF CastingInv
<1>3. Hiring'
  BY <1>1, <1>2 DEF CastingInv, Hiring, Everybody
<1>4. CastingTypeOK'
  BY <1>1 DEF CastingInv, CastingTypeOK
<1>5. QED BY <1>2, <1>3, <1>4 DEF CastingInv

\* All winners have been passed, so all of them were hired.
LEMMA DoneStep ==
    ASSUME CastingInv, CastingDone
    PROVE  CastingInv'
<1>1. /\ performer = "hire" /\ remaining = {}
      /\ castingState' = "done" /\ performer' = "done" /\ hired' = {}
      /\ UNCHANGED <<requests, winners, remaining, contract, late, fired>>
  BY DEF CastingDone, contractVars
<1>2. \A a \in Winners \ fired : contract[a] \in {"match", "gone"}
  BY <1>1 DEF CastingInv, Hiring, Winners
<1>3. \A a \in Actors : contract[a] = "match" => a \in Winners
  BY <1>1 DEF CastingInv, Hiring
<1>4. Winners' = Winners
  BY <1>1 DEF Winners
<1>5. Hiring'
  BY <1>1, <1>2, <1>3, <1>4 DEF CastingInv, Hiring
<1>6. ContractsTypeOK' /\ CastingTypeOK'
  BY <1>1 DEF CastingInv, ContractsTypeOK, CastingTypeOK
<1>7. QED BY <1>5, <1>6 DEF CastingInv

\* The match has its winners, and the casting is of no use anymore.
LEMMA DropStep ==
    ASSUME CastingInv, NEW S, DropCasting(S)
    PROVE  CastingInv'
<1>1. /\ performer = "done" /\ performer' = "dropped"
      /\ requests' = <<>> /\ winners' = <<>>
      /\ contract' = [a \in Everybody |-> IF a \in S \cup {GameMaster} /\ Employed(a) THEN "other" ELSE "gone"]
      /\ late' = [a \in Everybody |-> 0] /\ fired' = {}
      /\ UNCHANGED <<castingState, remaining, hired>>
  BY DEF DropCasting, NoWinners
<1>2. ContractsTypeOK'
  <2>1. 0 \in 0..MaxLate
    BY MaxLateAssumption
  <2>2. QED BY <1>1, <2>1 DEF ContractsTypeOK
<1>3. Hiring'
  BY <1>1 DEF Hiring, Everybody
<1>4. CastingTypeOK'
  BY <1>1 DEF CastingInv, CastingTypeOK, Hiring
<1>5. QED BY <1>2, <1>3, <1>4 DEF CastingInv

\* A goroutine of an ended contract fires.
LEMMA LateFireEnds ==
    ASSUME ContractsTypeOK, NEW a \in Everybody, LateFire(a)
    PROVE  /\ ContractsTypeOK' /\ late[a] > 0 /\ fired' = fired
           /\ \A b \in Everybody : contract'[b] = contract[b] \/ (b = a /\ contract'[b] = "none")
           /\ \A b \in Everybody : late'[b] > 0 => late[b] > 0
<1>1. late[a] > 0 /\ fired' = fired /\ late[a] \in 0..MaxLate
  BY DEF LateFire, ContractsTypeOK
<1>2. CASE Employed(a)
  <2>1. contract' = [contract EXCEPT ![a] = "none"] /\ late' = late
    BY <1>2 DEF LateFire
  <2>2. QED BY <1>1, <2>1 DEF ContractsTypeOK
<1>3. CASE ~Employed(a)
  <2>1. contract' = contract /\ late' = [late EXCEPT ![a] = @ - 1]
    BY <1>3 DEF LateFire
  <2>2. late[a] - 1 \in 0..MaxLate
    BY <1>1, MaxLateAssumption
  <2>3. QED BY <1>1, <2>1, <2>2 DEF ContractsTypeOK
<1>4. QED BY <1>2, <1>3

\* Others hire and fire and actors quit at any time, and those fire late that have
\* a reason to. Only who has been fired, by whomever, loses its contract and stays.
LEMMA ActorStep ==
    ASSUME CastingInv, NEW a \in Everybody, UNCHANGED castingVars,
           HiredByOther(a) \/ FiredByOther(a) \/ LateFire(a) \/ Quit(a), a = GameMaster => Quit(a)
    PROVE  CastingInv'
<1>1. /\ ContractsTypeOK'
      /\ \A b \in Actors : contract'[b] = "match" => contract[b] = "match"
      /\ \A b \in Actors : b \notin fired' /\ (b \notin fired => contract[b] \in {"match", "gone"})
                            => contract'[b] \in {"match", "gone"}
      /\ \A b \in Actors : late'[b] > 0 => b \in fired'
  <2>0. ContractsTypeOK /\ \A b \in Actors : b \in Everybody /\ (late[b] > 0 => b \in fired)
    BY DEF CastingInv, Hiring, Everybody
  <2>1. CASE HiredByOther(a)
    BY <2>0, <2>1 DEF HiredByOther, ContractsTypeOK
  <2>2. CASE FiredByOther(a)
    <3>1. contract[a] = "other" /\ CanFire(a) /\ Fire(a)
      BY <2>2 DEF FiredByOther
    <3>2. QED BY <2>0, <3>1, FireEnds
  <2>3. CASE LateFire(a) /\ a \in Actors
    BY <2>0, <2>3, LateFireEnds
  <2>4. CASE Quit(a)
    <3>1. /\ contract' = [contract EXCEPT ![a] = "gone"] /\ late' = [late EXCEPT ![a] = 0]
          /\ fired' = fired \ {a}
      BY <2>4 DEF Quit
    <3>2. 0 \in 0..MaxLate
      BY MaxLateAssumption
    <3>3. ContractsTypeOK'
      BY <2>0, <3>1, <3>2 DEF ContractsTypeOK
    <3>4. \A b \in Actors : b # a => contract'[b] = contract[b] /\ late'[b] = late[b] /\ (b \in fired' <=> b \in fired)
      BY <2>0, <3>1 DEF ContractsTypeOK
    <3>5. contract'[a] = "gone" /\ ~(late'[a] > 0)
      BY <2>0, <3>1 DEF ContractsTypeOK
    <3>6. QED BY <2>0, <3>3, <3>4, <3>5
  <2>5. QED BY <2>1, <2>2, <2>3, <2>4 DEF Everybody
<1>2. UNCHANGED <<castingState, requests, performer, winners, remaining, hired>>
  BY DEF castingVars
<1>3. Winners' = Winners /\ Winners \subseteq Actors /\ hired \subseteq Actors
  BY <1>2, WinnersAreActors DEF Winners, CastingInv, CastingTypeOK
<1>4. Hiring'
  BY <1>1, <1>2, <1>3 DEF CastingInv, Hiring
<1>5. CastingTypeOK'
  BY <1>2 DEF CastingInv, CastingTypeOK
<1>6. QED BY <1>1, <1>4, <1>5 DEF CastingInv

\* What others do.
LEMMA CastingUnchanged == ASSUME CastingInv, UNCHANGED <<contractVars, castingVars>> PROVE CastingInv'
<1>1. UNCHANGED <<castingState, requests, performer, winners, remaining, hired, contract, late, fired>>
  BY DEF castingVars, contractVars
<1>2. Winners' = Winners
  BY <1>1 DEF Winners
<1>3. Hiring'
  BY <1>1, <1>2 DEF CastingInv, Hiring
<1>4. ContractsTypeOK' /\ CastingTypeOK'
  BY <1>1 DEF CastingInv, ContractsTypeOK, CastingTypeOK
<1>5. QED BY <1>3, <1>4 DEF CastingInv

-----------------------------------------------------------------------------
\* The initial states satisfy the invariant.
LEMMA InitInvariant == Init => IInv
<1> SUFFICES ASSUME Init PROVE IInv
  OBVIOUS
<1>1. CastingInv
  <2>1. ContractsTypeOK
    BY MaxLateAssumption DEF Init, Init_Contracts, ContractsTypeOK
  <2>2. CastingTypeOK
    BY DEF Init, Init_Casting, CastingTypeOK, NoWinners
  <2>3. Hiring
    BY GameMasterAssumption DEF Init, Init_Contracts, Init_Casting, Hiring, Everybody
  <2>4. QED BY <2>1, <2>2, <2>3 DEF CastingInv
<1>2. ReadyInv
  BY DEF Init, Init_Ready, ReadyInv, ReadyTypeOK, Publishing
<1>3. PlayersInv
  <2>1. PlayersTypeOK
    BY DEF Init, Init_Players, PlayersTypeOK
  <2>2. 0 \in 0..Len(TeamBases)
    BY TeamDeathmatchAssumption
  <2>3. MatchTypeOK
    BY <2>2 DEF Init, Init_Match, MatchTypeOK
  <2>4. Announcing
    BY DEF Init, Init_Players, Init_Match, Announcing
  <2>5. QED BY <2>1, <2>3, <2>4 DEF PlayersInv
<1>4. QED BY <1>1, <1>2, <1>3 DEF IInv

\* Every step keeps the invariant: it is a step of one of the components, of
\* two at once where the match starts the next stage, or of none.
LEMMA NextInvariant == IInv /\ [Next]_vars => IInv'
<1> SUFFICES ASSUME IInv, [Next]_vars PROVE IInv'
  OBVIOUS
<1>0. /\ CastingInv /\ ReadyInv /\ PlayersInv /\ CastingTypeOK /\ MatchTypeOK
      /\ ctxDone \in BOOLEAN /\ handlersDone \in BOOLEAN /\ crashed \in BOOLEAN
      /\ AfterTaking \in {"read", "broadcast"}
  BY DEF IInv, CastingInv, PlayersInv, MatchTypeOK, AfterTaking
<1>1. ASSUME UNCHANGED <<contractVars, castingVars, readyVars, playerVars, match, teamCount,
                         bases, monitors, hasMonitors, players>>,
             ctxDone' \in BOOLEAN, handlersDone' \in BOOLEAN, crashed' \in BOOLEAN
      PROVE  IInv'
  BY <1>0, <1>1, CastingUnchanged, ReadyUnchanged, MatchEnds DEF IInv
<1>2. ASSUME AbortMatch PROVE IInv'
  BY <1>0, <1>1, <1>2 DEF AbortMatch
<1>3. CASE (\E n \in TeamCounts \cup {NoTeamCount} : NewMatch(n)) \/ Start
  <2>1. UNCHANGED <<contractVars, castingVars>> /\ UNCHANGED readyVars
    BY <1>3 DEF NewMatch, Start
  <2>2. QED BY <1>0, <1>3, <2>1, CastingUnchanged, ReadyUnchanged, SetupStep DEF IInv
<1>4. CASE PerformRoleAssignment
  <2>1. CASE Perform(MatchRequests) /\ UNCHANGED readyVars
    BY <1>0, <1>4, <2>1, PerformStep, ReadyUnchanged, SetupStep DEF IInv
  <2>2. QED BY <1>2, <1>4, <2>1 DEF PerformRoleAssignment
<1>5. CASE RetrieveWinners
  <2>1. CASE DropCasting(bases' \cup monitors') /\ UNCHANGED readyVars
    BY <1>0, <1>5, <2>1, DropStep, ReadyUnchanged, SetupStep DEF IInv
  <2>2. QED BY <1>2, <1>5, <2>1 DEF RetrieveWinners
<1>6. CASE PlayerJoinsAndAwaitReady
  <2>1. UNCHANGED <<contractVars, castingVars>> /\ RequestReady(bases \cup {GameMaster})
    BY <1>6 DEF PlayerJoinsAndAwaitReady
  <2>2. bases \cup {GameMaster} \in SUBSET Everybody
    BY <1>0 DEF MatchTypeOK, Everybody
  <2>3. QED BY <1>0, <1>6, <2>1, <2>2, CastingUnchanged, RequestStep, OpenStep DEF IInv
<1>7. CASE CancelHandlers \/ WaitForHandlers \/ FillTeams
  <2>1. UNCHANGED <<contractVars, castingVars>> /\ UNCHANGED readyVars
    BY <1>7 DEF CancelHandlers, WaitForHandlers, FillTeams, AbortMatch
  <2>2. QED BY <1>0, <1>7, <2>1, CastingUnchanged, ReadyUnchanged, FillStep DEF IInv
<1>8. CASE GameMasterAborts
  BY <1>2, <1>8 DEF GameMasterAborts
<1>9. CASE ContextDone
  BY <1>0, <1>1, <1>9 DEF ContextDone
<1>10. ASSUME ReadyInv', UNCHANGED <<contractVars, castingVars, playerVars, matchVars>> PROVE IInv'
  <2>1. PlayersInv'
    BY <1>0, <1>10, MatchEnds DEF matchVars
  <2>2. CastingInv'
    BY <1>0, <1>10, CastingUnchanged
  <2>3. QED BY <1>10, <2>1, <2>2 DEF IInv
<1>11. ASSUME PlayersInv', UNCHANGED <<contractVars, castingVars, readyVars>> PROVE IInv'
  BY <1>0, <1>11, CastingUnchanged, ReadyUnchanged DEF IInv
<1>12. CASE Cast
  <2>1. PerformAndHire(ctxDone) /\ UNCHANGED <<readyVars, playerVars, matchVars>>
    BY <1>12 DEF Cast
  <2>2. CastingInv'
    BY <1>0, <2>1, AskingStep, ReceiveStep, HireStep, HireFailsStep, FireStep, DoneStep DEF PerformAndHire
  <2>3. PlayersInv'
    BY <1>0, <2>1, MatchEnds DEF matchVars
  <2>4. QED BY <1>0, <2>1, <2>2, <2>3, ReadyUnchanged DEF IInv
<1>13. CASE AwaitReady
  BY <1>0, <1>10, <1>13, AwaitStep DEF AwaitReady, Await
<1>14. CASE ReadyReader
  <2>1. ASSUME NEW a \in Everybody, Await(PublishUpdate(a, AfterTaking)) PROVE IInv'
    BY <1>0, <1>10, <2>1, PublishStep DEF Await
  <2>2. ASSUME Await(ReadyBroadcastReturns) \/ Await(ReadyReaderStops(ctxDone \/ handlersDone)) PROVE IInv'
    <3>1. (ctxDone \/ handlersDone) \in BOOLEAN
      BY <1>0
    <3>2. QED BY <1>0, <1>10, <2>2, <3>1, AwaitStep DEF Await
  <2>3. QED BY <1>2, <1>14, <2>1, <2>2 DEF ReadyReader
<1>15. CASE PlayerReader
  <2>1. ASSUME NEW a \in Actors, Join(SendPlayerUpdate(a, AfterTaking)) PROVE IInv'
    BY <1>0, <1>11, <2>1, SendStep DEF Join
  <2>2. ASSUME Join(PlayerBroadcastReturns) \/ Join(PlayerReaderStops(ctxDone \/ handlersDone)) PROVE IInv'
    <3>1. (ctxDone \/ handlersDone) \in BOOLEAN
      BY <1>0
    <3>2. QED BY <1>0, <1>11, <2>2, <3>1, PlayerReaderStep DEF Join
  <2>3. QED BY <1>2, <1>15, <2>1, <2>2 DEF PlayerReader
<1>16. ASSUME NEW a \in Everybody, Actor(a) PROVE IInv'
  <2>1. /\ \/ Quit(a)
           \/ a \in Actors /\ (HiredByOther(a) \/ FiredByOther(a) \/ LateFire(a))
        /\ UNCHANGED <<castingVars, readyVars, playerVars, matchVars>>
    BY <1>16 DEF Actor
  <2>2. CastingInv'
    BY <1>0, <2>1, ActorStep, GameMasterAssumption
  <2>3. PlayersInv'
    BY <1>0, <2>1, MatchEnds DEF matchVars
  <2>4. QED BY <1>0, <2>1, <2>2, <2>3, ReadyUnchanged DEF IInv
<1>17. ASSUME NEW a \in Everybody,
              Await(AreYouReadyForActor(a)) \/ \E isReady \in BOOLEAN : Await(ReceiveReadyState(a, isReady))
       PROVE  IInv'
  BY <1>0, <1>10, <1>17, ListeningStep, BuildStep, ErrorStep DEF Await, AreYouReadyForActor
<1>18. ASSUME NEW a \in Actors,
              \/ Join(HandlePlayerJoins(a, ctxDone))
              \/ \E u \in Players : Join(PlayerJoin(a, u) \/ PlayerLeave(a, u))
       PROVE  IInv'
  BY <1>0, <1>11, <1>18, OfficeStep, PlayerStep DEF Join, HandlePlayerJoins
<1>19. CASE UNCHANGED vars
  BY <1>0, <1>1, <1>19 DEF vars, matchVars
<1>20. QED BY <1>3, <1>4, <1>5, <1>6, <1>7, <1>8, <1>9, <1>12, <1>13, <1>14, <1>15, <1>16, <1>17, <1>18, <1>19
       DEF Next, Run

\* The invariant holds in all reachable states.
LEMMA Invariant == Spec => []IInv
BY InitInvariant, NextInvariant, PTL DEF Spec

\* Whatever the jury assigns and whoever hires, fires or quits meanwhile,
\* hireWinners hires all the winners or leaves nobody with a contract. A winner
\* that stays loses its contract before the casting is done only if a casting has
\* fired it before.
THEOREM AlwaysAllOrNobodyHired == Spec => []AllOrNobodyHired
<1>1. IInv => AllOrNobodyHired
  BY DEF IInv, CastingInv, CastingTypeOK, Hiring, AllOrNobodyHired
<1>2. QED BY <1>1, Invariant, PTL

\* In whatever order the goroutines of RequestAndAwaitReady get modeMutex, it
\* returns ready only after an update in which everybody was, and no other one
\* follows.
THEOREM ReadyIsAlwaysPublished == Spec => []ReadyIsPublished
<1>1. IInv => ReadyIsPublished
  BY DEF IInv, ReadyInv, Publishing, ReadyIsPublished
<1>2. QED BY <1>1, Invariant, PTL

\* fillTeams reads players that have all been announced, although offices stay
\* open and their goroutines may have got the mutex in between.
THEOREM TeamsAreAlwaysAnnounced == Spec => []TeamsAreAnnounced
<1>1. IInv => TeamsAreAnnounced
  BY DEF IInv, CastingInv, ReadyInv, PlayersInv, MatchTypeOK, Announcing, TypeOK, TeamsAreAnnounced
<1>2. QED BY <1>1, Invariant, PTL

-----------------------------------------------------------------------------
(* Who can go on, by the guards of the steps that need no message, no       *)
(* failure and no cancellation from outside.                                *)

\* run and what it calls.
RunCanMove ==
    \/ match = "init"
    \/ match = "assign" /\ performer = "idle"
    \/ match = "cast" /\ performer \in {"failed", "done"}
    \/ match = "open" /\ awaiting = "off"
    \/ match = "await" /\ awaiting = "returned"
    \/ match = "join" /\ readyReader = "stopped" /\ playerReader = "stopped"
    \/ match = "fill" /\ PlayersMutexFree

\* PerformAndHire: the loops over the winners do not wait for anybody (where
\* MaxLate ends the firing, a late goroutine is left to fire).
CastingCanMove ==
    \/ performer \in {"request", "hire"}
    \/ performer = "fire" /\ (hired = {} \/ \E a \in hired : CanFire(a))
    \/ performer = "await" /\ (ctxDone \/ ~Employed(GameMaster))

\* RequestAndAwaitReady and a goroutine for one of its actors.
AwaitCanMove ==
    \/ awaiting = "wait" /\ ctxDone
    \/ awaiting = "drain" /\ \A a \in asked : awaiter[a] = "gone"

AwaiterCanMove(a) ==
    \/ awaiter[a] = "ask"
    \/ awaiter[a] = "listen" /\ (cancelled \/ ~Employed(a))
    \/ awaiter[a] \in {"update", "error", "accepted"} /\ ModeMutexFree
    \/ awaiter[a] = "publish" /\ readyReader = "read"
    \/ awaiter[a] \in {"signal", "signalError"} /\ (awaiting = "wait" \/ cancelled)

\* A join office.
OfficeCanMove(a) ==
    \/ office[a] = "notify"
    \/ office[a] = "open" /\ ctxDone
    \/ office[a] \in {"join", "leave"} /\ PlayersMutexFree
    \/ office[a] \in {"joined", "left"} /\ playerReader = "read"

\* The readers of updates.
ReaderCanMove ==
    \E reader \in {readyReader, playerReader} :
        reader = "broadcast" \/ (reader = "read" /\ (ctxDone \/ handlersDone))

SomeoneCanMove ==
    \/ RunCanMove \/ CastingCanMove \/ AwaitCanMove \/ ReaderCanMove
    \/ \E a \in Actors : late[a] > 0
    \/ \E a \in Everybody : AwaiterCanMove(a)
    \/ \E a \in Actors : OfficeCanMove(a)

\* A match is over, or it is nobody's turn but the jury's, the actors' that are
\* asked to be ready, and the players'.
AtRest ==
    /\ \/ match \in {"none", "filled"}
       \/ match = "cast" /\ performer = "await" /\ Employed(GameMaster) /\ ~ctxDone
       \/ match = "await" /\ awaiting = "wait" /\ ~ctxDone
    /\ \A a \in Everybody : awaiter[a] \in {"off", "listen", "gone"}
    /\ \A a \in Actors : office[a] \in {"off", "open", "ended"} /\ late[a] = 0

\* A player's join or leave that nobody reads of: its goroutine keeps the mutex of
\* PlayerManagement for ever.
NobodyReadsPlayers == playerReader = "stopped" /\ \E a \in Actors : office[a] \in {"joined", "left"}

\* No match comes to a standstill with calls under way, but through an update of
\* ready-states or of players that nobody reads.
NoDeadlock == crashed \/ NobodyReads \/ NobodyReadsPlayers \/ SomeoneCanMove \/ AtRest

\* What the stages of a match tell of the goroutines that it has started.
Stages ==
    /\ match \in {"none", "init", "assign"} => performer = "idle"
    /\ match = "cast" => performer \in {"request", "await", "hire", "fire", "failed", "done"}
    /\ performer # "idle" /\ match # "cast" => performer = "dropped"
    /\ match \in {"none", "init", "assign", "cast", "open"} => awaiting = "off"
    /\ match = "await" => awaiting # "off"
    /\ match \in {"join", "fill", "filled"} => handlersDone /\ awaiting = "returned"
    /\ match \in {"await", "join", "fill", "filled"} => readyReader # "off" /\ playerReader # "off"

\* Once RequestAndAwaitReady is about to return, everybody it has asked is told.
Waiting ==
    /\ awaiting \in {"drain", "returned"} => cancelled
    /\ \A a \in Everybody : awaiter[a] # "off" <=> a \in asked

\* The steps that RequestAndAwaitReady and its reader can notice.
LEMMA ReadySteps ==
    ASSUME [Next]_vars
    PROVE  \/ UNCHANGED readyVars \/ PlayerJoinsAndAwaitReady
           \/ AwaitAborted(ctxDone) \/ AwaitReturns
           \/ ReadyBroadcastReturns \/ ReadyReaderStops(ctxDone \/ handlersDone)
           \/ \E a \in Everybody :
                \/ AreYouReadyForActor(a) \/ \E isReady \in BOOLEAN : ReceiveReadyState(a, isReady)
                \/ PublishUpdate(a, AfterTaking)
<1>1. CASE UNCHANGED vars
  BY <1>1 DEF vars
<1>2. CASE \/ \E n \in TeamCounts \cup {NoTeamCount} : NewMatch(n)
           \/ Start \/ GameMasterAborts \/ ContextDone \/ Cast
           \/ \E a \in Everybody : Actor(a)
  BY <1>2 DEF NewMatch, Start, GameMasterAborts, ContextDone, Cast, Actor, AbortMatch
<1>3. CASE Run
  BY <1>3 DEF Run, PerformRoleAssignment, RetrieveWinners, CancelHandlers, WaitForHandlers, FillTeams, AbortMatch
<1>4. CASE AwaitReady \/ ReadyReader
  BY <1>4 DEF AwaitReady, ReadyReader, Await, AbortMatch
<1>5. CASE PlayerReader
  BY <1>5 DEF PlayerReader, Join, AbortMatch
<1>6. ASSUME NEW a \in Actors,
             \/ Join(HandlePlayerJoins(a, ctxDone))
             \/ \E u \in Players : Join(PlayerJoin(a, u) \/ PlayerLeave(a, u))
      PROVE  UNCHANGED readyVars
  BY <1>6 DEF Join
<1>7. ASSUME NEW a \in Everybody,
             \/ Await(AreYouReadyForActor(a))
             \/ \E isReady \in BOOLEAN : Await(ReceiveReadyState(a, isReady))
      PROVE  AreYouReadyForActor(a) \/ \E isReady \in BOOLEAN : ReceiveReadyState(a, isReady)
  BY <1>7 DEF Await
<1> QED
  BY <1>1, <1>2, <1>3, <1>4, <1>5, <1>6, <1>7 DEF Next

\* And those that the join offices and their reader can notice.
LEMMA PlayerSteps ==
    ASSUME [Next]_vars
    PROVE  \/ UNCHANGED playerVars \/ PlayerJoinsAndAwaitReady
           \/ PlayerBroadcastReturns \/ PlayerReaderStops(ctxDone \/ handlersDone)
           \/ \E a \in Actors :
                \/ HandlePlayerJoins(a, ctxDone) \/ \E u \in Players : PlayerJoin(a, u) \/ PlayerLeave(a, u)
                \/ SendPlayerUpdate(a, AfterTaking)
<1>1. CASE UNCHANGED vars
  BY <1>1 DEF vars
<1>2. CASE \/ \E n \in TeamCounts \cup {NoTeamCount} : NewMatch(n)
           \/ Start \/ GameMasterAborts \/ ContextDone \/ Cast
           \/ \E a \in Everybody : Actor(a)
  BY <1>2 DEF NewMatch, Start, GameMasterAborts, ContextDone, Cast, Actor, AbortMatch
<1>3. CASE Run
  BY <1>3 DEF Run, PerformRoleAssignment, RetrieveWinners, CancelHandlers, WaitForHandlers, FillTeams, AbortMatch
<1>4. CASE AwaitReady \/ ReadyReader
  BY <1>4 DEF AwaitReady, ReadyReader, Await, AbortMatch
<1>5. CASE PlayerReader
  BY <1>5 DEF PlayerReader, Join, AbortMatch
<1>6. ASSUME NEW a \in Actors,
             \/ Join(HandlePlayerJoins(a, ctxDone))
             \/ \E u \in Players : Join(PlayerJoin(a, u) \/ PlayerLeave(a, u))
      PROVE  HandlePlayerJoins(a, ctxDone) \/ \E u \in Players : PlayerJoin(a, u) \/ PlayerLeave(a, u)
  BY <1>6 DEF Join
<1>7. ASSUME NEW a \in Everybody,
             \/ Await(AreYouReadyForActor(a))
             \/ \E isReady \in BOOLEAN : Await(ReceiveReadyState(a, isReady))
      PROVE  UNCHANGED playerVars
  BY <1>7 DEF Await
<1> QED
  BY <1>1, <1>2, <1>3, <1>4, <1>5, <1>6, <1>7 DEF Next

\* At the start nobody has been asked.
LEMMA GoesOnInit == Init => Stages /\ Waiting
BY DEF Init, Init_Casting, Init_Ready, Init_Match, Stages, Waiting

\* What a step of RequestAndAwaitReady's goroutines does to what Waiting speaks of.
LEMMA AwaitersStay ==
    ASSUME ReadyTypeOK, Waiting, NEW a \in Everybody,
           \/ AreYouReadyForActor(a) \/ \E isReady \in BOOLEAN : ReceiveReadyState(a, isReady)
           \/ PublishUpdate(a, AfterTaking)
    PROVE  Waiting'
<1>1. \E to \in Awaiters \ {"off"} : Goes(a, to)
  BY DEF AreYouReadyForActor, AskReady, BuildUpdate, HandleError, Signal, SignalCancelled, AfterSignal,
     SendReadyAccepted, ReadyNewsletterClosed, ReceiveReadyState, PublishUpdate, Awaiters
<1>2. awaiter[a] # "off" /\ asked' = asked
  BY DEF AreYouReadyForActor, AskReady, BuildUpdate, HandleError, Signal, SignalCancelled,
     SendReadyAccepted, ReadyNewsletterClosed, ReceiveReadyState, PublishUpdate
<1>3. UNCHANGED <<awaiting, cancelled>> \/ cancelled'
  BY DEF AreYouReadyForActor, AskReady, BuildUpdate, HandleError, Signal, SignalCancelled,
     SendReadyAccepted, ReadyNewsletterClosed, ReceiveReadyState, PublishUpdate
<1>4. awaiter \in [Everybody -> Awaiters]
  BY ReadyTypes
<1>5. \A b \in Everybody : awaiter'[b] # "off" <=> awaiter[b] # "off"
  BY <1>1, <1>2, <1>4 DEF Goes
<1> QED
  BY <1>2, <1>3, <1>5 DEF Waiting

\* Every step keeps Waiting.
LEMMA WaitingStep == IInv /\ Waiting /\ [Next]_vars => Waiting'
<1> SUFFICES ASSUME IInv, Waiting, [Next]_vars PROVE Waiting'
  OBVIOUS
<1>0. ReadyTypeOK
  BY DEF IInv, ReadyInv
<1>1. CASE UNCHANGED readyVars
  BY <1>1 DEF readyVars, Waiting
<1>2. CASE PlayerJoinsAndAwaitReady
  BY <1>2 DEF PlayerJoinsAndAwaitReady, RequestReady, Waiting
<1>3. ASSUME NEW a \in Everybody,
             \/ AreYouReadyForActor(a) \/ \E isReady \in BOOLEAN : ReceiveReadyState(a, isReady)
             \/ PublishUpdate(a, AfterTaking)
      PROVE  Waiting'
  BY <1>0, <1>3, AwaitersStay
<1>4. CASE AwaitAborted(ctxDone) \/ AwaitReturns
  BY <1>4 DEF AwaitAborted, AwaitReturns, Waiting
<1>5. CASE ReadyBroadcastReturns \/ ReadyReaderStops(ctxDone \/ handlersDone)
  BY <1>5 DEF ReadyBroadcastReturns, ReadyReaderStops, Waiting
<1>6. \/ UNCHANGED readyVars \/ PlayerJoinsAndAwaitReady
      \/ AwaitAborted(ctxDone) \/ AwaitReturns
      \/ ReadyBroadcastReturns \/ ReadyReaderStops(ctxDone \/ handlersDone)
      \/ \E a \in Everybody :
           \/ AreYouReadyForActor(a) \/ \E isReady \in BOOLEAN : ReceiveReadyState(a, isReady)
           \/ PublishUpdate(a, AfterTaking)
  BY ReadySteps
<1> QED
  BY <1>1, <1>2, <1>3, <1>4, <1>5, <1>6

\* Every step keeps Stages.
LEMMA StagesStep == IInv /\ Stages /\ [Next]_vars => Stages'
<1> SUFFICES ASSUME IInv, Stages, [Next]_vars PROVE Stages'
  OBVIOUS
<1>1. CASE UNCHANGED <<match, performer, awaiting, handlersDone, readyReader, playerReader>>
  BY <1>1 DEF Stages
<1>2. CASE AbortMatch
  BY <1>1, <1>2 DEF AbortMatch, castingVars, readyVars, playerVars
<1>3. CASE (\E n \in TeamCounts \cup {NoTeamCount} : NewMatch(n)) \/ Start
  BY <1>3 DEF NewMatch, Start, castingVars, readyVars, playerVars, Stages
<1>4. CASE PerformRoleAssignment
  BY <1>2, <1>4 DEF PerformRoleAssignment, Perform, readyVars, playerVars, Stages
<1>5. CASE RetrieveWinners
  BY <1>2, <1>5 DEF RetrieveWinners, DropCasting, readyVars, playerVars, Stages
<1>6. CASE PlayerJoinsAndAwaitReady
  BY <1>6 DEF PlayerJoinsAndAwaitReady, OpenOffices, RequestReady, castingVars, Stages
<1>7. CASE CancelHandlers
  BY <1>7 DEF CancelHandlers, castingVars, readyVars, playerVars, Stages
<1>8. CASE WaitForHandlers
  BY <1>2, <1>8 DEF WaitForHandlers, castingVars, readyVars, playerVars, Stages
<1>9. CASE FillTeams
  BY <1>9 DEF FillTeams, castingVars, readyVars, playerVars, Stages
<1>10. CASE GameMasterAborts \/ ContextDone
  BY <1>1, <1>2, <1>10 DEF GameMasterAborts, ContextDone, castingVars, readyVars, playerVars
<1>11. CASE Cast
  <2>1. performer \in {"request", "await", "hire", "fire"}
        /\ performer' \in {"request", "await", "hire", "fire", "failed", "done"}
    BY <1>11 DEF Cast, PerformAndHire, RequestAssignments, NoAssignments, ReceiveAssignments, HireWinner,
       HireFails, FireHired, FiredAll, CastingDone, NotifyJury, Fails
  <2> QED
    BY <1>11, <2>1 DEF Cast, readyVars, playerVars, matchVars, Stages
<1>12. ASSUME NEW a \in Everybody,
              \/ Await(AreYouReadyForActor(a)) \/ Await(PublishUpdate(a, AfterTaking))
              \/ \E isReady \in BOOLEAN : Await(ReceiveReadyState(a, isReady))
       PROVE  Stages'
  <2>1. (awaiting' = awaiting \/ (awaiting = "wait" /\ awaiting' = "drain"))
        /\ (readyReader' = readyReader \/ readyReader' \in {"read", "broadcast"})
    BY <1>12 DEF Await, AreYouReadyForActor, AskReady, BuildUpdate, HandleError, Signal, SignalCancelled,
       SendReadyAccepted, ReadyNewsletterClosed, ReceiveReadyState, PublishUpdate, AfterTaking
  <2> QED
    BY <1>12, <2>1 DEF Await, castingVars, playerVars, matchVars, Stages
<1>13. CASE AwaitReady
  BY <1>13 DEF AwaitReady, Await, AwaitAborted, AwaitReturns, castingVars, playerVars, matchVars, Stages
<1>14. CASE ReadyReader
  <2>1. CASE Await(ReadyBroadcastReturns) \/ Await(ReadyReaderStops(ctxDone \/ handlersDone))
    BY <2>1 DEF Await, ReadyBroadcastReturns, ReadyReaderStops, castingVars, playerVars, matchVars, Stages
  <2> QED
    BY <1>2, <1>12, <1>14, <2>1 DEF ReadyReader
<1>15. CASE PlayerReader
  <2>1. CASE \/ \E a \in Actors : Join(SendPlayerUpdate(a, AfterTaking))
             \/ Join(PlayerBroadcastReturns) \/ Join(PlayerReaderStops(ctxDone \/ handlersDone))
    <3>1. playerReader' # "off"
      BY <2>1 DEF Join, SendPlayerUpdate, PlayerBroadcastReturns, PlayerReaderStops, AfterTaking
    <3> QED
      BY <2>1, <3>1 DEF Join, castingVars, readyVars, matchVars, Stages
  <2> QED
    BY <1>2, <1>15, <2>1 DEF PlayerReader
<1>16. ASSUME NEW a \in Everybody, Actor(a) PROVE Stages'
  BY <1>1, <1>16 DEF Actor, castingVars, readyVars, playerVars, matchVars
<1>17. ASSUME NEW a \in Actors,
              \/ Join(HandlePlayerJoins(a, ctxDone))
              \/ \E u \in Players : Join(PlayerJoin(a, u) \/ PlayerLeave(a, u))
       PROVE  Stages'
  BY <1>1, <1>17 DEF Join, HandlePlayerJoins, NotifyOpen, OfficeFails, OfficeCloses, AddPlayer, RemovePlayer,
     PlayerJoin, PlayerLeave, castingVars, readyVars, matchVars
<1>18. CASE UNCHANGED vars
  BY <1>1, <1>18 DEF vars, castingVars, readyVars, playerVars, matchVars
<1> QED
  BY <1>3, <1>4, <1>5, <1>6, <1>7, <1>8, <1>9, <1>10, <1>11, <1>12, <1>13, <1>14, <1>15, <1>16, <1>17, <1>18
     DEF Next, Run

\* Nobody waits for modeMutex for ever, but behind an update that nobody reads.
LEMMA ModeMutexIsFree ==
    ASSUME IInv, Stages, Waiting, ~NobodyReads, ~SomeoneCanMove
    PROVE  ModeMutexFree
<1> SUFFICES ASSUME NEW a \in Everybody, awaiter[a] \in {"publish", "signal", "signalError"} PROVE FALSE
  BY DEF ModeMutexFree
<1>1. awaiting \in {"wait", "drain", "returned"} /\ a \in asked
  BY DEF IInv, ReadyInv, ReadyTypeOK, Publishing, Waiting
<1>2. CASE awaiter[a] = "publish"
  <2>1. readyReader # "off"
    BY <1>1 DEF Stages, IInv, PlayersInv, MatchTypeOK
  <2> QED
    BY <1>1, <1>2, <2>1 DEF IInv, ReadyInv, ReadyTypeOK, NobodyReads, SomeoneCanMove, AwaiterCanMove, ReaderCanMove
<1>3. CASE awaiter[a] \in {"signal", "signalError"}
  BY <1>1, <1>3 DEF Waiting, SomeoneCanMove, AwaiterCanMove
<1> QED
  BY <1>2, <1>3

\* Nor for the mutex of PlayerManagement.
LEMMA PlayersMutexIsFree ==
    ASSUME IInv, Stages, ~NobodyReadsPlayers, ~SomeoneCanMove
    PROVE  PlayersMutexFree
<1> SUFFICES ASSUME NEW a \in Actors, office[a] \in {"joined", "left"} PROVE FALSE
  BY DEF PlayersMutexFree
<1>1. playerReader # "off"
  BY DEF IInv, PlayersInv, MatchTypeOK, Announcing, Stages
<1> QED
  BY <1>1 DEF IInv, PlayersInv, PlayersTypeOK, NobodyReadsPlayers, SomeoneCanMove, OfficeCanMove, ReaderCanMove

\* Where nobody can go on, nothing is left to do.
LEMMA RestIsReached ==
    ASSUME IInv, Stages, Waiting, ~NobodyReads, ~NobodyReadsPlayers, ~SomeoneCanMove
    PROVE  AtRest
<1>1. ModeMutexFree /\ PlayersMutexFree
  BY ModeMutexIsFree, PlayersMutexIsFree
<1>2. ASSUME NEW a \in Everybody
      PROVE  awaiter[a] \in {"off", "listen", "gone"} /\ (awaiter[a] = "listen" => ~cancelled)
  <2>1. awaiter[a] \in Awaiters
    BY ReadyTypes DEF IInv, ReadyInv
  <2>2. ~AwaiterCanMove(a)
    BY DEF SomeoneCanMove
  <2> QED
    BY <1>1, <2>1, <2>2 DEF AwaiterCanMove, ModeMutexFree, Awaiters
<1>0. ASSUME NEW a \in Actors PROVE late[a] = 0 /\ CanFire(a)
  <2>1. late[a] \in Nat /\ ~(late[a] > 0)
    BY DEF IInv, CastingInv, ContractsTypeOK, Everybody, SomeoneCanMove
  <2>2. late[a] = 0
    BY <2>1
  <2>3. QED BY <2>2, MaxLateAssumption DEF CanFire
<1>3. ASSUME NEW a \in Actors PROVE office[a] \in {"off", "open", "ended"}
  <2>1. ~OfficeCanMove(a)
    BY DEF SomeoneCanMove
  <2> QED
    BY <1>1, <2>1 DEF OfficeCanMove, PlayersMutexFree, IInv, PlayersInv, PlayersTypeOK
<1>4. \/ match \in {"none", "filled"}
      \/ match = "cast" /\ performer = "await" /\ Employed(GameMaster) /\ ~ctxDone
      \/ match = "await" /\ awaiting = "wait" /\ ~ctxDone
  <2>1. CASE match \in {"init", "assign", "open", "fill"}
    BY <1>1, <2>1 DEF Stages, SomeoneCanMove, RunCanMove
  <2>2. CASE match = "cast"
    <3>1. hired \subseteq Actors
      BY DEF IInv, CastingInv, CastingTypeOK
    <3>2. performer # "fire"
      BY <1>0, <3>1 DEF SomeoneCanMove, CastingCanMove
    <3>3. QED BY <2>2, <3>2 DEF Stages, SomeoneCanMove, RunCanMove, CastingCanMove
  <2>3. CASE match = "await"
    <3>1. awaiting \in {"wait", "drain"} /\ (awaiting = "wait" => ~ctxDone)
      BY <2>3 DEF Stages, SomeoneCanMove, RunCanMove, AwaitCanMove, IInv, ReadyInv, ReadyTypeOK
    <3>2. ASSUME awaiting = "drain" PROVE FALSE
      <4>1. \A a \in asked : awaiter[a] = "gone"
        BY <1>2, <3>2 DEF Waiting, IInv, ReadyInv, ReadyTypeOK
      <4> QED
        BY <3>2, <4>1 DEF SomeoneCanMove, AwaitCanMove
    <3> QED
      BY <2>3, <3>1, <3>2
  <2>4. CASE match = "join"
    <3>1. handlersDone /\ readyReader # "off" /\ playerReader # "off"
      BY <2>4 DEF Stages
    <3>2. readyReader = "stopped" /\ playerReader = "stopped"
      BY <3>1 DEF SomeoneCanMove, ReaderCanMove, IInv, ReadyInv, ReadyTypeOK, PlayersInv, PlayersTypeOK
    <3> QED
      BY <2>4, <3>2 DEF SomeoneCanMove, RunCanMove
  <2> QED
    BY <2>1, <2>2, <2>3, <2>4 DEF IInv, PlayersInv, MatchTypeOK
<1> QED
  BY <1>0, <1>2, <1>3, <1>4 DEF AtRest

\* The goroutines of a match (run, the casting, one per actor that is asked, one
\* per join office, two readers) block each other in no way but two: an update of
\* a ready-state or of a player is sent when its reader has stopped. In every
\* other state one of them can go on, until it is the turn of devices or the teams
\* are filled.
THEOREM OnlyUnreadUpdatesDeadlock == Spec => []NoDeadlock
<1>1. IInv /\ Stages /\ Waiting => NoDeadlock
  BY RestIsReached DEF NoDeadlock
<1> QED
  BY Invariant, GoesOnInit, StagesStep, WaitingStep, <1>1, PTL DEF Spec

\* An update without a reader finds none.
UnreadIsForGood == [][/\ NobodyReads => NobodyReads'
                      /\ NobodyReadsPlayers => NobodyReadsPlayers']_vars

\* Neither the end of the context nor a change of mind gets its sender out, so
\* RequestAndAwaitReady does not return in the one case, and in the other fillTeams
\* never gets the mutex.
THEOREM UnreadUpdatesAreForGood == Spec => UnreadIsForGood
<1>1. IInv /\ [Next]_vars => (NobodyReads => NobodyReads')
  <2> SUFFICES ASSUME IInv, [Next]_vars, NobodyReads PROVE NobodyReads'
    OBVIOUS
  <2>1. PICK a \in asked : awaiter[a] = "publish"
    BY DEF NobodyReads
  <2>2. readyReader = "stopped" /\ a \in Everybody /\ awaiter \in [Everybody -> Awaiters] /\ awaiting # "off"
    BY <2>1, ReadyTypes DEF NobodyReads, IInv, ReadyInv, Publishing
  <2>3. SUFFICES UNCHANGED <<readyReader, asked>> /\ awaiter'[a] = awaiter[a]
    BY <2>1, <2>2 DEF NobodyReads
  <2>4. CASE UNCHANGED readyVars
    BY <2>4 DEF readyVars
  <2>5. ~PlayerJoinsAndAwaitReady
    BY <2>2 DEF PlayerJoinsAndAwaitReady, RequestReady
  <2>6. CASE AwaitAborted(ctxDone) \/ AwaitReturns
    BY <2>6 DEF AwaitAborted, AwaitReturns
  <2>7. ~ReadyBroadcastReturns /\ ~ReadyReaderStops(ctxDone \/ handlersDone)
    BY <2>2 DEF ReadyBroadcastReturns, ReadyReaderStops
  <2>8. ASSUME NEW b \in Everybody, PublishUpdate(b, AfterTaking) PROVE FALSE
    BY <2>2, <2>8 DEF PublishUpdate
  <2>9. ASSUME NEW b \in Everybody,
               AreYouReadyForActor(b) \/ \E isReady \in BOOLEAN : ReceiveReadyState(b, isReady)
        PROVE  UNCHANGED <<readyReader, asked>> /\ awaiter'[a] = awaiter[a]
    <3>1. b # a /\ UNCHANGED <<readyReader, asked>> /\ \E to \in Awaiters : Goes(b, to)
      BY <2>1, <2>9 DEF AreYouReadyForActor, AskReady, BuildUpdate, HandleError, Signal, SignalCancelled,
         AfterSignal, SendReadyAccepted, ReadyNewsletterClosed, ReceiveReadyState, Awaiters
    <3> QED
      BY <2>2, <3>1 DEF Goes
  <2> QED
    BY <2>4, <2>5, <2>6, <2>7, <2>8, <2>9, ReadySteps
<1>2. IInv /\ [Next]_vars => (NobodyReadsPlayers => NobodyReadsPlayers')
  <2> SUFFICES ASSUME IInv, [Next]_vars, NobodyReadsPlayers PROVE NobodyReadsPlayers'
    OBVIOUS
  <2>1. PICK a \in Actors : office[a] \in {"joined", "left"}
    BY DEF NobodyReadsPlayers
  <2>2. /\ playerReader = "stopped" /\ match # "open"
        /\ office \in [Actors -> Offices]
    BY <2>1 DEF NobodyReadsPlayers, IInv, PlayersInv, PlayersTypeOK, Announcing, Offices
  <2>3. SUFFICES playerReader' = playerReader /\ office'[a] = office[a]
    BY <2>1, <2>2 DEF NobodyReadsPlayers
  <2>4. CASE UNCHANGED playerVars
    BY <2>4 DEF playerVars
  <2>5. ~PlayerJoinsAndAwaitReady
    BY <2>2 DEF PlayerJoinsAndAwaitReady
  <2>6. ~PlayerBroadcastReturns /\ ~PlayerReaderStops(ctxDone \/ handlersDone)
    BY <2>2 DEF PlayerBroadcastReturns, PlayerReaderStops
  <2>7. ASSUME NEW b \in Actors, SendPlayerUpdate(b, AfterTaking) PROVE FALSE
    BY <2>2, <2>7 DEF SendPlayerUpdate
  <2>8. ASSUME NEW b \in Actors,
               HandlePlayerJoins(b, ctxDone) \/ \E u \in Players : PlayerJoin(b, u) \/ PlayerLeave(b, u)
        PROVE  playerReader' = playerReader /\ office'[a] = office[a]
    <3>1. b # a
      <4>1. CASE HandlePlayerJoins(b, ctxDone)
        BY <2>1, <4>1 DEF HandlePlayerJoins, NotifyOpen, OfficeFails, OfficeCloses, AddPlayer, RemovePlayer
      <4>2. CASE \E u \in Players : PlayerJoin(b, u) \/ PlayerLeave(b, u)
        BY <2>1, <4>2 DEF PlayerJoin, PlayerLeave
      <4> QED BY <2>8, <4>1, <4>2
    <3>2. playerReader' = playerReader /\ \E to, u : office' = [office EXCEPT ![b] = to]
      BY <2>8 DEF HandlePlayerJoins, NotifyOpen, OfficeFails, OfficeCloses, AddPlayer, RemovePlayer,
         PlayerJoin, PlayerLeave, Answer, At
    <3> QED
      BY <2>2, <3>1, <3>2
  <2> QED
    BY <2>4, <2>5, <2>6, <2>7, <2>8, PlayerSteps
<1> QED
  BY <1>1, <1>2, Invariant, PTL DEF Spec, UnreadIsForGood
=============================================================================
