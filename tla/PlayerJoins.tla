---------------------------- MODULE PlayerJoins -----------------------------
(***************************************************************************)
(* games/player_management.go: the join office of a team has a goroutine    *)
(* per team base, all offices share a PlayerManagement. Its mutex is held   *)
(* at "joined" and "left", where the goroutine waits for the reader of      *)
(* updates. Teams are left out: a match that gets this far has one.         *)
(***************************************************************************)
EXTENDS Contracts

CONSTANTS Players, NoPlayer

ASSUME PlayersAssumption == NoPlayer \notin Players

VARIABLES
    office,        \* handlePlayerJoins of a team base
    candidate,     \* the player that a goroutine is at
    active,        \* PlayerManagement.active
    announced,     \* players that are active for one who follows the updates
    playerReader   \* the reader of updates: "off", "read", "broadcast" or "stopped"

playerVars == <<office, candidate, active, announced, playerReader>>

Init_Players ==
    /\ office = [a \in Actors |-> "off"]
    /\ candidate = [a \in Actors |-> NoPlayer]
    /\ active = {} /\ announced = {}
    /\ playerReader = "off"

\* Mutant: the mutex is unlocked before the update is sent.
PlayersMutexUnlocked == TRUE

PlayersMutexFree == \A a \in Actors : office[a] \notin {"joined", "left"}

At(a, to, u) ==
    /\ office' = [office EXCEPT ![a] = to]
    /\ candidate' = [candidate EXCEPT ![a] = u]

\* Back at the select, or gone because an answer cannot be sent.
Answer(a) == At(a, IF Employed(a) THEN "open" ELSE "ended", NoPlayer)

OpenOffices(S) ==
    /\ office' = [a \in Actors |-> IF a \in S THEN "notify" ELSE "off"]
    /\ playerReader' = "read"
    /\ UNCHANGED <<candidate, active, announced>>

\* Sends PlayerJoinOpen.
NotifyOpen(a) ==
    /\ office[a] = "notify"
    /\ Answer(a)
    /\ UNCHANGED <<active, announced, playerReader>>

\* A player, known or a new guest, wants to join. An unknown one is refused.
PlayerJoin(a, u) ==
    /\ office[a] = "open" /\ Employed(a)
    /\ At(a, "join", u)
    /\ UNCHANGED <<active, announced, playerReader>>

PlayerLeave(a, u) ==
    /\ office[a] = "open" /\ Employed(a)
    /\ At(a, "leave", u)
    /\ UNCHANGED <<active, announced, playerReader>>

\* The store fails; or the newsletters are closed, which gives empty messages,
\* and the answer to one of those cannot be sent.
OfficeFails(a) ==
    /\ office[a] = "open"
    /\ At(a, "ended", NoPlayer)
    /\ UNCHANGED <<active, announced, playerReader>>

\* The context is done: PlayerJoinClosed is sent.
OfficeCloses(a, isDone) ==
    /\ office[a] = "open" /\ isDone
    /\ At(a, "ended", NoPlayer)
    /\ UNCHANGED <<active, announced, playerReader>>

AddPlayer(a) ==
    /\ office[a] = "join" /\ PlayersMutexFree
    /\ IF candidate[a] \in active
       THEN Answer(a) /\ UNCHANGED active
       ELSE active' = active \cup {candidate[a]} /\ At(a, "joined", candidate[a])
    /\ UNCHANGED <<announced, playerReader>>

RemovePlayer(a) ==
    /\ office[a] = "leave" /\ PlayersMutexFree
    /\ IF candidate[a] \notin active
       THEN Answer(a) /\ UNCHANGED active
       ELSE active' = active \ {candidate[a]} /\ At(a, "left", candidate[a])
    /\ UNCHANGED <<announced, playerReader>>

\* The reader takes the update, with next = "broadcast" if the broadcast is a
\* step of its own. Nothing else ends the wait for the reader.
SendPlayerUpdate(a, next) ==
    /\ office[a] \in {"joined", "left"} /\ playerReader = "read"
    /\ announced' = IF office[a] = "joined" THEN announced \cup {candidate[a]}
                    ELSE announced \ {candidate[a]}
    /\ playerReader' = next
    /\ At(a, "open", NoPlayer)
    /\ UNCHANGED active

HandlePlayerJoins(a, isDone) ==
    \/ NotifyOpen(a) \/ OfficeFails(a) \/ OfficeCloses(a, isDone)
    \/ AddPlayer(a) \/ RemovePlayer(a)

PlayerReaderStops(isDone) ==
    /\ playerReader = "read" /\ isDone
    /\ playerReader' = "stopped"
    /\ UNCHANGED <<office, candidate, active, announced>>

\* The update has been broadcast; errors are logged.
PlayerBroadcastReturns ==
    /\ playerReader = "broadcast" /\ playerReader' = "read"
    /\ UNCHANGED <<office, candidate, active, announced>>

PlayersTypeOK ==
    /\ office \in [Actors -> {"off", "notify", "open", "join", "leave", "joined", "left", "ended"}]
    /\ candidate \in [Actors -> Players \cup {NoPlayer}]
    /\ active \subseteq Players /\ announced \subseteq Players
    /\ playerReader \in {"off", "read", "broadcast", "stopped"}
=============================================================================
