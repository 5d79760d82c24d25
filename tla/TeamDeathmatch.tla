--------------------------- MODULE TeamDeathmatch ---------------------------
(***************************************************************************)
(* games/mode_team_deathmatch: the setup of a match, from its config over   *)
(* the casting of team bases and monitors to the players that join and the  *)
(* wait until everybody is ready. It composes Casting, ReadyAwaiter and     *)
(* PlayerJoins, which run on the same actors.                               *)
(*                                                                         *)
(* Abort cancels the match's context and panics, which ends the process:    *)
(* crashed. The status updates are taken to be read.                        *)
(***************************************************************************)
EXTENDS Casting, ReadyAwaiter, PlayerJoins

CONSTANTS
    TeamBases,        \* sequence of the request keys of team bases
    TeamBaseMonitor,  \* request key
    MatchMonitor,     \* request key
    TeamCounts,       \* team counts in config requests
    NoTeamCount       \* a config request without one

ASSUME TeamDeathmatchAssumption ==
    /\ TeamBases \in Seq(Keys) /\ Len(TeamBases) >= 2
    /\ {TeamBaseMonitor, MatchMonitor} \subseteq Keys
    /\ TeamCounts \subseteq 0..Len(TeamBases)

VARIABLES
    match,        \* Match.run and what is called before it
    teamCount,    \* config.TeamCount
    ctxDone,      \* the match's context is done
    handlersDone, \* the context of the handlers in playerJoinsAndAwaitReady
    bases,        \* team bases in match.teams
    monitors,     \* team base monitors in match.teams, {} if they do not matter
    hasMonitors,  \* match.monitors is not empty
    players,      \* players in match.teams
    crashed

matchVars == <<match, teamCount, ctxDone, handlersDone, bases, monitors, hasMonitors, players, crashed>>
vars == <<contractVars, castingVars, readyVars, playerVars, matchVars>>

Init_Match ==
    /\ match = "none" /\ teamCount = 0
    /\ ctxDone = FALSE /\ handlersDone = FALSE
    /\ bases = {} /\ monitors = {} /\ hasMonitors = FALSE
    /\ players = {}

Init ==
    /\ Init_Contracts /\ Init_Casting /\ Init_Ready /\ Init_Players /\ Init_Match
    /\ crashed = FALSE

defaultConfigTeamCount == 2

-----------------------------------------------------------------------------
(* NewMatch, Start and run. *)

\* configFromRequest for the team count; other fields are checked the same way.
ConfigFromRequest(n) == IF n = NoTeamCount THEN defaultConfigTeamCount ELSE n
ValidConfigRequest(n) == ConfigFromRequest(n) > 0

NewMatch(n) ==
    /\ match = "none" /\ ValidConfigRequest(n)
    /\ match' = "init"
    /\ teamCount' = ConfigFromRequest(n)
    /\ UNCHANGED <<contractVars, castingVars, readyVars, playerVars, ctxDone, handlersDone,
                   bases, monitors, hasMonitors, players, crashed>>

Start ==
    /\ match = "init"
    /\ match' = "assign"
    /\ UNCHANGED <<contractVars, castingVars, readyVars, playerVars, teamCount, ctxDone, handlersDone,
                   bases, monitors, hasMonitors, players, crashed>>

\* The process is gone.
AbortMatch ==
    /\ crashed' = TRUE
    /\ UNCHANGED <<contractVars, castingVars, readyVars, playerVars, match, teamCount, ctxDone,
                   handlersDone, bases, monitors, hasMonitors, players>>

\* The requests of performRoleAssignment: every team asks for its monitors
\* under the same key.
MatchRequests ==
    LET forTeams == [n \in 1..(2 * teamCount) |->
                        IF n % 2 = 1 THEN [key |-> TeamBases[(n + 1) \div 2], min |-> 1, max |-> {}]
                        ELSE [key |-> TeamBaseMonitor, min |-> 0, max |-> {}]] IN
    Append(forTeams, [key |-> MatchMonitor, min |-> 0, max |-> {}])

PerformRoleAssignment ==
    /\ match = "assign"
    /\ \/ /\ Perform(MatchRequests)
          /\ match' = "cast"
          /\ UNCHANGED <<readyVars, playerVars, teamCount, ctxDone, handlersDone,
                         bases, monitors, hasMonitors, players, crashed>>
       \/ ~RequestsAccepted(MatchRequests) /\ AbortMatch

\* The casting is over and the winners are retrieved. Whether a team base monitor
\* is there matters only to a broadcast that would go on to the match monitors.
RetrieveWinners ==
    /\ match = "cast"
    /\ \/ performer = "failed" /\ AbortMatch
       \/ /\ match' = "open"
          /\ bases' = UNION {WinnersOf(TeamBases[n]) : n \in 1..teamCount}
          /\ hasMonitors' = (WinnersOf(MatchMonitor) # {})
          /\ monitors' = IF hasMonitors' THEN WinnersOf(TeamBaseMonitor) ELSE {}
          /\ DropCasting(bases' \cup monitors')
          /\ UNCHANGED <<readyVars, playerVars, teamCount, ctxDone, handlersDone, players, crashed>>

\* An office is opened at every team base, and game master and bases are asked
\* to be ready.
PlayerJoinsAndAwaitReady ==
    /\ match = "open"
    /\ match' = "await"
    /\ OpenOffices(bases)
    /\ RequestReady(bases \cup {GameMaster})
    /\ UNCHANGED <<contractVars, castingVars, teamCount, ctxDone, handlersDone,
                   bases, monitors, hasMonitors, players, crashed>>

\* RequestAndAwaitReady has returned. No office is closed, as none was kept.
CancelHandlers ==
    /\ match = "await" /\ awaiting = "returned"
    /\ match' = "join"
    /\ handlersDone' = TRUE
    /\ UNCHANGED <<contractVars, castingVars, readyVars, playerVars, teamCount, ctxDone,
                   bases, monitors, hasMonitors, players, crashed>>

\* wg.Wait for the readers.
WaitForHandlers ==
    /\ match = "join" /\ readyReader = "stopped" /\ playerReader = "stopped"
    /\ \/ outcome # "ready" /\ AbortMatch
       \/ /\ outcome = "ready"
          /\ match' = "fill"
          /\ UNCHANGED <<contractVars, castingVars, readyVars, playerVars, teamCount, ctxDone,
                         handlersDone, bases, monitors, hasMonitors, players, crashed>>

\* fillTeams reads the players, handOutLives does nothing yet.
FillTeams ==
    /\ match = "fill" /\ PlayersMutexFree
    /\ match' = "filled"
    /\ players' = active
    /\ UNCHANGED <<contractVars, castingVars, readyVars, playerVars, teamCount, ctxDone, handlersDone,
                   bases, monitors, hasMonitors, crashed>>

-----------------------------------------------------------------------------
\* The game master aborts a match that was started.
GameMasterAborts ==
    /\ match \notin {"none", "init"} /\ Employed(GameMaster)
    /\ AbortMatch

\* The one who started the match cancels its context.
ContextDone ==
    /\ match \notin {"none", "init"} /\ ~ctxDone
    /\ ctxDone' = TRUE
    /\ UNCHANGED <<contractVars, castingVars, readyVars, playerVars, match, teamCount, handlersDone,
                   bases, monitors, hasMonitors, players, crashed>>

Run ==
    \/ PerformRoleAssignment \/ RetrieveWinners \/ PlayerJoinsAndAwaitReady
    \/ CancelHandlers \/ WaitForHandlers \/ FillTeams

Await(step) == step /\ UNCHANGED <<contractVars, castingVars, playerVars, matchVars>>
Join(step) == step /\ UNCHANGED <<contractVars, castingVars, readyVars, matchVars>>

\* Bases, team base monitors and match monitors are sent an update, until the
\* first error. The entries of match.monitors stay nil: the broadcast panics
\* when it gets there. Players cannot always be looked up. A broadcast that
\* does not get there only sends and logs: it is part of taking the update.
Panics == hasMonitors /\ \A a \in bases \cup monitors : Employed(a)
AfterTaking == IF hasMonitors THEN "broadcast" ELSE "read"

\* The handlers' context is a child of the match's.
ReadyReader ==
    \/ \E a \in Everybody : Await(PublishUpdate(a, AfterTaking))
    \/ ~Panics /\ Await(ReadyBroadcastReturns)
    \/ Panics /\ readyReader = "broadcast" /\ AbortMatch
    \/ Await(ReadyReaderStops(ctxDone \/ handlersDone))

PlayerReader ==
    \/ \E a \in Actors : Join(SendPlayerUpdate(a, AfterTaking))
    \/ Join(PlayerBroadcastReturns)
    \/ Panics /\ playerReader = "broadcast" /\ AbortMatch
    \/ Join(PlayerReaderStops(ctxDone \/ handlersDone))

Cast == PerformAndHire(ctxDone) /\ UNCHANGED <<readyVars, playerVars, matchVars>>
AwaitReady == Await(AwaitAborted(ctxDone) \/ AwaitReturns)

\* Actors are hired and fired by others and quit, and goroutines of contracts
\* that have ended fire. After the casting, an actor that loses its contract is
\* of no use to the match, whoever hires it next: Quit stands for a late fire.
Actor(a) ==
    /\ \/ match = "cast" /\ a \in Actors /\ (HiredByOther(a) \/ FiredByOther(a) \/ LateFire(a))
       \/ (match = "cast" \/ a \in bases \cup monitors \cup {GameMaster}) /\ Quit(a)
    /\ UNCHANGED <<castingVars, readyVars, playerVars, matchVars>>

Next ==
    /\ ~crashed
    /\ \/ \E n \in TeamCounts \cup {NoTeamCount} : NewMatch(n)
       \/ Start \/ Run \/ GameMasterAborts \/ ContextDone
       \/ Cast \/ AwaitReady \/ ReadyReader \/ PlayerReader
       \/ \E a \in Everybody :
            \/ Actor(a)
            \/ Await(AreYouReadyForActor(a))
            \/ \E isReady \in BOOLEAN : Await(ReceiveReadyState(a, isReady))
       \/ \E a \in Actors :
            \/ Join(HandlePlayerJoins(a, ctxDone))
            \/ \E u \in Players : Join(PlayerJoin(a, u) \/ PlayerLeave(a, u))

Spec == Init /\ [][Next]_vars

\* Goroutines that can go on do so, and a goroutine that gets to its select
\* again and again notices a cancelled context.
Fairness ==
    /\ WF_vars(~crashed /\ AwaitReady)
    /\ WF_vars(~crashed /\ ReadyReader)
    /\ \A a \in Everybody :
        /\ WF_vars(~crashed /\ Await(AreYouReadyForActor(a)))
        /\ SF_vars(~crashed /\ Await(SendReadyAccepted(a)))

FairSpec == Spec /\ Fairness

-----------------------------------------------------------------------------
TypeOK ==
    /\ ContractsTypeOK /\ CastingTypeOK /\ ReadyTypeOK /\ PlayersTypeOK
    /\ match \in {"none", "init", "assign", "cast", "open", "await", "join", "fill", "filled"}
    /\ teamCount \in 0..Len(TeamBases)
    /\ {ctxDone, handlersDone, crashed} \subseteq BOOLEAN
    /\ bases \subseteq Actors /\ monitors \subseteq Actors /\ hasMonitors \in BOOLEAN
    /\ players \subseteq Players

\* A match is filled with the players that the broadcast updates tell of,
\* although players join and leave until the last moment and the offices are
\* never closed.
TeamsAreAnnounced ==
    /\ TypeOK
    /\ match = "filled" => players = announced

\* Once everybody is ready or the match is aborted, RequestAndAwaitReady
\* returns, unless the reader of updates stopped first and left the sender of
\* one behind.
ReadyReturns == awaiting = "drain" ~> awaiting = "returned" \/ NobodyReads \/ crashed
=============================================================================
