SPECIFICATION FairSpec
CONSTANTS
    a1 = a1
    a2 = a2
    Actors = {a1, a2}
    GameMaster = gm
    MaxLate = 2
    Keys = {"base-0", "base-1", "base-monitor", "match-monitor"}
    UnknownActor = unknown
    Assignable <- MCAssignable
    MaxAssignments = 2
    Players = {u1}
    NoPlayer = NoPlayer
    TeamBases <- MCTeamBases
    TeamBaseMonitor = "base-monitor"
    MatchMonitor = "match-monitor"
    TeamCounts = {0, 1, 2}
    NoTeamCount = NoTeamCount
INVARIANTS
    AllOrNobodyHired
    ReadyIsPublished
    TeamsAreAnnounced
PROPERTIES
    ReadyReturns
CHECK_DEADLOCK FALSE
