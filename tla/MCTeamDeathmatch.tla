-------------------------- MODULE MCTeamDeathmatch --------------------------
(* Small instances of TeamDeathmatch for TLC. *)
EXTENDS TeamDeathmatch

CONSTANTS a1, a2

MCTeamBases == <<"base-0", "base-1">>

\* One actor for the team base, the other one for everything else.
MCAssignable ==
    {<<"base-0", a1>>, <<"base-0", UnknownActor>>}
        \cup {<<k, a2>> : k \in Keys \ {"base-0"}}
=============================================================================
