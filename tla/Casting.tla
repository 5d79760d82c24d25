------------------------------ MODULE Casting -------------------------------
(***************************************************************************)
(* casting/casting.go: the jury assigns actors to requests, the casting     *)
(* checks the assignments and hires the winners, until that succeeds or the *)
(* jury or the context is gone.                                             *)
(***************************************************************************)
EXTENDS Sequences, FiniteSets, Contracts

CONSTANTS
    Keys,            \* request keys, also ones that nobody requested
    UnknownActor,    \* an actor id that the agency does not know
    Assignable,      \* bound: pairs of key and actor that the jury may assign
    MaxAssignments   \* bound: assignments in one message of the jury

ASSUME CastingAssumption ==
    /\ UnknownActor \notin Everybody
    /\ Assignable \subseteq Keys \X (Actors \cup {UnknownActor})
    /\ MaxAssignments \in Nat

VARIABLES
    castingState,  \* casting.state
    requests,      \* sequence of ActorRequest; max is a set of at most one number
    performer,     \* where PerformAndHire is
    winners,       \* sequence of pairs of key and actor
    remaining,     \* winners that hireWinners has not come to, by position
    hired          \* actors that this call of hireWinners has hired

castingVars == <<castingState, requests, performer, winners, remaining, hired>>

Assignments == UNION {[1..n -> Assignable] : n \in 0..MaxAssignments}
NoWinners == <<>>

Init_Casting ==
    /\ castingState = "ready" /\ requests = <<>>
    /\ performer = "idle"
    /\ winners = NoWinners
    /\ remaining = {} /\ hired = {}

-----------------------------------------------------------------------------
AssureCastingRequestsAlterAllowed == castingState = "ready"

AssureValidActorRequest(added, r) ==
    /\ \A n \in DOMAIN added : added[n].key # r.key
    /\ \A max \in r.max : max >= 1 /\ r.min <= max

\* AddRequest for one request after the other succeeds.
RequestsAccepted(rs) ==
    /\ AssureCastingRequestsAlterAllowed
    /\ \A n \in DOMAIN rs : AssureValidActorRequest(SubSeq(rs, 1, n - 1), rs[n])

\* AddRequest for each of rs and the beginning of PerformAndHire.
Perform(rs) ==
    /\ performer = "idle" /\ RequestsAccepted(rs)
    /\ requests' = rs
    /\ castingState' = "casting"
    /\ performer' = "request"
    /\ UNCHANGED <<winners, remaining, hired, contractVars>>

\* PerformAndHire returns an error; castingState stays as it is.
Fails == performer' = "failed"

\* Subscribes and sends the request for assignments.
RequestAssignments ==
    /\ performer = "request"
    /\ IF Employed(GameMaster) THEN performer' = "await" ELSE Fails
    /\ UNCHANGED <<castingState, requests, winners, remaining, hired, contractVars>>

\* The context is done, or the newsletter is closed.
NoAssignments(isDone) ==
    /\ performer = "await" /\ (isDone \/ ~Employed(GameMaster))
    /\ Fails
    /\ UNCHANGED <<castingState, requests, winners, remaining, hired, contractVars>>

\* The jury is told what is wrong and asked again.
NotifyJury == IF Employed(GameMaster) THEN performer' = "request" ELSE Fails

\* setWinners: the positions of the actors in the list for k.
AssignedTo(m, k) == {n \in DOMAIN m : m[n][1] = k}

AssureWinnersSatisfyRequests(m) ==
    \A n \in DOMAIN requests :
        LET count == Cardinality(AssignedTo(m, requests[n].key)) IN
        count >= requests[n].min /\ \A max \in requests[n].max : count <= max

ReceiveAssignments(m) ==
    LET known == \A n \in DOMAIN m : m[n][2] # UnknownActor /\ InAgency(m[n][2]) IN
    /\ performer = "await" /\ Employed(GameMaster)
    /\ IF known /\ AssureWinnersSatisfyRequests(m)
       THEN performer' = "hire" /\ winners' = m /\ remaining' = DOMAIN m
       ELSE NotifyJury /\ UNCHANGED <<winners, remaining>>
    /\ UNCHANGED <<castingState, requests, hired, contractVars>>

-----------------------------------------------------------------------------
(* hireWinners goes through a map of lists: any winner may be the next one  *)
(* (the order within a list is left out).                                   *)

HireWinner(n) ==
    LET a == winners[n][2] IN
    /\ performer = "hire" /\ n \in remaining
    /\ CanHire(a)
    /\ Hire(a)
    /\ hired' = hired \cup {a}
    /\ remaining' = remaining \ {n}
    /\ UNCHANGED <<castingState, requests, performer, winners>>

\* Mutant: the jury is asked again and the hired winners stay hired.
HireFailsKeeping(n) ==
    /\ performer = "hire" /\ n \in remaining
    /\ ~CanHire(winners[n][2])
    /\ NotifyJury
    /\ winners' = NoWinners /\ remaining' = {} /\ hired' = {}
    /\ UNCHANGED <<castingState, requests, contractVars>>

\* An actor that cannot be hired makes hireWinners fire the ones before it.
HireFails(n) ==
    /\ performer = "hire" /\ n \in remaining
    /\ ~CanHire(winners[n][2])
    /\ performer' = "fire"
    /\ winners' = NoWinners /\ remaining' = {}
    /\ UNCHANGED <<castingState, requests, hired, contractVars>>

FireHired(a) ==
    /\ performer = "fire" /\ a \in hired
    /\ CanFire(a) /\ Fire(a)
    /\ hired' = hired \ {a}
    /\ UNCHANGED <<castingState, requests, performer, winners, remaining>>

FiredAll ==
    /\ performer = "fire" /\ hired = {}
    /\ NotifyJury
    /\ UNCHANGED <<castingState, requests, winners, remaining, hired, contractVars>>

CastingDone ==
    /\ performer = "hire" /\ remaining = {}
    /\ castingState' = "done"
    /\ performer' = "done"
    /\ hired' = {}
    /\ UNCHANGED <<requests, winners, remaining, contractVars>>

\* The winners are retrieved (GetWinners) and the casting is dropped. What
\* matters from now on is who of S can be reached: "other" stands for any contract,
\* "gone" for actors that are not in S, and for those that a late goroutine has
\* fired or fires later.
DropCasting(S) ==
    /\ performer = "done" /\ performer' = "dropped"
    /\ requests' = <<>> /\ winners' = NoWinners
    /\ contract' = [a \in Everybody |-> IF a \in S \cup {GameMaster} /\ Employed(a) THEN "other" ELSE "gone"]
    /\ late' = [a \in Everybody |-> 0] /\ fired' = {}
    /\ UNCHANGED <<castingState, remaining, hired>>

PerformAndHire(isDone) ==
    \/ RequestAssignments \/ NoAssignments(isDone)
    \/ \E m \in Assignments : ReceiveAssignments(m)
    \/ \E n \in 1..MaxAssignments : HireWinner(n) \/ HireFails(n)
    \/ \E a \in Actors : FireHired(a)
    \/ FiredAll \/ CastingDone

\* The actors that GetWinners returns for k.
WinnersOf(k) == {winners[n][2] : n \in AssignedTo(winners, k)}
Winners == {winners[n][2] : n \in DOMAIN winners}

CastingTypeOK ==
    /\ castingState \in {"ready", "casting", "done"}
    /\ requests \in Seq([key : Keys, min : Nat, max : SUBSET Nat])
    /\ performer \in {"idle", "request", "await", "hire", "fire", "failed", "done", "dropped"}
    /\ winners \in Seq(Keys \X Actors)
    /\ remaining \subseteq DOMAIN winners
    /\ hired \subseteq Actors

\* A casting hires all of its winners or nobody: whatever the jury assigns (an
\* actor twice, one that others hire meanwhile, one that quits), an attempt that
\* failed half-way leaves no contract, neither when the jury is asked again nor
\* when PerformAndHire gives up; at the end every winner that is still there
\* works for the match. Only one that a casting has fired before may not: the
\* goroutine of that contract may have ended the new one.
AllOrNobodyHired ==
    /\ performer \in {"request", "await", "failed"} => \A a \in Actors : contract[a] # "match"
    /\ performer = "done" => \A a \in Winners \ fired : contract[a] \in {"match", "gone"}
    /\ performer # "dropped" =>
        \A a \in Actors : contract[a] = "match" => a \in hired \/ a \in Winners
=============================================================================
