----------------------------- MODULE Contracts ------------------------------
(***************************************************************************)
(* What a match sees of actors (acting/acting.go): who has a contract with  *)
(* whom. NetActor.tla has the steps of hiring and firing.                   *)
(*                                                                         *)
(* Hire starts a goroutine that calls fire() when the contract ends,        *)
(* whichever contract is valid by then. After a disconnect it finds none;   *)
(* after FireAllActors the actor may have been hired again.                 *)
(***************************************************************************)
EXTENDS Naturals

CONSTANTS
    Actors,       \* actors that a casting may hire
    GameMaster,   \* the actor that controls the match, hired by its caller
    MaxLate       \* bound: goroutines of Hire that have yet to call fire(), per actor

ASSUME GameMasterAssumption == GameMaster \notin Actors
ASSUME MaxLateAssumption == MaxLate \in Nat \ {0}

Everybody == Actors \cup {GameMaster}

VARIABLES
    contract,  \* "none", "match", "other", or "gone" with the device
    late,      \* goroutines of Hire that have yet to call fire(), per actor
    fired      \* history: actors of the agency that a casting has fired

contractVars == <<contract, late, fired>>

Init_Contracts ==
    /\ contract = [a \in Everybody |-> IF a = GameMaster THEN "other" ELSE "none"]
    /\ late = [a \in Everybody |-> 0]
    /\ fired = {}

\* Messages can be sent to a and its newsletters are open.
Employed(a) == contract[a] \in {"match", "other"}

\* ActorByID finds it.
InAgency(a) == contract[a] # "gone"

\* Hire refuses an actor that has a contract or cannot be notified.
CanHire(a) == contract[a] = "none"
Hire(a) ==
    /\ contract' = [contract EXCEPT ![a] = "match"]
    /\ UNCHANGED <<late, fired>>

\* FireAllActors: fire ends the contract, if there is one, and wakes its goroutine.
CanFire(a) == Employed(a) => late[a] < MaxLate
Fire(a) ==
    IF Employed(a)
    THEN /\ contract' = [contract EXCEPT ![a] = "none"]
         /\ late' = [late EXCEPT ![a] = @ + 1]
         /\ fired' = fired \cup {a}
    ELSE UNCHANGED contractVars

\* The goroutine's own fire: a contract that was made meanwhile ends, too, and its
\* goroutine takes the place of this one.
LateFire(a) ==
    /\ late[a] > 0
    /\ IF Employed(a)
       THEN contract' = [contract EXCEPT ![a] = "none"] /\ UNCHANGED late
       ELSE late' = [late EXCEPT ![a] = @ - 1] /\ UNCHANGED contract
    /\ UNCHANGED fired

\* Somebody else in the server hires a free actor.
HiredByOther(a) ==
    /\ contract[a] = "none"
    /\ contract' = [contract EXCEPT ![a] = "other"]
    /\ UNCHANGED <<late, fired>>

\* It was the casting of another match, and that one fires it.
FiredByOther(a) ==
    /\ contract[a] = "other" /\ CanFire(a)
    /\ Fire(a)

\* The device disconnects: its actors are fired and leave the agency.
Quit(a) ==
    /\ InAgency(a)
    /\ contract' = [contract EXCEPT ![a] = "gone"]
    /\ late' = [late EXCEPT ![a] = 0]
    /\ fired' = fired \ {a}

ContractsTypeOK ==
    /\ contract \in [Everybody -> {"none", "match", "other", "gone"}]
    /\ late \in [Everybody -> 0..MaxLate]
    /\ fired \subseteq Everybody
=============================================================================
