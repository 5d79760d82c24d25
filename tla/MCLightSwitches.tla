-------------------------- MODULE MCLightSwitches --------------------------
(* Small instances of LightSwitches for TLC. *)
EXTENDS LightSwitches

CONSTANTS p1, p2

\* One provider has two switches, the other one has one.
MCMaxOffers == [p \in {p1, p2} |-> IF p = p1 THEN 2 ELSE 1]
=============================================================================
