---------------------------- MODULE MCGatekeeper ----------------------------
(* Small instances of Gatekeeper for TLC. *)
EXTENDS Gatekeeper, TLC
=============================================================================
