----------------------------- MODULE MCNetActor -----------------------------
(* Small instances of NetActor for TLC. *)
EXTENDS NetActor, TLC
=============================================================================
