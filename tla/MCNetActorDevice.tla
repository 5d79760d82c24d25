-------------------------- MODULE MCNetActorDevice --------------------------
(* Small instances of NetActorDevice for TLC. *)
EXTENDS NetActorDevice, TLC
=============================================================================
