---------------------------- MODULE MCMQTTBridge ----------------------------
(* Small instances of MQTTBridge for TLC. *)
EXTENDS MQTTBridge
=============================================================================
