----------------------- MODULE MCSubscriptionManager -----------------------
(* Small instances of SubscriptionManager for TLC. *)
EXTENDS SubscriptionManager, TLC
=============================================================================
