---------------------------- MODULE DeviceService ----------------------------
(***************************************************************************)
(* What hub, gatekeeper and agency promise together: a connected device is  *)
(* served by actors that belong to its own connection, one connection at a  *)
(* time, and a connection that is gone is not served again, except that one *)
(* whose goodbye failed may leave its actors behind until the device comes  *)
(* back or another goodbye finds them.                                      *)
(* gatekeeping.go (Protected): WelcomeDevice "is called when a new device   *)
(* is welcomed", SayGoodbyeToDevice "when a device disconnects".            *)
(***************************************************************************)
CONSTANTS Clients, Devices, NoClient

VARIABLES
    serving,   \* for every device the connection whose actors serve it
    gone,      \* connections that the server is done with
    abandoned  \* those of them whose goodbye failed

Init == serving = [d \in Devices |-> NoClient] /\ gone = {} /\ abandoned = {}

\* A device is welcomed only where no connection serves that is not abandoned.
Arrive(c, d) ==
    /\ c \notin gone
    /\ serving[d] \in abandoned \cup {NoClient}
    /\ \A e \in Devices : serving[e] # c
    /\ serving' = [serving EXCEPT ![d] = c]
    /\ UNCHANGED <<gone, abandoned>>

\* A goodbye ends the connection's own service, and at most that of abandoned ones.
Leave(c) ==
    /\ c \notin gone
    /\ gone' = gone \cup {c}
    /\ \E left \in SUBSET abandoned :
         serving' = [d \in Devices |-> IF serving[d] \in left \cup {c} THEN NoClient ELSE serving[d]]
    /\ UNCHANGED abandoned

Abandon(c) ==
    /\ c \notin gone
    /\ gone' = gone \cup {c} /\ abandoned' = abandoned \cup {c}
    /\ UNCHANGED serving

Next ==
    \E c \in Clients : Leave(c) \/ Abandon(c) \/ \E d \in Devices : Arrive(c, d)

Spec == Init /\ [][Next]_<<serving, gone, abandoned>>
=============================================================================
