--------------------------- MODULE MCDaemonClients ---------------------------
(* Three connections of one daemon. *)
EXTENDS DaemonClients

CONSTANTS c1, c2, c3
=============================================================================
