---------------------------- MODULE MCSocketHub ----------------------------
(* Clients for the TLC run of SocketHub. *)
EXTENDS SocketHub

CONSTANTS c1, c2
=============================================================================
