---------------------------- MODULE MCHandshake ----------------------------
(* The one instance of Handshake. *)
EXTENDS Handshake
=============================================================================
