---------------------------- MODULE MCHandshake ----------------------------
(* Small instances of Handshake for TLC; the constants are in the .cfg file. *)
EXTENDS Handshake
=============================================================================
