----------------------------- MODULE MCInbound -----------------------------
(* Small instances of Inbound for TLC; the constants are in the .cfg files. *)
EXTENDS Inbound
=============================================================================
