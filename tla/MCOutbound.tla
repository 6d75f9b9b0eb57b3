----------------------------- MODULE MCOutbound -----------------------------
(* Outbound for TLC; the constants are in the .cfg file.                    *)
EXTENDS Outbound
=============================================================================
