--------------------------- MODULE MCOutboundRtt ---------------------------
(* OutboundRtt for TLC; the constants are in the .cfg file.                 *)
EXTENDS OutboundRtt, TLC

(* The code does not look into the payloads: they are interchangeable.      *)
Symmetry == Permutations(Data)
=============================================================================
