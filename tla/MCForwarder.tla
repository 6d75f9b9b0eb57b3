---------------------------- MODULE MCForwarder ----------------------------
(* The port forwarder with two clients and one permit.                     *)
EXTENDS Forwarder
=============================================================================
