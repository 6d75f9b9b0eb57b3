------------------------------- MODULE MCMux -------------------------------
(* Small instances of Mux for TLC.                                          *)
EXTENDS Mux
=============================================================================
