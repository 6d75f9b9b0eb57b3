------------------------------ MODULE MCShell ------------------------------
(* Small instances of Shell for TLC.                                        *)
EXTENDS Shell
=============================================================================
